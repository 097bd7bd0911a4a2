--------------------------- MODULE SetOutcomeProofs ---------------------------
(***************************************************************************)
(* What a set achieves, proved for any data model, any requests, writers,  *)
(* sessions and refusals, for sets with and without bCommit, arrays that   *)
(* overflow and Commits that fail, as long as no call comes in while       *)
(* another is in progress.  Calls inside calls are those of the runs.      *)
(*                                                                         *)
(* A value travels from the request to TempParamValue, to the working copy *)
(* and to what is applied.  OInv follows it: how far the running call has  *)
(* come in its request and in the objects, and that up to there everything *)
(* agrees that no exit of a call has spoilt.                               *)
(***************************************************************************)
EXTENDS SetTransactionProofs, WellFoundedInduction

\* No call comes in while another is in progress.
OneAtATime == Inside = {}

-----------------------------------------------------------------------------
\* What is not applied was asked for, and belongs to a failed Commit or to an
\* object that is listed.
WorkInv ==
    /\ \A p \in Params :
          ObjOf[p] \in failed \cup spoilt \cup ToSet(objArray) \/ work[p] = live[p]
    /\ \A p \in Params : work[p] # live[p] => work[p] \in asked[p] \/ ObjOf[p] \in spoilt

\* A listed VarRecord has its object listed, and a mark means that the
\* component has the staged value.
RecordInv ==
    /\ \A p \in ToSet(varArray) : ObjOf[p] \in ToSet(objArray) \cup spoilt
    /\ \A p \in alreadySet : work[p] = temp[p] \/ ObjOf[p] \in spoilt

\* Until the commit, a staged value is one that was asked for.
AskedInv ==
    calls = <<>> \/ Top.pc \in {"stage", "enlist", "verify"} =>
        \A p \in Params : temp[p] # NoValue => temp[p] \in asked[p] \/ ObjOf[p] \in spoilt

\* A set counts what is listed from its first VarRecord on.
ListInv ==
    /\ Top.pc \in {"stage", "enlist", "verify"} => Top.op = "set"
    /\ Top.op = "set" => Top.sess = dbSession /\ Top.req \in Requests
    /\ Top.pc \in {"stage", "enlist"} => Top.i <= Len(Top.req) + 1
    /\ Top.pc \in {"stage", "enlist", "verify"} =>
          \/ Top.nVar = Len(varArray) /\ Top.nObj = Len(objArray)
          \/ Top.pc # "verify" /\ Top.i = 1 /\ Top.nVar = 0 /\ Top.nObj = 0

\* How many entries of its request the call has staged.
Upto == CASE Top.pc = "stage" -> Top.i - 1
          [] Top.pc = "enlist" -> Top.i
          [] OTHER -> Len(Top.req)

\* Of the entries staged so far, the last one of each parameter counts.
ValueInv ==
    Top.op = "set" =>
        \A n \in 1..Upto :
            (\A m \in 1..Upto : Top.req[m][1] = Top.req[n][1] => m <= n)
                => temp[Top.req[n][1]] = Top.req[n][2]

\* The component has the staged values of the objects verified so far.
HandedInv ==
    /\ Top.pc = "verify" =>
          \A k \in 1..Len(objArray) : k < Top.i =>
             \A p \in ParamsOf(objArray[k]) :
                temp[p] # NoValue => work[p] = temp[p] \/ ObjOf[p] \in spoilt
    /\ Top.pc \in {"commit", "callback", "applied"} /\ Top.op = "set" =>
          \A p \in Params : temp[p] # NoValue => work[p] = temp[p] \/ ObjOf[p] \in spoilt

\* Of the objects committed so far, the working copy is applied.
AppliedInv ==
    /\ Top.pc \in {"commit", "callback", "applied"} =>
          \A k \in 1..Len(objArray) :
             k < Top.i \/ (k = Top.i /\ Top.pc = "applied") =>
                \/ objArray[k] \in failed
                \/ \A p \in ParamsOf(objArray[k]) : live[p] = work[p]
    /\ Top.pc \in {"callback", "applied"} => Top.i <= Len(objArray) /\ Top.obj = objArray[Top.i]

CallInv == calls # <<>> => ListInv /\ ValueInv /\ HandedInv /\ AppliedInv

OInv == IInv /\ Len(calls) <= 1 /\ WorkInv /\ RecordInv /\ AskedInv /\ CallInv

-----------------------------------------------------------------------------
(***************************************************************************)
(* The one call in progress.                                               *)
(***************************************************************************)
LEMMA OneCall ==
  ASSUME OInv, calls # <<>>
  PROVE  /\ Len(calls) = 1 /\ Top = calls[1] /\ Top \in Frames /\ FrameOK(Top)
         /\ Top.req \in Seq(Params \X Values) /\ Len(Top.req) \in Nat
         /\ \A n \in 1..Len(Top.req) : Top.req[n][1] \in Params /\ Top.req[n][2] \in Values
<1>1. Len(calls) \in Nat \ {0} /\ Top = calls[Len(calls)] /\ Top \in Frames
  BY TopFacts DEF OInv, IInv
<1>2. Len(calls) = 1 /\ Top = calls[1] /\ FrameOK(Top)
  <2>1. Len(calls) <= 1
    BY DEF OInv
  <2>2. Len(calls) = 1
    BY <1>1, <2>1
  <2>3. QED
    BY <1>1, <2>2 DEF OInv, IInv, StackInv
<1>3. Top.req \in Seq(Params \X Values)
  <2>1. Top.req \in Requests \cup {<<>>}
    BY <1>1 DEF Frames
  <2>2. CASE Top.req \in Requests
    BY <2>2, ConstantsOK
  <2>3. CASE Top.req = <<>>
    BY <2>3
  <2>4. QED
    BY <2>1, <2>2, <2>3
<1>4. \A n \in 1..Len(Top.req) : Top.req[n] \in Params \X Values
  BY <1>3, ElementOfSeq
<1>5. QED
  BY <1>1, <1>2, <1>3, <1>4, LenProperties

LEMMA GoesOn ==
  ASSUME OInv, calls # <<>>, NEW g \in Frames, Replace(g)
  PROVE  calls' # <<>> /\ Len(calls') = 1 /\ Top' = g
<1>1. /\ calls' \in Seq(Frames) /\ Len(calls') = 1 /\ calls'[1] = g
  BY OneCall, ReplaceFacts DEF OInv, IInv
<1>2. calls' # <<>>
  BY <1>1, EmptySeq
<1>3. QED
  BY <1>1, <1>2 DEF Top, Last

LEMMA Ends ==
  ASSUME OInv, calls # <<>>, NEW answer, Return(answer)
  PROVE  calls' = <<>> /\ Len(calls') = 0
<1>1. calls' \in Seq(Frames) /\ Len(calls') = 0
  BY OneCall, TopFacts DEF OInv, IInv, Return
<1>2. QED
  BY <1>1, EmptySeq

\* A call starts only when none is in progress.
LEMMA Starts ==
  ASSUME OneAtATime, NEW kind, MayCall(kind)
  PROVE  calls = <<>>
  BY DEF OneAtATime, MayCall

\* The arrays as functions on an interval.
LEMMA Arrays ==
  ASSUME OInv
  PROVE  /\ varArray \in Seq(Params) /\ Len(varArray) \in Nat
         /\ objArray \in Seq(Objs) /\ Len(objArray) \in Nat
         /\ \A e : e \in ToSet(varArray) <=> \E n \in 1..Len(varArray) : varArray[n] = e
         /\ \A e : e \in ToSet(objArray) <=> \E n \in 1..Len(objArray) : objArray[n] = e
         /\ \A m, n \in 1..Len(objArray) : objArray[m] = objArray[n] => m = n
         /\ \A n \in 1..Len(objArray) : objArray[n] \in Objs
<1>1. varArray \in Seq(Params) /\ objArray \in Seq(Objs)
  BY DEF OInv, IInv, TypeOK
<1>2. /\ Len(varArray) \in Nat /\ Len(objArray) \in Nat /\ DOMAIN objArray = 1..Len(objArray)
      /\ \A e : e \in ToSet(varArray) <=> \E n \in 1..Len(varArray) : varArray[n] = e
      /\ \A e : e \in ToSet(objArray) <=> \E n \in 1..Len(objArray) : objArray[n] = e
  BY <1>1, ElementsOf
<1>3. QED
  BY <1>1, <1>2, ElementOfSeq DEF OInv, IInv, ArrayInv

LEMMA NothingListed == Len(<<>>) = 0 /\ ToSet(<<>>) = {}
  BY EmptySeq DEF ToSet

\* A sound object's staged values are listed.
LEMMA Listed ==
  ASSUME OInv, calls = <<>> \/ Top.pc # "enlist", NEW p \in Params, temp[p] # NoValue
  PROVE  p \in ToSet(varArray) \/ ObjOf[p] \in spoilt
<1>1. Enlisting = {}
  <2>1. ASSUME NEW n \in 1..Len(calls) PROVE calls[n].pc # "enlist"
    <3>1. calls # <<>>
      BY NothingListed
    <3>2. Len(calls) = 1 /\ Top = calls[1]
      BY <3>1, OneCall
    <3>3. n = 1
      BY <3>2
    <3>4. QED
      BY <3>1, <3>2, <3>3
  <2>2. QED
    BY <2>1 DEF Enlisting
<1>2. QED
  BY <1>1 DEF OInv, IInv, LeftInv

\* When the arrays are dropped, what is staged has been left behind; only the
\* component needs a look.
LEMMA ArraysGone ==
  ASSUME IInv', calls' = <<>>, varArray' = <<>>, objArray' = <<>>, WorkInv'
  PROVE  OInv'
<1>1. Len(calls') = 0 /\ ToSet(varArray') = {} /\ Enlisting' = {}
  BY NothingListed DEF Enlisting
<1>2. \A p \in Params : temp'[p] # NoValue => ObjOf[p] \in spoilt'
  BY <1>1 DEF IInv, LeftInv
<1>3. \A p \in alreadySet' : p \in Params /\ temp'[p] # NoValue
  BY DEF IInv, TypeOK, MarkInv
<1>4. RecordInv' /\ AskedInv'
  BY <1>1, <1>2, <1>3 DEF RecordInv, AskedInv
<1>5. QED
  BY <1>1, <1>4 DEF OInv, CallInv

\* A call only ever adds to the objects that are spoilt.
LEMMA SpoiltGrows ==
  ASSUME NEW S, NEW O, Leave(S, O)
  PROVE  spoilt \cup O \subseteq spoilt' /\ \A p \in S : temp'[p] # NoValue => ObjOf[p] \in spoilt'
  BY DEF Leave

\* The last entry of a request for a parameter.
LEMMA LastEntry ==
  ASSUME NEW L \in Nat, NEW N \in SUBSET (1..L), N # {}
  PROVE  \E n \in N : \A m \in N : m <= n
<1> DEFINE M == {L - n : n \in N}
<1>1. M \in SUBSET Nat /\ M # {}
  <2>1. \A n \in N : L - n \in Nat
    OBVIOUS
  <2>2. QED
    BY <2>1
<1>2. PICK d \in M : \A e \in M : ~(<<e, d>> \in OpToRel(<, Nat))
  BY <1>1, NatLessThanWellFounded, WFMin
<1>3. \A e \in M : ~(e < d)
  BY <1>1, <1>2 DEF OpToRel
<1>4. PICK n \in N : d = L - n
  BY <1>2
<1>5. ASSUME NEW m \in N PROVE m <= n
  <2>1. L - m \in M
    OBVIOUS
  <2>2. ~(L - m < L - n)
    BY <1>3, <1>4, <2>1
  <2>3. m \in Nat /\ n \in Nat
    OBVIOUS
  <2>4. QED
    BY <2>2, <2>3
<1>6. QED
  BY <1>5

-----------------------------------------------------------------------------
(***************************************************************************)
(* One lemma per action.                                                   *)
(***************************************************************************)
LEMMA InitOInv == Init => OInv
<1> SUFFICES ASSUME Init PROVE OInv
  OBVIOUS
<1>1. IInv
  BY InitIInv
<1>2. WorkInv /\ RecordInv /\ AskedInv
  BY NothingListed DEF Init, WorkInv, RecordInv, AskedInv
<1>3. QED
  BY <1>1, <1>2, NothingListed DEF Init, OInv, CallInv

\* Nothing that OInv speaks of changes.
LEMMA SameOutcome ==
  ASSUME OInv, IInv', UNCHANGED <<temp, alreadySet, varArray, objArray, dbSession, calls, work,
                                  live, asked, failed, spoilt>>
  PROVE  OInv'
<1>1. Top' = Top
  BY DEF Top
<1>2. WorkInv' /\ RecordInv' /\ AskedInv'
  BY <1>1 DEF OInv, WorkInv, RecordInv, AskedInv
<1>3. ListInv' = ListInv /\ ValueInv' = ValueInv
  BY <1>1 DEF ListInv, ValueInv, Upto
<1>4. HandedInv' = HandedInv /\ AppliedInv' = AppliedInv
  BY <1>1 DEF HandedInv, AppliedInv
<1>5. QED
  BY <1>2, <1>3, <1>4 DEF OInv, CallInv

LEMMA OutcomeSessionSignal ==
  ASSUME OInv, NEW s \in Sessions, SessionSignal(s)
  PROVE  OInv'
<1>1. IInv'
  BY SessionSignalStep DEF OInv
<1>2. QED
  BY <1>1, SameOutcome DEF SessionSignal, recVars, arrVars, compVars, outcome

\* A call starts, on what the pending sets have left.
LEMMA CallStarts ==
  ASSUME OInv, IInv', calls = <<>>, NEW f \in Frames, calls' = Append(calls, f),
         UNCHANGED <<temp, alreadySet, varArray, objArray, work, live, asked, failed, spoilt>>
  PROVE  /\ calls' # <<>> /\ Len(calls') = 1 /\ Top' = f
         /\ WorkInv' /\ RecordInv' /\ AskedInv'
<1>1. calls' # <<>> /\ Len(calls') = 1 /\ Top' = f
  <2>1. Len(calls') = 1 /\ calls'[1] = f
    BY PushFacts, NothingListed DEF OInv, IInv
  <2>2. QED
    BY <2>1, NothingListed DEF Top, Last
<1>2. WorkInv' /\ RecordInv' /\ AskedInv'
  BY DEF OInv, WorkInv, RecordInv, AskedInv
<1>3. QED
  BY <1>1, <1>2

LEMMA OutcomeSetParameterValues ==
  ASSUME OneAtATime, OInv, NEW s \in Sessions, NEW w \in Writers, NEW req \in Requests,
         NEW c \in CommitFlags, SetParameterValues(s, w, req, c)
  PROVE  OInv'
<1> DEFINE f == Frame("set", "stage", req, w, s, c)
<1>1. IInv' /\ calls = <<>>
  BY SetParameterValuesStep, Starts DEF OInv, SetParameterValues
<1>2. calls' = Append(calls, f) /\ f \in Frames
  BY ConstantsOK DEF SetParameterValues, Frame, Frames
<1>3. /\ f.op = "set" /\ f.pc = "stage" /\ f.i = 1 /\ f.req = req /\ f.sess = s
      /\ f.nVar = 0 /\ f.nObj = 0
  BY DEF Frame
<1> HIDE DEF f
<1>4. /\ calls' # <<>> /\ Len(calls') = 1 /\ Top' = f
      /\ WorkInv' /\ RecordInv' /\ AskedInv'
  BY <1>1, <1>2, CallStarts DEF SetParameterValues, recVars, arrVars, compVars, outcome
<1>5. Len(req) \in Nat
  BY ConstantsOK, LenProperties
<1>6. ListInv'
  BY <1>3, <1>4, <1>5 DEF ListInv, SetParameterValues
<1>7. Upto' = 0
  BY <1>3, <1>4 DEF Upto
<1>8. ValueInv' /\ HandedInv' /\ AppliedInv'
  BY <1>3, <1>4, <1>7 DEF ValueInv, HandedInv, AppliedInv
<1>9. QED
  BY <1>1, <1>4, <1>6, <1>8 DEF OInv, CallInv

LEMMA OutcomeSetCommit ==
  ASSUME OneAtATime, OInv, NEW s \in Sessions, SetCommit(s)
  PROVE  OInv'
<1> DEFINE f == Frame("commit", "commit", <<>>, NoValue, s, TRUE)
<1>1. IInv' /\ calls = <<>>
  BY SetCommitStep, Starts DEF OInv, SetCommit
<1>2. calls' = Append(calls, f) /\ f \in Frames
  BY ConstantsOK DEF SetCommit, Frame, Frames
<1>3. f.op = "commit" /\ f.pc = "commit" /\ f.i = 1
  BY DEF Frame
<1> HIDE DEF f
<1>4. /\ calls' # <<>> /\ Len(calls') = 1 /\ Top' = f
      /\ WorkInv' /\ RecordInv' /\ AskedInv'
  BY <1>1, <1>2, CallStarts DEF SetCommit, recVars, arrVars, compVars, outcome
<1>5. ListInv' /\ ValueInv' /\ HandedInv' /\ AppliedInv'
  BY <1>3, <1>4 DEF ListInv, ValueInv, HandedInv, AppliedInv
<1>6. QED
  BY <1>1, <1>4, <1>5 DEF OInv, CallInv

\* A rollback reaches every object that a pending set has listed.
LEMMA OutcomeSetRollback ==
  ASSUME OneAtATime, OInv, NEW s \in Sessions, SetRollback(s)
  PROVE  OInv'
<1>1. IInv' /\ calls = <<>> /\ calls' = <<>> /\ varArray' = <<>> /\ objArray' = <<>>
  BY SetRollbackStep, Starts DEF OInv, SetRollback, ResetObjVarArray
<1>2. /\ \A p \in Params :
            IF ObjOf[p] \in ToSet(objArray) THEN work'[p] = live[p] ELSE work'[p] = work[p]
      /\ \A p \in Params : p \notin ToSet(varArray) => asked'[p] = asked[p]
      /\ live' = live /\ failed' = failed /\ spoilt \subseteq spoilt'
  BY SpoiltGrows DEF SetRollback, Overwrite, ParamsIn, Clear
<1>3. WorkInv /\ RecordInv
  BY DEF OInv
<1>4. ASSUME NEW p \in Params
      PROVE  ObjOf[p] \in failed' \cup spoilt' \/ work'[p] = live'[p]
  BY <1>2, <1>3 DEF WorkInv
<1>5. ASSUME NEW p \in Params, work'[p] # live'[p]
      PROVE  work'[p] \in asked'[p] \/ ObjOf[p] \in spoilt'
  BY <1>2, <1>3, <1>5 DEF WorkInv, RecordInv
<1>6. WorkInv'
  BY <1>4, <1>5 DEF WorkInv
<1>7. QED
  BY <1>1, <1>6, ArraysGone

\* EXIT2: what it does not roll back is spoilt.
LEMMA Exit2Cleans ==
  ASSUME OInv, IInv', calls # <<>>, Top.pc \in {"stage", "enlist", "verify"},
         NEW S \in SUBSET Params, NEW t, NEW a, NEW wk \in [Params -> Values],
         \A p \in S : t[p] # NoValue,
         \A p \in Params : wk[p] # work[p] => ObjOf[p] \in ToSet(objArray),
         Exit2(Top, S, t, a, wk), UNCHANGED <<live, failed>>
  PROVE  OInv'
<1> DEFINE cancelled == {varArray[n] : n \in 1..Top.nVar}
           rolled == IF Top.writer = SNMP THEN {} ELSE {objArray[n] : n \in 1..Top.nObj}
           listed == ToSet(objArray) \cup {ObjOf[p] : p \in ToSet(varArray)}
<1>1. /\ temp' = Overwrite(t, cancelled, Nothing)
      /\ work' = Overwrite(wk, ParamsIn(rolled), live)
      /\ Return("error") /\ varArray' = <<>> /\ objArray' = <<>>
      /\ Leave(S \cup (ToSet(varArray) \ cancelled), listed \ rolled)
      /\ asked' = [p \in Params |-> IF p \in cancelled THEN {}
                                    ELSE IF p \in S THEN asked[p] \ {t[p]} ELSE asked[p]]
  BY DEF Exit2, Dropped, ResetObjVarArray
<1>2. cancelled \subseteq ToSet(varArray)
  BY Arrays DEF OInv, CallInv, ListInv
<1>3. calls' = <<>>
  BY <1>1, Ends
<1>4. /\ spoilt \cup (listed \ rolled) \subseteq spoilt'
      /\ \A p \in S : temp'[p] # NoValue => ObjOf[p] \in spoilt'
  BY <1>1, SpoiltGrows
<1>5. /\ ToSet(objArray) \subseteq listed
      /\ \A p \in Params : p \in ToSet(varArray) => ObjOf[p] \in listed
  OBVIOUS
<1> HIDE DEF cancelled, rolled, listed
<1>6. ASSUME NEW p \in Params, ObjOf[p] \notin spoilt', work'[p] # live'[p]
      PROVE  /\ ObjOf[p] \notin ToSet(objArray) /\ p \notin ToSet(varArray)
             /\ work'[p] = work[p] /\ p \notin S
  <2>1. ObjOf[p] \notin rolled /\ work'[p] = wk[p]
    BY <1>1, <1>6 DEF Overwrite, ParamsIn
  <2>2. ObjOf[p] \notin listed
    BY <1>4, <1>6, <2>1
  <2>3. p \notin cancelled
    BY <1>2, <1>5, <2>2
  <2>4. p \notin S
    BY <1>1, <1>4, <1>6, <2>3 DEF Overwrite
  <2>5. QED
    BY <1>5, <2>1, <2>2, <2>4
<1>7. WorkInv'
  <2>1. ASSUME NEW p \in Params
        PROVE  ObjOf[p] \in failed' \cup spoilt' \/ work'[p] = live'[p]
    BY <1>4, <1>6 DEF OInv, WorkInv
  <2>2. ASSUME NEW p \in Params, work'[p] # live'[p], ObjOf[p] \notin spoilt'
        PROVE  work'[p] \in asked'[p]
    <3>1. /\ p \notin ToSet(varArray) /\ work'[p] = work[p] /\ p \notin S
      BY <1>6, <2>2
    <3>2. asked'[p] = asked[p]
      BY <1>1, <1>2, <3>1
    <3>3. work[p] \in asked[p]
      BY <1>4, <2>2, <3>1 DEF OInv, WorkInv
    <3>4. QED
      BY <3>1, <3>2, <3>3
  <2>3. QED
    BY <2>1, <2>2 DEF WorkInv
<1>8. QED
  BY <1>1, <1>3, <1>7, ArraysGone

LEMMA OutcomeStageRefused ==
  ASSUME OInv, StageRefused
  PROVE  OInv'
<1>1. IInv' /\ calls # <<>> /\ Top.pc = "stage"
  BY StageRefusedStep DEF OInv, StageRefused, At
<1>2. work \in [Params -> Values]
  BY DEF OInv, IInv, TypeOK
<1>3. QED
  BY <1>1, <1>2, Exit2Cleans DEF StageRefused

\* The denied value stays staged, and its object is spoilt by it.
LEMMA OutcomeStageDenied ==
  ASSUME OInv, StageDenied
  PROVE  OInv'
<1> DEFINE p == Top.req[Top.i][1]
           v == Top.req[Top.i][2]
           t == [temp EXCEPT ![p] = v]
<1>1. IInv' /\ calls # <<>> /\ Top.pc = "stage" /\ p \in Params /\ v \in Values
  BY StageDeniedStep, AtRequest DEF OInv, StageDenied, At
<1>2. /\ Exit2(Top, {p}, t, alreadySet, work) /\ UNCHANGED <<live, failed>>
      /\ work \in [Params -> Values]
  BY DEF StageDenied, OInv, IInv, TypeOK
<1>3. t[p] # NoValue
  BY <1>1, ConstantsOK DEF OInv, IInv, TypeOK
<1> HIDE DEF p, v, t
<1>4. PICK S \in SUBSET Params : S = {p}
  BY <1>1
<1>5. QED
  BY <1>1, <1>2, <1>3, <1>4, Exit2Cleans

\* So does a value whose notification is refused.
LEMMA OutcomeNotifyRefused ==
  ASSUME OInv, NotifyRefused
  PROVE  OInv'
<1> DEFINE p == Top.req[Top.i][1]
<1>1. /\ IInv' /\ calls # <<>> /\ Top.pc = "enlist" /\ FrameOK(Top) /\ Top.i \in 1..Len(Top.req)
      /\ p \in Params /\ Top.req[Top.i][2] \in Values
  BY NotifyRefusedStep, AtCall, AtRequest DEF OInv, NotifyRefused, FrameOK
<1>2. /\ Exit2(Top, {p}, temp, alreadySet, work) /\ UNCHANGED <<live, failed>>
      /\ work \in [Params -> Values]
  BY DEF NotifyRefused, OInv, IInv, TypeOK
<1>3. temp[p] # NoValue
  <2>1. Upto = Top.i /\ Top.op = "set" /\ ValueInv
    BY <1>1 DEF Upto, OInv, CallInv, ListInv
  <2>2. Top.i \in 1..Upto /\ \A m \in 1..Upto : m <= Top.i
    BY <1>1, <2>1, OneCall
  <2>3. temp[p] = Top.req[Top.i][2]
    BY <2>1, <2>2 DEF ValueInv
  <2>4. QED
    BY <1>1, <2>3, ConstantsOK
<1> HIDE DEF p
<1>4. PICK S \in SUBSET Params : S = {p}
  BY <1>1
<1>5. QED
  BY <1>1, <1>2, <1>3, <1>4, Exit2Cleans

LEMMA OutcomeVerifyRefused ==
  ASSUME OInv, VerifyRefused
  PROVE  OInv'
<1> DEFINE o == objArray[Top.i]
<1>1. IInv' /\ calls # <<>> /\ Top.pc = "verify"
  BY VerifyRefusedStep DEF OInv, VerifyRefused, At
<1>2. PICK S \in SUBSET Updated(o) : \E a : Exit2(Top, {}, temp, a, Overwrite(work, S, temp))
  BY DEF VerifyRefused
<1> DEFINE wk == Overwrite(work, S, temp)
<1>3. o \in ToSet(objArray)
  <2>1. Top.i \in 1..Len(objArray)
    BY <1>1, OneCall, Arrays DEF VerifyRefused, FrameOK, Frames, OInv, CallInv, ListInv
  <2>2. QED
    BY <2>1, Arrays
<1>4. wk \in [Params -> Values]
  BY DEF Updated, ParamsOf, Overwrite, OInv, IInv, TypeOK
<1>5. \A p \in Params : wk[p] # work[p] => ObjOf[p] \in ToSet(objArray)
  BY <1>3 DEF Updated, ParamsOf, Overwrite
<1> HIDE DEF wk
<1>6. QED
  BY <1>1, <1>2, <1>4, <1>5, Exit2Cleans DEF VerifyRefused, wk

\* A value is staged: the object of a VarRecord that keeps its mark is spoilt.
LEMMA ValueStaged ==
  ASSUME OInv, NEW p \in Params, NEW v \in Values, NEW S, NEW O, Leave(S, O),
         calls # <<>>, Top.pc = "stage",
         temp' = [temp EXCEPT ![p] = v], asked' = [asked EXCEPT ![p] = @ \cup {v}],
         p \in alreadySet => ObjOf[p] \in O,
         UNCHANGED <<alreadySet, varArray, objArray, work, live, failed>>
  PROVE  WorkInv' /\ RecordInv' /\ AskedInv'
<1>1. /\ spoilt \cup O \subseteq spoilt'
      /\ temp \in [Params -> Values \cup {NoValue}] /\ asked \in [Params -> SUBSET Values]
      /\ alreadySet \subseteq Params
  BY SpoiltGrows DEF OInv, IInv, TypeOK
<1>2. /\ \A q \in Params : temp'[q] = IF q = p THEN v ELSE temp[q]
      /\ \A q \in Params : asked[q] \subseteq asked'[q]
      /\ v \in asked'[p]
  BY <1>1
<1>3. WorkInv'
  BY <1>1, <1>2 DEF OInv, WorkInv
<1>4. RecordInv'
  BY <1>1, <1>2 DEF OInv, RecordInv
<1>5. AskedInv'
  BY <1>1, <1>2 DEF OInv, AskedInv
<1>6. QED
  BY <1>3, <1>4, <1>5

\* EXIT0: the call is over, and the objects of its request are spoilt.
LEMMA OutcomeStageAbandoned ==
  ASSUME OInv, StageAbandoned
  PROVE  OInv' /\ \A n \in DOMAIN Top.req : ObjOf[Top.req[n][1]] \in spoilt'
<1> DEFINE p == Top.req[Top.i][1]
           v == Top.req[Top.i][2]
           O == {ObjOf[Top.req[n][1]] : n \in DOMAIN Top.req}
<1>1. /\ IInv' /\ calls # <<>> /\ Top.pc = "stage" /\ p \in Params /\ v \in Values
      /\ Top.i \in 1..Len(Top.req) /\ DOMAIN Top.req = 1..Len(Top.req)
  BY StageAbandonedStep, AtRequest, OneCall, LenProperties DEF OInv, StageAbandoned, At
<1>2. /\ Leave({p}, O) /\ ObjOf[p] \in O
      /\ temp' = [temp EXCEPT ![p] = v] /\ asked' = [asked EXCEPT ![p] = @ \cup {v}]
      /\ UNCHANGED <<alreadySet, varArray, objArray, work, live, failed>>
  BY <1>1 DEF StageAbandoned, arrVars, compVars
<1>3. calls' = <<>> /\ Len(calls') = 0
  BY <1>1, Ends DEF StageAbandoned
<1>4. \A n \in DOMAIN Top.req : ObjOf[Top.req[n][1]] \in spoilt'
  BY <1>2, SpoiltGrows
<1> HIDE DEF p, v, O
<1>5. WorkInv' /\ RecordInv' /\ AskedInv'
  BY <1>1, <1>2, ValueStaged
<1>6. QED
  BY <1>1, <1>3, <1>4, <1>5 DEF OInv, CallInv

LEMMA OutcomeStage ==
  ASSUME OInv, Stage
  PROVE  OInv'
<1> DEFINE p == Top.req[Top.i][1]
           v == Top.req[Top.i][2]
           O == IF p \in alreadySet THEN {ObjOf[p]} ELSE {}
<1>1. /\ IInv' /\ calls # <<>> /\ Top.pc = "stage" /\ Top \in Frames
      /\ Top.i \in 1..Len(Top.req) /\ p \in Params /\ v \in Values
      /\ Len(Top.req) \in Nat
  BY StageStep, AtRequest, OneCall DEF OInv, Stage, At
<1>2. PICK b \in BOOLEAN : Replace([Top EXCEPT !.pc = "enlist", !.open = b])
  BY DEF Stage
<1>3. [Top EXCEPT !.pc = "enlist", !.open = b] \in Frames
  BY <1>1 DEF Frames
<1>4. calls' # <<>> /\ Len(calls') = 1 /\ Top' = [Top EXCEPT !.pc = "enlist", !.open = b]
  BY <1>1, <1>2, <1>3, GoesOn
<1>5. /\ Top'.pc = "enlist" /\ Top'.i = Top.i /\ Top'.req = Top.req /\ Top'.op = Top.op
      /\ Top'.sess = Top.sess /\ Top'.nVar = Top.nVar /\ Top'.nObj = Top.nObj
  BY <1>1, <1>4 DEF Frames
<1>6. /\ temp' = [temp EXCEPT ![p] = v] /\ asked' = [asked EXCEPT ![p] = @ \cup {v}]
      /\ Leave({}, O) /\ (p \in alreadySet => ObjOf[p] \in O)
      /\ UNCHANGED <<alreadySet, varArray, objArray, dbSession, work, live, failed>>
  BY DEF Stage, arrVars, compVars
<1>7. ListInv /\ ValueInv
  BY <1>1 DEF OInv, CallInv
<1>8. temp \in [Params -> Values \cup {NoValue}]
  BY DEF OInv, IInv, TypeOK
<1>9. ListInv'
  BY <1>1, <1>5, <1>6, <1>7 DEF ListInv
<1>10. ValueInv'
  <2>1. Upto = Top.i - 1 /\ Upto' = Top.i /\ Top.op = "set"
    BY <1>1, <1>5, <1>7 DEF Upto, ListInv
  <2>2. ASSUME NEW n \in 1..Top.i, \A m \in 1..Top.i : Top.req[m][1] = Top.req[n][1] => m <= n
        PROVE  temp'[Top.req[n][1]] = Top.req[n][2]
    <3>1. CASE n = Top.i
      BY <1>1, <1>6, <1>8, <3>1
    <3>2. CASE n < Top.i
      <4>1. n \in 1..(Top.i - 1) /\ Top.req[n][1] # p
        BY <1>1, <2>2, <3>2
      <4>2. \A m \in 1..(Top.i - 1) : Top.req[m][1] = Top.req[n][1] => m <= n
        BY <1>1, <2>2
      <4>3. temp[Top.req[n][1]] = Top.req[n][2]
        BY <1>7, <2>1, <4>1, <4>2 DEF ValueInv
      <4>4. Top.req[n][1] \in Params
        BY <1>1, <4>1, OneCall
      <4>5. QED
        BY <1>6, <1>8, <4>1, <4>3, <4>4
    <3>3. QED
      BY <1>1, <3>1, <3>2
  <2>3. QED
    BY <1>5, <2>1, <2>2 DEF ValueInv
<1>11. HandedInv' /\ AppliedInv'
  BY <1>5 DEF HandedInv, AppliedInv
<1>12. WorkInv' /\ RecordInv' /\ AskedInv'
  <2> HIDE DEF p, v, O
  <2>1. QED
    BY <1>1, <1>6, ValueStaged
<1>13. QED
  BY <1>1, <1>4, <1>9, <1>10, <1>11, <1>12 DEF OInv, CallInv

\* A VarRecord or an object that finds no room spoils the object.
LEMMA OutcomeEnlist ==
  ASSUME OInv, Enlist
  PROVE  OInv'
<1> DEFINE p == Top.req[Top.i][1]
<1>1. /\ IInv' /\ calls # <<>> /\ Top.pc = "enlist" /\ Top \in Frames /\ FrameOK(Top)
      /\ Len(Top.req) \in Nat /\ Top.i \in 1..Len(Top.req) /\ p \in Params
  BY EnlistStep, AtCall, AtRequest, OneCall DEF OInv, Enlist, FrameOK
<1>2. ListInv /\ ValueInv /\ AskedInv /\ WorkInv /\ RecordInv
  BY <1>1 DEF OInv, CallInv
<1>3. /\ varArray \in Seq(Params) /\ Len(varArray) \in Nat
      /\ objArray \in Seq(Objs) /\ Len(objArray) \in Nat /\ ObjOf[p] \in Objs
  BY <1>1, Arrays, ConstantsOK
<1>4. Len(varArray') \in Nat /\ ToSet(varArray') \subseteq ToSet(varArray) \cup {p}
  BY <1>1, <1>3, AppendElements DEF Enlist, AddVarRecordIntoArray
<1>5. Len(objArray') \in Nat /\ ToSet(objArray) \subseteq ToSet(objArray')
  BY <1>3, AppendElements DEF Enlist, AddObjRecordIntoArray
<1>6. /\ calls' # <<>> /\ Len(calls') = 1
      /\ Top'.pc = "stage" /\ Top'.i = Top.i + 1 /\ Top'.req = Top.req
      /\ Top'.op = Top.op /\ Top'.sess = Top.sess
      /\ Top'.nVar = Len(varArray') /\ Top'.nObj = Len(objArray')
  <2> DEFINE g == [Top EXCEPT !.pc = "stage", !.i = @ + 1, !.open = FALSE,
                              !.nVar = Len(varArray'), !.nObj = Len(objArray')]
  <2>1. Top.i + 1 \in Nat
    BY <1>1
  <2>2. g \in Frames
    BY <1>1, <1>4, <1>5, <2>1 DEF Frames
  <2>3. Replace(g)
    BY DEF Enlist
  <2>4. PICK h : h = g
    OBVIOUS
  <2>5. calls' # <<>> /\ Len(calls') = 1 /\ Top' = h
    <3> HIDE DEF g
    <3>1. QED
      BY <1>1, <2>2, <2>3, <2>4, GoesOn
  <2>6. QED
    BY <1>1, <2>4, <2>5 DEF Frames
<1>7. /\ UNCHANGED <<temp, alreadySet, dbSession, work, live, asked, failed>>
      /\ spoilt \cup ({ObjOf[p]} \ ToSet(objArray')) \subseteq spoilt'
  BY SpoiltGrows DEF Enlist, recVars, compVars
<1>8. ListInv'
  BY <1>1, <1>2, <1>6, <1>7 DEF ListInv
<1>9. ValueInv'
  <2>1. Upto = Top.i /\ Upto' = Top.i
    BY <1>1, <1>6 DEF Upto
  <2>2. QED
    BY <1>2, <1>6, <1>7, <2>1 DEF ValueInv
<1>10. HandedInv' /\ AppliedInv'
  BY <1>6 DEF HandedInv, AppliedInv
<1>11. AskedInv'
  BY <1>1, <1>2, <1>7 DEF AskedInv
<1>12. WorkInv'
  BY <1>2, <1>5, <1>7 DEF WorkInv
<1>13. RecordInv'
  BY <1>2, <1>4, <1>5, <1>7 DEF RecordInv
<1>14. QED
  BY <1>1, <1>6, <1>8, <1>9, <1>10, <1>11, <1>12, <1>13 DEF OInv, CallInv

LEMMA OutcomeStaged ==
  ASSUME OInv, Staged
  PROVE  OInv'
<1>1. /\ IInv' /\ calls # <<>> /\ Top.pc = "stage" /\ Top \in Frames
      /\ Len(Top.req) \in Nat
  BY StagedStep, AtCall, OneCall DEF OInv, Staged
<1>2. ListInv /\ ValueInv /\ AskedInv /\ WorkInv /\ RecordInv
  BY <1>1 DEF OInv, CallInv
<1>3. /\ calls' # <<>> /\ Len(calls') = 1
      /\ Top' = [Top EXCEPT !.pc = "verify", !.i = 1]
  <2>1. [Top EXCEPT !.pc = "verify", !.i = 1] \in Frames
    BY <1>1 DEF Frames
  <2>2. QED
    BY <1>1, <2>1, GoesOn DEF Staged
<1>4. /\ Top'.pc = "verify" /\ Top'.i = 1 /\ Top'.req = Top.req /\ Top'.op = Top.op
      /\ Top'.sess = Top.sess /\ Top'.nVar = Top.nVar /\ Top'.nObj = Top.nObj
  BY <1>1, <1>3 DEF Frames
<1>5. UNCHANGED <<temp, alreadySet, varArray, objArray, dbSession, work, live, asked, failed,
                  spoilt>>
  BY DEF Staged, recVars, arrVars, compVars, outcome
<1>6. Top.i - 1 = Len(Top.req) /\ Len(Top.req) # 0
  <2>1. Top.req \in Requests
    BY <1>1, <1>2 DEF ListInv
  <2>2. Len(Top.req) # 0
    BY <2>1, ConstantsOK, EmptySeq
  <2>3. QED
    BY <1>1, <1>2, <2>2 DEF ListInv, Staged, Frames
<1>7. ListInv'
  BY <1>1, <1>2, <1>4, <1>5, <1>6 DEF ListInv
<1>8. ValueInv'
  <2>1. Upto = Len(Top.req) /\ Upto' = Len(Top.req)
    BY <1>1, <1>4, <1>6 DEF Upto
  <2>2. QED
    BY <1>2, <1>4, <1>5, <2>1 DEF ValueInv
<1>9. HandedInv' /\ AppliedInv'
  BY <1>4 DEF HandedInv, AppliedInv
<1>10. WorkInv' /\ RecordInv' /\ AskedInv'
  BY <1>1, <1>2, <1>5 DEF WorkInv, RecordInv, AskedInv
<1>11. QED
  BY <1>1, <1>3, <1>7, <1>8, <1>9, <1>10 DEF OInv, CallInv

LEMMA OutcomeVerifyChanges ==
  ASSUME OInv, VerifyChanges
  PROVE  OInv'
<1> DEFINE o == objArray[Top.i]
<1>1. IInv' /\ calls # <<>> /\ Top.pc = "verify" /\ Top \in Frames /\ FrameOK(Top)
  BY VerifyChangesStep, AtCall DEF OInv, VerifyChanges
<1>2. ListInv /\ ValueInv /\ HandedInv /\ AskedInv /\ WorkInv /\ RecordInv
  BY <1>1 DEF OInv, CallInv
<1>3. Top.i \in 1..Len(objArray) /\ o \in ToSet(objArray) /\ Top.i + 1 \in Nat
  BY <1>1, <1>2, Arrays DEF VerifyChanges, FrameOK, Frames, ListInv
<1>4. calls' # <<>> /\ Len(calls') = 1 /\ Top' = [Top EXCEPT !.i = @ + 1]
  <2>1. [Top EXCEPT !.i = @ + 1] \in Frames
    BY <1>1, <1>3 DEF Frames
  <2>2. QED
    BY <1>1, <2>1, GoesOn DEF VerifyChanges
<1>5. /\ Top'.pc = "verify" /\ Top'.i = Top.i + 1 /\ Top'.req = Top.req /\ Top'.op = Top.op
      /\ Top'.sess = Top.sess /\ Top'.nVar = Top.nVar /\ Top'.nObj = Top.nObj
  BY <1>1, <1>4 DEF Frames
<1>6. /\ work' = Overwrite(work, Updated(o), temp)
      /\ alreadySet' = IF o \in BulkObjs THEN alreadySet ELSE alreadySet \cup Updated(o)
      /\ UNCHANGED <<temp, varArray, objArray, dbSession, live, asked, failed, spoilt>>
  BY DEF VerifyChanges, arrVars, outcome
<1>7. \A p \in Params :
        work'[p] = IF p \in ParamsOf(o) /\ temp[p] # NoValue /\ p \notin alreadySet
                   THEN temp[p] ELSE work[p]
  BY <1>6 DEF Overwrite, Updated
<1>8. ListInv' /\ AskedInv'
  BY <1>1, <1>2, <1>5, <1>6 DEF ListInv, AskedInv
<1>9. ValueInv'
  <2>1. Upto' = Upto
    BY <1>1, <1>5 DEF Upto
  <2>2. QED
    BY <1>2, <1>5, <1>6, <2>1 DEF ValueInv
<1>10. HandedInv'
  <2>1. ASSUME NEW k \in 1..Len(objArray), k < Top.i + 1, NEW p \in ParamsOf(objArray[k]),
               temp[p] # NoValue, ObjOf[p] \notin spoilt
        PROVE  work'[p] = temp[p]
    <3>1. p \in Params /\ ObjOf[p] = objArray[k]
      BY DEF ParamsOf
    <3>2. CASE k < Top.i
      <4>1. work[p] = temp[p]
        BY <1>1, <1>2, <2>1, <3>2 DEF HandedInv
      <4>2. QED
        BY <1>7, <3>1, <4>1
    <3>3. CASE k = Top.i
      <4>1. CASE p \in alreadySet
        BY <1>2, <1>7, <2>1, <3>1, <4>1 DEF RecordInv
      <4>2. CASE p \notin alreadySet
        BY <1>7, <2>1, <3>1, <3>3, <4>2
      <4>3. QED
        BY <4>1, <4>2
    <3>4. QED
      BY <1>3, <2>1, <3>2, <3>3
  <2>2. QED
    BY <1>5, <1>6, <2>1 DEF HandedInv
<1>11. AppliedInv'
  BY <1>5 DEF AppliedInv
<1>12. WorkInv'
  <2>1. ASSUME NEW p \in Params
        PROVE  ObjOf[p] \in failed \cup spoilt \cup ToSet(objArray) \/ work'[p] = live[p]
    BY <1>2, <1>3, <1>7 DEF WorkInv, ParamsOf
  <2>2. ASSUME NEW p \in Params, work'[p] # live[p]
        PROVE  work'[p] \in asked[p] \/ ObjOf[p] \in spoilt
    BY <1>1, <1>2, <1>7, <2>2 DEF WorkInv, AskedInv
  <2>3. QED
    BY <1>6, <2>1, <2>2 DEF WorkInv
<1>13. RecordInv'
  <2>1. ASSUME NEW p \in alreadySet', ObjOf[p] \notin spoilt
        PROVE  work'[p] = temp[p]
    <3>1. p \in Params
      BY <1>1 DEF IInv, TypeOK
    <3>2. CASE p \in alreadySet
      BY <1>2, <1>7, <2>1, <3>1, <3>2 DEF RecordInv
    <3>3. CASE p \in Updated(o)
      BY <1>6, <3>1, <3>3 DEF Overwrite
    <3>4. QED
      BY <1>6, <2>1, <3>2, <3>3
  <2>2. QED
    BY <1>2, <1>6, <2>1 DEF RecordInv
<1>14. QED
  BY <1>1, <1>4, <1>8, <1>9, <1>10, <1>11, <1>12, <1>13 DEF OInv, CallInv

LEMMA OutcomeLeavePending ==
  ASSUME OInv, LeavePending
  PROVE  OInv'
<1>1. IInv' /\ calls # <<>> /\ Top.pc = "verify"
  BY LeavePendingStep DEF OInv, LeavePending, At
<1>2. calls' = <<>> /\ Len(calls') = 0
  BY <1>1, Ends DEF LeavePending
<1>3. UNCHANGED <<temp, alreadySet, varArray, objArray, work, live, asked, failed, spoilt>>
  BY DEF LeavePending, recVars, arrVars, compVars
<1>4. WorkInv' /\ RecordInv' /\ AskedInv'
  BY <1>1, <1>3 DEF OInv, WorkInv, RecordInv, AskedInv
<1>5. QED
  BY <1>1, <1>2, <1>4 DEF OInv, CallInv

\* The second round is over: the component has every staged value.  The
\* database is still that of the call's session.
LEMMA OutcomeBeginCommit ==
  ASSUME OInv, BeginCommit
  PROVE  OInv' /\ calls' # <<>>
<1>1. /\ IInv' /\ calls # <<>> /\ Top.pc = "verify" /\ Top \in Frames
      /\ Len(Top.req) \in Nat
  BY BeginCommitStep, AtCall, OneCall DEF OInv, BeginCommit
<1>2. ListInv /\ ValueInv /\ HandedInv /\ WorkInv /\ RecordInv
  BY <1>1 DEF OInv, CallInv
<1>3. dbSession = Top.sess /\ Top.op = "set"
  BY <1>1, <1>2 DEF ListInv
<1>4. calls' # <<>> /\ Len(calls') = 1 /\ Top' = [Top EXCEPT !.pc = "commit", !.i = 1]
  <2>1. [Top EXCEPT !.pc = "commit", !.i = 1] \in Frames
    BY <1>1 DEF Frames
  <2>2. QED
    BY <1>1, <1>3, <2>1, GoesOn DEF BeginCommit
<1>5. /\ Top'.pc = "commit" /\ Top'.i = 1 /\ Top'.req = Top.req
      /\ Top'.op = Top.op /\ Top'.sess = Top.sess
  BY <1>1, <1>4 DEF Frames
<1>6. UNCHANGED <<temp, alreadySet, varArray, objArray, dbSession, work, live, asked, failed,
                  spoilt>>
  BY <1>3 DEF BeginCommit, recVars, arrVars, compVars, outcome
<1>7. ListInv' /\ AskedInv'
  BY <1>2, <1>4, <1>5, <1>6 DEF ListInv, AskedInv
<1>8. ValueInv'
  <2>1. Upto' = Upto
    BY <1>1, <1>5 DEF Upto
  <2>2. QED
    BY <1>2, <1>5, <1>6, <2>1 DEF ValueInv
<1>9. HandedInv'
  <2>1. ASSUME NEW p \in Params, temp[p] # NoValue, ObjOf[p] \notin spoilt
        PROVE  work[p] = temp[p]
    <3>1. p \in ToSet(varArray)
      BY <1>1, <2>1, Listed
    <3>2. PICK k \in 1..Len(objArray) : objArray[k] = ObjOf[p]
      BY <1>2, <2>1, <3>1, Arrays DEF RecordInv
    <3>3. k < Top.i
      BY <1>1, <1>2, Arrays DEF BeginCommit, ListInv, Frames
    <3>4. QED
      BY <1>1, <1>2, <2>1, <3>2, <3>3 DEF HandedInv, ParamsOf
  <2>2. QED
    BY <1>5, <1>6, <2>1 DEF HandedInv
<1>10. AppliedInv' /\ WorkInv' /\ RecordInv'
  BY <1>2, <1>5, <1>6 DEF AppliedInv, WorkInv, RecordInv
<1>11. QED
  BY <1>1, <1>4, <1>7, <1>8, <1>9, <1>10 DEF OInv, CallInv

\* While the objects are committed, the records, the arrays and the working
\* copy stay.
LEMMA InCommit ==
  ASSUME OInv, IInv', calls # <<>>, Top.pc \in {"commit", "callback", "applied"},
         NEW g \in Frames, Replace(g), g.pc \in {"commit", "callback", "applied"},
         g.req = Top.req, g.op = Top.op, g.sess = Top.sess,
         UNCHANGED <<temp, alreadySet, varArray, objArray, dbSession, work, spoilt>>
  PROVE  calls' # <<>> /\ Top' = g /\ (AppliedInv' /\ WorkInv' => OInv')
<1>1. calls' # <<>> /\ Len(calls') = 1 /\ Top' = g
  BY GoesOn
<1>2. ListInv /\ ValueInv /\ HandedInv /\ RecordInv
  BY DEF OInv, CallInv
<1>3. ListInv' /\ HandedInv' /\ RecordInv' /\ AskedInv'
  BY <1>1, <1>2 DEF ListInv, HandedInv, RecordInv, AskedInv
<1>4. ValueInv'
  <2>1. Upto' = Upto
    BY <1>1 DEF Upto
  <2>2. QED
    BY <1>1, <1>2, <2>1 DEF ValueInv
<1>5. QED
  BY <1>1, <1>3, <1>4 DEF OInv, CallInv

\* With one call in progress no Commit callback is on the stack yet.
LEMMA OutcomeCommitChanges ==
  ASSUME OInv, CommitChanges
  PROVE  OInv' /\ calls' # <<>>
<1> DEFINE o == objArray[Top.i]
           g == [Top EXCEPT !.pc = "callback", !.obj = o]
<1>1. /\ IInv' /\ calls # <<>> /\ Top.pc = "commit" /\ Top \in Frames /\ FrameOK(Top)
      /\ Len(calls) = 1 /\ Top = calls[1]
  BY CommitChangesStep, AtCall, OneCall DEF OInv, CommitChanges
<1>2. Top.i \in 1..Len(objArray) /\ o \in Objs
  BY <1>1, Arrays DEF CommitChanges, FrameOK, Frames
<1>3. o \notin committing
  <2>1. Top.obj # o
    BY <1>1, <1>2, ConstantsOK DEF FrameOK
  <2>2. QED
    BY <1>1, <1>2, <2>1 DEF OInv, IInv, CommitInv
<1>4. Replace(g) /\ g \in Frames
  BY <1>1, <1>2, <1>3 DEF CommitChanges, Frames
<1>5. /\ g.pc = "callback" /\ g.i = Top.i /\ g.obj = o /\ g.req = Top.req
      /\ g.op = Top.op /\ g.sess = Top.sess
  BY <1>1 DEF Frames
<1>6. UNCHANGED <<temp, alreadySet, varArray, objArray, dbSession, work, live, asked, failed,
                  spoilt>>
  BY DEF CommitChanges, recVars, arrVars, compVars, outcome
<1> HIDE DEF g
<1>7. calls' # <<>> /\ Top' = g /\ (AppliedInv' /\ WorkInv' => OInv')
  BY <1>1, <1>4, <1>5, <1>6, InCommit
<1>8. AppliedInv /\ WorkInv
  BY <1>1 DEF OInv, CallInv
<1>9. AppliedInv'
  BY <1>1, <1>2, <1>5, <1>6, <1>7, <1>8 DEF AppliedInv
<1>10. QED
  BY <1>6, <1>7, <1>8, <1>9 DEF WorkInv

LEMMA OutcomeCommitApplied ==
  ASSUME OInv, CommitApplied
  PROVE  OInv'
<1> DEFINE g == [Top EXCEPT !.pc = "applied"]
<1>1. IInv' /\ calls # <<>> /\ Top.pc = "callback" /\ Top \in Frames /\ FrameOK(Top)
  BY CommitAppliedStep, AtCall DEF OInv, CommitApplied
<1>2. Replace(g) /\ g \in Frames
  BY <1>1 DEF CommitApplied, Frames
<1>3. /\ g.pc = "applied" /\ g.i = Top.i /\ g.obj = Top.obj /\ g.req = Top.req
      /\ g.op = Top.op /\ g.sess = Top.sess
  BY <1>1 DEF Frames
<1>4. UNCHANGED <<temp, alreadySet, varArray, objArray, dbSession, work, spoilt>>
  BY DEF CommitApplied, recVars, arrVars, outcome
<1> HIDE DEF g
<1>5. Top' = g /\ (AppliedInv' /\ WorkInv' => OInv')
  BY <1>1, <1>2, <1>3, <1>4, InCommit
<1>6. AppliedInv /\ WorkInv
  BY <1>1 DEF OInv, CallInv
<1>7. /\ Top.i \in 1..Len(objArray) /\ Top.obj = objArray[Top.i]
      /\ Top.obj \in ToSet(objArray)
  BY <1>1, <1>6, Arrays DEF AppliedInv, FrameOK, Frames
<1>8. /\ \A p \in Params :
            IF ObjOf[p] = Top.obj THEN live'[p] = work[p] /\ asked'[p] = asked[p] \ {work[p]}
                                  ELSE live'[p] = live[p] /\ asked'[p] = asked[p]
      /\ failed' = failed \ {Top.obj}
  BY DEF CommitApplied, Overwrite, ParamsOf
<1>9. AppliedInv'
  <2>1. ASSUME NEW k \in 1..Len(objArray), k <= Top.i, objArray[k] \notin failed',
               NEW p \in ParamsOf(objArray[k])
        PROVE  live'[p] = work[p]
    <3>1. p \in Params /\ ObjOf[p] = objArray[k]
      BY DEF ParamsOf
    <3>2. CASE k = Top.i
      BY <1>7, <1>8, <3>1, <3>2
    <3>3. CASE k < Top.i
      <4>1. objArray[k] # Top.obj
        BY <1>7, <3>3, Arrays
      <4>2. objArray[k] \notin failed
        BY <1>8, <2>1, <4>1
      <4>3. live[p] = work[p]
        BY <1>1, <1>6, <3>3, <4>2 DEF AppliedInv
      <4>4. QED
        BY <1>8, <3>1, <4>1, <4>3
    <3>4. QED
      BY <1>7, <2>1, <3>2, <3>3
  <2>2. QED
    BY <1>3, <1>4, <1>5, <1>7, <2>1 DEF AppliedInv
<1>10. WorkInv'
  <2>1. ASSUME NEW p \in Params
        PROVE  ObjOf[p] \in failed' \cup spoilt \cup ToSet(objArray) \/ work[p] = live'[p]
    BY <1>6, <1>7, <1>8 DEF WorkInv
  <2>2. ASSUME NEW p \in Params, work[p] # live'[p]
        PROVE  work[p] \in asked'[p] \/ ObjOf[p] \in spoilt
    BY <1>6, <1>8, <2>2 DEF WorkInv
  <2>3. QED
    BY <1>4, <2>1, <2>2 DEF WorkInv
<1>11. QED
  BY <1>5, <1>9, <1>10

LEMMA OutcomeCommitFailed ==
  ASSUME OInv, CommitFailed
  PROVE  OInv'
<1> DEFINE g == [Top EXCEPT !.pc = "applied"]
<1>1. IInv' /\ calls # <<>> /\ Top.pc = "callback" /\ Top \in Frames
  BY CommitFailedStep, AtCall DEF OInv, CommitFailed
<1>2. Replace(g) /\ g \in Frames
  BY <1>1 DEF CommitFailed, Frames
<1>3. /\ g.pc = "applied" /\ g.i = Top.i /\ g.obj = Top.obj /\ g.req = Top.req
      /\ g.op = Top.op /\ g.sess = Top.sess
  BY <1>1 DEF Frames
<1>4. UNCHANGED <<temp, alreadySet, varArray, objArray, dbSession, work, live, asked, spoilt>>
  BY DEF CommitFailed, recVars, arrVars, compVars, outcome
<1>5. failed' = failed \cup {Top.obj}
  BY DEF CommitFailed
<1> HIDE DEF g
<1>6. Top' = g /\ (AppliedInv' /\ WorkInv' => OInv')
  BY <1>1, <1>2, <1>3, <1>4, InCommit
<1>7. AppliedInv /\ WorkInv
  BY <1>1 DEF OInv, CallInv
<1>8. AppliedInv'
  BY <1>1, <1>3, <1>4, <1>5, <1>6, <1>7 DEF AppliedInv
<1>9. QED
  BY <1>4, <1>5, <1>6, <1>7, <1>8 DEF WorkInv

LEMMA OutcomeCommitReturns ==
  ASSUME OInv, CommitReturns
  PROVE  OInv'
<1> DEFINE g == [Top EXCEPT !.pc = "commit", !.i = @ + 1, !.obj = NoValue]
<1>1. IInv' /\ calls # <<>> /\ Top.pc = "applied" /\ Top \in Frames
  BY CommitReturnsStep, AtCall DEF OInv, CommitReturns
<1>2. Top.i \in Nat /\ Top.i + 1 \in Nat
  BY <1>1 DEF Frames
<1>3. Replace(g) /\ g \in Frames
  BY <1>1, <1>2 DEF CommitReturns, Frames
<1>4. /\ g.pc = "commit" /\ g.i = Top.i + 1 /\ g.req = Top.req
      /\ g.op = Top.op /\ g.sess = Top.sess
  BY <1>1 DEF Frames
<1>5. UNCHANGED <<temp, alreadySet, varArray, objArray, dbSession, work, live, asked, failed,
                  spoilt>>
  BY DEF CommitReturns, recVars, arrVars, compVars, outcome
<1> HIDE DEF g
<1>6. Top' = g /\ (AppliedInv' /\ WorkInv' => OInv')
  BY <1>1, <1>3, <1>4, <1>5, InCommit
<1>7. AppliedInv /\ WorkInv
  BY <1>1 DEF OInv, CallInv
<1>8. AppliedInv'
  BY <1>1, <1>2, <1>4, <1>5, <1>6, <1>7 DEF AppliedInv
<1>9. QED
  BY <1>5, <1>6, <1>7, <1>8 DEF WorkInv

\* What the loop over the objects has achieved when it is over.
LEMMA AllCommitted ==
  ASSUME OInv, FinishCommit
  PROVE  /\ calls # <<>> /\ Top.pc = "commit" /\ ValueInv /\ HandedInv
         /\ \A p \in Params :
               ObjOf[p] \in ToSet(objArray) => ObjOf[p] \in failed \/ live[p] = work[p]
<1>1. calls # <<>> /\ Top.pc = "commit" /\ Top \in Frames
  BY AtCall DEF OInv, FinishCommit
<1>2. ValueInv /\ HandedInv /\ AppliedInv
  BY <1>1 DEF OInv, CallInv
<1>3. ASSUME NEW p \in Params, ObjOf[p] \in ToSet(objArray)
      PROVE  ObjOf[p] \in failed \/ live[p] = work[p]
  <2>1. PICK k \in 1..Len(objArray) : objArray[k] = ObjOf[p]
    BY <1>3, Arrays
  <2>2. k < Top.i
    BY <1>1, Arrays DEF FinishCommit, Frames
  <2>3. QED
    BY <1>1, <1>2, <2>1, <2>2 DEF AppliedInv, ParamsOf
<1>4. QED
  BY <1>1, <1>2, <1>3

LEMMA OutcomeFinishCommit ==
  ASSUME OInv, FinishCommit
  PROVE  OInv'
<1>1. /\ calls # <<>> /\ Top.pc = "commit"
      /\ \A p \in Params :
            ObjOf[p] \in ToSet(objArray) => ObjOf[p] \in failed \/ live[p] = work[p]
  BY AllCommitted
<1>2. IInv' /\ calls' = <<>> /\ varArray' = <<>> /\ objArray' = <<>>
  BY <1>1, FinishCommitStep, Ends DEF OInv, FinishCommit, ResetObjVarArray
<1>3. WorkInv /\ UNCHANGED <<work, live, failed>> /\ spoilt \subseteq spoilt'
  BY SpoiltGrows DEF OInv, FinishCommit, compVars
<1>4. WorkInv'
  <2>1. ASSUME NEW p \in Params PROVE ObjOf[p] \in failed \cup spoilt \/ work[p] = live[p]
    BY <1>1, <1>3 DEF WorkInv
  <2>2. ASSUME NEW p \in Params, work[p] # live[p]
        PROVE  work[p] \in asked'[p] \/ ObjOf[p] \in spoilt
    <3>1. ObjOf[p] \notin ToSet(objArray) \ (failed \cup committing)
      BY <1>1, <2>2
    <3>2. asked'[p] = asked[p]
      BY <3>1 DEF FinishCommit, Clear, ParamsIn
    <3>3. QED
      BY <1>3, <2>2, <3>2 DEF WorkInv
  <2>3. QED
    BY <1>3, <2>1, <2>2 DEF WorkInv
<1>5. QED
  BY <1>2, <1>4, ArraysGone

LEMMA OutcomeNext ==
  ASSUME OneAtATime, OInv, [Next]_vars
  PROVE  OInv'
<1>1. CASE UNCHANGED vars
  <2>1. IInv'
    BY <1>1 DEF vars, recVars, arrVars, compVars, outcome, OInv, IInv, TypeOK, StackInv,
        ArrayInv, MarkInv, CommitInv, LeftInv, Enlisting
  <2>2. QED
    BY <1>1, <2>1, SameOutcome DEF vars, recVars, arrVars, compVars, outcome
<1>2. CASE Call
  BY <1>2, OutcomeSessionSignal, OutcomeSetParameterValues, OutcomeSetCommit,
      OutcomeSetRollback DEF Call
<1>3. CASE StageRefused \/ StageDenied \/ StageAbandoned \/ Stage
  BY <1>3, OutcomeStageRefused, OutcomeStageDenied, OutcomeStageAbandoned, OutcomeStage
<1>4. CASE NotifyRefused \/ Enlist \/ Staged
  BY <1>4, OutcomeNotifyRefused, OutcomeEnlist, OutcomeStaged
<1>5. CASE VerifyChanges \/ VerifyRefused \/ LeavePending \/ BeginCommit
  BY <1>5, OutcomeVerifyChanges, OutcomeVerifyRefused, OutcomeLeavePending,
      OutcomeBeginCommit
<1>6. CASE CommitChanges \/ CommitApplied \/ CommitFailed \/ CommitReturns \/ FinishCommit
  BY <1>6, OutcomeCommitChanges, OutcomeCommitApplied, OutcomeCommitFailed,
      OutcomeCommitReturns, OutcomeFinishCommit
<1>7. QED
  BY <1>1, <1>2, <1>3, <1>4, <1>5, <1>6 DEF Next

LEMMA OutcomeInductive ==
  ASSUME OneAtATime
  PROVE  Spec => []OInv
<1>1. OInv /\ [Next]_vars => OInv'
  BY OutcomeNext
<1>2. QED
  BY <1>1, InitOInv, PTL DEF Spec

-----------------------------------------------------------------------------
(***************************************************************************)
(* The theorems.                                                           *)
(***************************************************************************)
\* One call at a time, at rest the component's working copy is what it has
\* applied, however many values it had taken when one was refused and whatever
\* was pending, except for the objects whose Commit has failed or that an exit
\* named at WorkClean has spoilt.
THEOREM NothingHalfSet ==
  ASSUME OneAtATime
  PROVE  Spec => []WorkClean
<1>1. ASSUME OInv, RecordsClean PROVE WorkClean
  <2> SUFFICES ASSUME calls = <<>>, varArray = <<>>, NEW p \in Params
               PROVE  ObjOf[p] \in failed \cup spoilt \/ work[p] = live[p]
    BY <1>1 DEF WorkClean
  <2>1. ToSet(objArray) = {}
    <3>1. Len(varArray) < MaxVars
      BY NothingListed, ConstantsOK
    <3>2. ToSet(objArray) \subseteq {ObjOf[q] : q \in ToSet(varArray)}
      BY <1>1, <3>1 DEF OInv, IInv, ArrayInv
    <3>3. QED
      BY <3>2, NothingListed
  <2>2. QED
    BY <1>1, <2>1 DEF OInv, WorkInv
<1>2. QED
  BY <1>1, OutcomeInductive, RecordsLeftClean, PTL

\* The last value a request gives a parameter is staged when all are.
LEMMA GivenStaged ==
  ASSUME OInv, calls # <<>>, Top.pc = "commit", Top.op = "set",
         NEW n \in 1..Len(Top.req)
  PROVE  /\ Top.req[n][1] \in Params
         /\ temp[Top.req[n][1]] = Given(Top.req, Top.req[n][1])
         /\ temp[Top.req[n][1]] \in Values
<1> DEFINE req == Top.req
           p == req[n][1]
           N == {m \in 1..Len(req) : req[m][1] = p}
<1>1. /\ Len(req) \in Nat /\ DOMAIN req = 1..Len(req) /\ ValueInv /\ p \in Params
      /\ \A m \in 1..Len(req) : req[m][2] \in Values
  BY OneCall, LenProperties DEF OInv, CallInv
<1>2. \E k \in N : \A m \in N : m <= k
  <2>1. N \in SUBSET (1..Len(req)) /\ N # {}
    OBVIOUS
  <2> HIDE DEF N
  <2>2. QED
    BY <1>1, <2>1, LastEntry
<1> DEFINE last == CHOOSE k \in DOMAIN req :
                     req[k][1] = p /\ \A m \in DOMAIN req : req[m][1] = p => m <= k
<1>3. /\ last \in DOMAIN req /\ req[last][1] = p
      /\ \A m \in DOMAIN req : req[m][1] = p => m <= last
  <2>1. \E k \in DOMAIN req : req[k][1] = p /\ \A m \in DOMAIN req : req[m][1] = p => m <= k
    BY <1>1, <1>2
  <2>2. QED
    BY <2>1
<1>4. Given(req, p) = req[last][2]
  BY DEF Given
<1> HIDE DEF last
<1>5. Upto = Len(req)
  BY DEF Upto
<1>6. temp[req[last][1]] = req[last][2]
  BY <1>1, <1>3, <1>5 DEF ValueInv
<1>7. QED
  BY <1>1, <1>3, <1>4, <1>6

\* One call at a time, a set with bCommit returns success when its objects are
\* done, or by EXIT0.
LEMMA ReturnsWhenDone ==
  ASSUME OneAtATime, OInv, Next, OInv', calls # <<>>, Len(calls') < Len(calls),
         Top.op = "set", Top.commit, status' = "success"
  PROVE  FinishCommit \/ StageAbandoned
<1>1. Len(calls) = 1 /\ Top \in Frames
  BY OneCall
<1>2. calls' = <<>>
  <2>1. calls' \in Seq(Frames) /\ Len(calls') \in Nat
    BY LenProperties DEF OInv, IInv, TypeOK
  <2>2. QED
    BY <1>1, <2>1, EmptySeq
<1>3. ~Call
  <2>1. SUFFICES ASSUME Call PROVE FALSE
    OBVIOUS
  <2>2. PICK s \in Sessions : SessionSignal(s)
    BY <2>1, Starts DEF Call, SetParameterValues, SetCommit, SetRollback
  <2>3. QED
    BY <1>2, <2>2 DEF SessionSignal
<1>4. ~(StageRefused \/ StageDenied \/ NotifyRefused \/ VerifyRefused)
  BY DEF StageRefused, StageDenied, NotifyRefused, VerifyRefused, Exit2, Dropped, Return
<1>5. ~LeavePending /\ ~BeginCommit
  BY <1>2, OutcomeBeginCommit DEF LeavePending
<1>6. ASSUME NEW g, Replace(g) PROVE FALSE
  <2>1. Len(calls') = Len(Front(calls)) + 1 /\ Len(Front(calls)) \in Nat
    BY <1>6, TopFacts, AppendProperties, LenProperties DEF Replace, OInv, IInv
  <2>2. QED
    BY <1>2, <2>1, NothingListed
<1>7. ~(Stage \/ Enlist \/ Staged \/ VerifyChanges)
  BY <1>6 DEF Stage, Enlist, Staged, VerifyChanges
<1>8. ~(CommitChanges \/ CommitApplied \/ CommitFailed \/ CommitReturns)
  BY <1>6 DEF CommitChanges, CommitApplied, CommitFailed, CommitReturns
<1>9. QED
  BY <1>3, <1>4, <1>5, <1>7, <1>8 DEF Next

\* One call at a time, a set with bCommit that returns success has applied the
\* last value of every parameter of its request, except for objects whose
\* Commit has failed or that an exit named at WorkClean and AppliedOnSuccess
\* has spoilt: no value is lost otherwise between the staging, the
\* verification and the loop over the objects.
THEOREM SuccessMeansApplied ==
  ASSUME OneAtATime
  PROVE  Spec => AppliedOnSuccess
<1> DEFINE A == calls # <<>> /\ Len(calls') < Len(calls)
                  /\ Top.op = "set" /\ Top.commit /\ status' = "success" =>
                  \A n \in DOMAIN Top.req :
                     LET p == Top.req[n][1]
                     IN ObjOf[p] \in failed \cup spoilt' \/ live'[p] = Given(Top.req, p)
<1>1. ASSUME OInv, [Next]_vars PROVE [A]_vars
  <2> SUFFICES ASSUME Next, calls # <<>>, Len(calls') < Len(calls), Top.op = "set", Top.commit,
                      status' = "success", NEW n \in DOMAIN Top.req
               PROVE  \/ ObjOf[Top.req[n][1]] \in failed \cup spoilt'
                      \/ live'[Top.req[n][1]] = Given(Top.req, Top.req[n][1])
    BY <1>1
  <2> DEFINE p == Top.req[n][1]
  <2>1. CASE StageAbandoned
    BY <1>1, <2>1, OutcomeStageAbandoned
  <2>2. CASE FinishCommit
    <3>1. /\ Top.pc = "commit" /\ HandedInv
          /\ \A q \in Params :
                ObjOf[q] \in ToSet(objArray) => ObjOf[q] \in failed \/ live[q] = work[q]
      BY <1>1, <2>2, AllCommitted
    <3>2. n \in 1..Len(Top.req)
      BY <1>1, OneCall, LenProperties
    <3>3. p \in Params /\ temp[p] = Given(Top.req, p) /\ temp[p] # NoValue
      BY <1>1, <3>1, <3>2, GivenStaged, ConstantsOK
    <3>4. live' = live /\ spoilt \subseteq spoilt'
      BY <2>2, SpoiltGrows DEF FinishCommit, compVars
    <3>5. SUFFICES ASSUME ObjOf[p] \notin spoilt
                   PROVE  ObjOf[p] \in failed \/ live[p] = Given(Top.req, p)
      BY <3>4
    <3>6. p \in ToSet(varArray) /\ work[p] = temp[p]
      BY <1>1, <3>1, <3>3, <3>5, Listed DEF HandedInv
    <3>7. ObjOf[p] \in ToSet(objArray)
      BY <1>1, <3>5, <3>6 DEF OInv, RecordInv
    <3>8. QED
      BY <3>1, <3>3, <3>6, <3>7
  <2>3. QED
    BY <1>1, <2>1, <2>2, OutcomeNext, ReturnsWhenDone
<1>2. QED
  BY <1>1, OutcomeInductive, PTL DEF Spec, AppliedOnSuccess

\* One call at a time, every value that takes effect is one that a set was
\* given and that was not cancelled since, unless the object is spoilt: what a
\* refused set has taken back is never applied by the commit of the next.
THEOREM OnlyAskedApplied ==
  ASSUME OneAtATime
  PROVE  Spec => UnaskedOnlyIfSpoilt
<1> DEFINE A == \A p \in Params :
                  live'[p] # live[p] => live'[p] \in asked[p] \/ ObjOf[p] \in spoilt
<1>1. ASSUME OInv, [Next]_vars PROVE [A]_vars
  <2> SUFFICES ASSUME Next PROVE A
    BY <1>1
  <2>1. CASE CommitApplied
    <3>1. ASSUME NEW p \in Params, live'[p] # live[p]
          PROVE  live'[p] = work[p]
      BY <2>1, <3>1 DEF CommitApplied, Overwrite
    <3>2. QED
      BY <1>1, <3>1 DEF OInv, WorkInv
  <2>2. CASE ~CommitApplied
    <3>1. live' = live
      BY <2>2 DEF Next, Call, SessionSignal, SetParameterValues, SetCommit, SetRollback,
          StageRefused, StageDenied, StageAbandoned, Stage, NotifyRefused, Enlist, Staged,
          VerifyChanges, VerifyRefused, LeavePending, BeginCommit, CommitChanges,
          CommitFailed, CommitReturns, FinishCommit, compVars
    <3>2. QED
      BY <3>1
  <2>3. QED
    BY <2>1, <2>2
<1>2. QED
  BY <1>1, OutcomeInductive, PTL DEF Spec, UnaskedOnlyIfSpoilt
=============================================================================
