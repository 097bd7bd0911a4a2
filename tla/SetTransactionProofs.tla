------------------------- MODULE SetTransactionProofs -------------------------
(***************************************************************************)
(* Proofs about SetTransaction, for any data model, any requests and calls *)
(* nested to any depth.                                                    *)
(*                                                                         *)
(* The calls in progress share the arrays, and a call that came in while   *)
(* another waited may have dropped them under it.  IInv says what every    *)
(* call on the stack may rely on all the same, which of the two arrays is  *)
(* complete while the other is full, which frames own bCommitting, and     *)
(* where every staged value is known.                                      *)
(***************************************************************************)
EXTENDS SetTransaction, SequenceTheorems, TLAPS

\* A frame that has a request is within it, and has an object exactly while
\* it is inside that object's Commit callback.
FrameOK(f) ==
    /\ f.i >= 1
    /\ f.pc \in {"stage", "enlist"} => f.req \in Requests
    /\ f.pc = "enlist" => f.i <= Len(f.req)
    /\ f.obj # NoValue <=> f.pc \in {"callback", "applied"}

StackInv == \A n \in 1..Len(calls) : FrameOK(calls[n])

\* Each array is complete as long as the other one has had room.
ArrayInv ==
    /\ \A m, n \in DOMAIN objArray : objArray[m] = objArray[n] => m = n
    /\ Len(varArray) < MaxVars => ToSet(objArray) \subseteq {ObjOf[p] : p \in ToSet(varArray)}
    /\ Len(objArray) < MaxObjs => {ObjOf[p] : p \in ToSet(varArray)} \subseteq ToSet(objArray)

MarkInv == \A p \in alreadySet : temp[p] # NoValue

CommitInv ==
    /\ \A o \in Objs : o \in committing <=> \E n \in 1..Len(calls) : calls[n].obj = o
    /\ \A m, n \in 1..Len(calls) :
          calls[m].obj = calls[n].obj /\ calls[m].obj # NoValue => m = n

\* The parameters that calls have staged and are about to list.
Enlisting == {calls[n].req[calls[n].i][1] : n \in {m \in 1..Len(calls) : calls[m].pc = "enlist"}}

\* A staged value is listed, about to be, or known to have been left behind.
LeftInv ==
    /\ \A p \in left : temp[p] # NoValue /\ ObjOf[p] \in spoilt
    /\ \A p \in Params :
          temp[p] # NoValue => p \in left \/ p \in ToSet(varArray) \/ p \in Enlisting

IInv == TypeOK /\ StackInv /\ ArrayInv /\ MarkInv /\ CommitInv /\ LeftInv

-----------------------------------------------------------------------------
(***************************************************************************)
(* The stack of calls.                                                     *)
(***************************************************************************)
LEMMA TopFacts ==
  ASSUME TypeOK, calls # <<>>
  PROVE  /\ Len(calls) \in Nat \ {0}
         /\ Top = calls[Len(calls)] /\ Top \in Frames
         /\ Front(calls) \in Seq(Frames) /\ Len(Front(calls)) = Len(calls) - 1
         /\ \A n \in 1..(Len(calls) - 1) : Front(calls)[n] = calls[n]
<1>1. calls \in Seq(Frames) /\ Len(calls) \in Nat \ {0}
  BY LenProperties, EmptySeq DEF TypeOK
<1>2. Top = calls[Len(calls)] /\ Top \in Frames
  BY <1>1, ElementOfSeq DEF Top, Last
<1>3. /\ Front(calls) \in Seq(Frames) /\ Len(Front(calls)) = Len(calls) - 1
      /\ \A n \in 1..(Len(calls) - 1) : Front(calls)[n] = calls[n]
  <2> DEFINE l == Len(calls) - 1
             s == Front(calls)
  <2>1. l \in Nat /\ \A n \in 1..l : calls[n] \in Frames
    BY <1>1, ElementOfSeq
  <2>2. /\ s \in Seq(Frames)
        /\ Len(s) = IF 1 <= l THEN l - 1 + 1 ELSE 0
        /\ \A n \in 1..(l - 1 + 1) : s[n] = calls[1 + n - 1]
    <3> HIDE DEF l
    <3>1. l \in Int
      BY <2>1
    <3>2. s = SubSeq(calls, 1, l)
      BY DEF Front, l
    <3>3. QED
      BY <2>1, <3>1, <3>2, SubSeqProperties
  <2> HIDE DEF s
  <2>3. Len(s) = l
    <3> HIDE DEF l
    <3>1. (IF 1 <= l THEN l - 1 + 1 ELSE 0) = l
      BY <2>1
    <3>2. QED
      BY <2>2, <3>1
  <2>4. ASSUME NEW n \in 1..l PROVE s[n] = calls[n]
    <3> HIDE DEF l
    <3>1. l - 1 + 1 = l /\ 1 + n - 1 = n
      BY <2>1
    <3>2. QED
      BY <2>2, <3>1
  <2>5. QED
    BY <2>2, <2>3, <2>4 DEF s
<1>4. QED
  BY <1>1, <1>2, <1>3

LEMMA PushFacts ==
  ASSUME TypeOK, NEW f \in Frames, calls' = Append(calls, f)
  PROVE  /\ calls' \in Seq(Frames) /\ Len(calls) \in Nat /\ Len(calls') = Len(calls) + 1
         /\ \A n \in 1..Len(calls') : calls'[n] = IF n <= Len(calls) THEN calls[n] ELSE f
  BY AppendProperties, LenProperties DEF TypeOK

LEMMA ReplaceFacts ==
  ASSUME TypeOK, calls # <<>>, NEW f \in Frames, Replace(f)
  PROVE  /\ calls' \in Seq(Frames) /\ Len(calls') = Len(calls)
         /\ \A n \in 1..Len(calls) : calls'[n] = IF n < Len(calls) THEN calls[n] ELSE f
<1>1. /\ Len(calls) \in Nat \ {0}
      /\ Front(calls) \in Seq(Frames) /\ Len(Front(calls)) = Len(calls) - 1
      /\ \A n \in 1..(Len(calls) - 1) : Front(calls)[n] = calls[n]
  BY TopFacts
<1>2. /\ calls' \in Seq(Frames) /\ Len(calls') = Len(calls)
      /\ \A n \in 1..(Len(calls) - 1) : calls'[n] = Front(calls)[n]
      /\ calls'[Len(calls)] = f
  BY <1>1, AppendProperties DEF Replace
<1>3. QED
  BY <1>1, <1>2

\* A call starts, goes on and returns, and the rest of the stack stays.
LEMMA StackPush ==
  ASSUME IInv, NEW f \in Frames, FrameOK(f), f.obj = NoValue,
         Len(calls) < MaxDepth, calls' = Append(calls, f), UNCHANGED committing
  PROVE  /\ calls' \in Seq(Frames) /\ Len(calls') <= MaxDepth
         /\ StackInv' /\ CommitInv' /\ Enlisting \subseteq Enlisting'
<1>1. /\ calls' \in Seq(Frames) /\ Len(calls) \in Nat /\ Len(calls') = Len(calls) + 1
      /\ \A n \in 1..Len(calls') : calls'[n] = IF n <= Len(calls) THEN calls[n] ELSE f
  BY PushFacts DEF IInv
<1>2. Len(calls') <= MaxDepth
  BY <1>1, ConstantsOK
<1>3. StackInv'
  BY <1>1 DEF IInv, StackInv
<1>4. CommitInv'
  <2>1. ASSUME NEW o \in Objs
        PROVE  o \in committing <=> \E n \in 1..Len(calls') : calls'[n].obj = o
    <3>1. o # f.obj
      BY ConstantsOK
    <3>2. QED
      BY <1>1, <3>1 DEF IInv, CommitInv
  <2>2. ASSUME NEW m \in 1..Len(calls'), NEW n \in 1..Len(calls'),
               calls'[m].obj = calls'[n].obj, calls'[m].obj # NoValue
        PROVE  m = n
    BY <1>1, <2>2 DEF IInv, CommitInv
  <2>3. QED
    BY <2>1, <2>2 DEF CommitInv
<1>5. Enlisting \subseteq Enlisting'
  BY <1>1 DEF Enlisting
<1>6. QED
  BY <1>1, <1>2, <1>3, <1>4, <1>5

LEMMA StackReplace ==
  ASSUME IInv, calls # <<>>, NEW f \in Frames, FrameOK(f), f.obj = Top.obj,
         Replace(f), UNCHANGED committing
  PROVE  /\ calls' \in Seq(Frames) /\ Len(calls') <= MaxDepth
         /\ StackInv' /\ CommitInv'
         /\ \A p \in Enlisting : p \in Enlisting' \/ (Top.pc = "enlist" /\ p = Top.req[Top.i][1])
<1>1. /\ calls' \in Seq(Frames) /\ Len(calls') = Len(calls)
      /\ \A n \in 1..Len(calls) : calls'[n] = IF n < Len(calls) THEN calls[n] ELSE f
  BY ReplaceFacts DEF IInv
<1>2. Len(calls) \in Nat \ {0} /\ Top = calls[Len(calls)]
  BY TopFacts DEF IInv
<1>3. \A n \in 1..Len(calls) : calls'[n].obj = calls[n].obj
  BY <1>1, <1>2
<1>4. StackInv'
  BY <1>1, <1>2 DEF IInv, StackInv
<1>5. CommitInv'
  BY <1>1, <1>3 DEF IInv, CommitInv
<1>6. \A p \in Enlisting : p \in Enlisting' \/ (Top.pc = "enlist" /\ p = Top.req[Top.i][1])
  BY <1>1, <1>2 DEF Enlisting
<1>7. QED
  BY <1>1, <1>4, <1>5, <1>6 DEF IInv, TypeOK

LEMMA StackReturn ==
  ASSUME IInv, calls # <<>>, Top.obj = NoValue, NEW answer, Return(answer),
         UNCHANGED committing
  PROVE  /\ calls' \in Seq(Frames) /\ Len(calls') <= MaxDepth
         /\ StackInv' /\ CommitInv' /\ status' = answer
         /\ \A p \in Enlisting : p \in Enlisting' \/ (Top.pc = "enlist" /\ p = Top.req[Top.i][1])
<1>1. /\ Len(calls) \in Nat \ {0} /\ Top = calls[Len(calls)]
      /\ calls' \in Seq(Frames) /\ Len(calls') = Len(calls) - 1
      /\ \A n \in 1..Len(calls') : calls'[n] = calls[n]
  BY TopFacts DEF IInv, Return
<1>2. Len(calls') <= MaxDepth
  BY <1>1, ConstantsOK DEF IInv, TypeOK
<1>3. StackInv'
  BY <1>1 DEF IInv, StackInv
<1>4. CommitInv'
  <2>1. ASSUME NEW o \in Objs
        PROVE  o \in committing <=> \E n \in 1..Len(calls') : calls'[n].obj = o
    <3>1. o # Top.obj
      BY ConstantsOK
    <3>2. (\E n \in 1..Len(calls) : calls[n].obj = o)
             <=> \E n \in 1..Len(calls') : calls'[n].obj = o
      BY <1>1, <3>1
    <3>3. QED
      BY <3>2 DEF IInv, CommitInv
  <2>2. ASSUME NEW m \in 1..Len(calls'), NEW n \in 1..Len(calls'),
               calls'[m].obj = calls'[n].obj, calls'[m].obj # NoValue
        PROVE  m = n
    BY <1>1, <2>2 DEF IInv, CommitInv
  <2>3. QED
    BY <2>1, <2>2 DEF CommitInv
<1>5. \A p \in Enlisting : p \in Enlisting' \/ (Top.pc = "enlist" /\ p = Top.req[Top.i][1])
  BY <1>1 DEF Enlisting
<1>6. QED
  BY <1>1, <1>2, <1>3, <1>4, <1>5 DEF Return

-----------------------------------------------------------------------------
(***************************************************************************)
(* The arrays and the records.                                             *)
(***************************************************************************)
LEMMA ElementsOf ==
  ASSUME NEW S, NEW s \in Seq(S)
  PROVE  /\ Len(s) \in Nat /\ DOMAIN s = 1..Len(s)
         /\ ToSet(s) \subseteq S
         /\ \A e : e \in ToSet(s) <=> \E n \in 1..Len(s) : s[n] = e
  BY LenProperties, ElementOfSeq DEF ToSet

LEMMA AppendElements ==
  ASSUME NEW S, NEW s \in Seq(S), NEW e \in S
  PROVE  /\ Append(s, e) \in Seq(S) /\ Len(Append(s, e)) = Len(s) + 1
         /\ ToSet(Append(s, e)) = ToSet(s) \cup {e}
         /\ e \notin ToSet(s) /\ (\A m, n \in DOMAIN s : s[m] = s[n] => m = n)
                => \A m, n \in DOMAIN Append(s, e) : Append(s, e)[m] = Append(s, e)[n] => m = n
<1> DEFINE r == Append(s, e)
<1>1. /\ Len(s) \in Nat /\ DOMAIN s = 1..Len(s)
      /\ r \in Seq(S) /\ Len(r) = Len(s) + 1 /\ DOMAIN r = 1..(Len(s) + 1)
      /\ \A n \in 1..Len(s) : r[n] = s[n]
      /\ r[Len(s) + 1] = e
  BY AppendProperties, LenProperties
<1> HIDE DEF r
<1>2. ToSet(r) = ToSet(s) \cup {e}
  <2>1. \A x : x \in ToSet(r) <=> \E n \in 1..(Len(s) + 1) : r[n] = x
    BY <1>1 DEF ToSet
  <2>2. \A x : x \in ToSet(s) <=> \E n \in 1..Len(s) : s[n] = x
    BY <1>1 DEF ToSet
  <2>3. ASSUME NEW x PROVE x \in ToSet(r) <=> x \in ToSet(s) \/ x = e
    BY <1>1, <2>1, <2>2
  <2>4. QED
    BY <2>3
<1>3. ASSUME e \notin ToSet(s), \A m, n \in DOMAIN s : s[m] = s[n] => m = n,
             NEW m \in DOMAIN r, NEW n \in DOMAIN r, r[m] = r[n]
      PROVE  m = n
  <2>1. \A k \in 1..Len(s) : s[k] # e
    BY <1>1, <1>3 DEF ToSet
  <2>2. QED
    BY <1>1, <1>3, <2>1
<1>4. QED
  BY <1>1, <1>2, <1>3 DEF r

\* Dropped arrays list nothing.
LEMMA ArraysDropped ==
  ASSUME varArray' = <<>>, objArray' = <<>>
  PROVE  /\ varArray' \in Seq(Params) /\ Len(varArray') <= MaxVars
         /\ objArray' \in Seq(Objs) /\ Len(objArray') <= MaxObjs
         /\ ArrayInv'
<1>1. Len(<<>>) = 0 /\ ToSet(<<>>) = {} /\ DOMAIN <<>> = {}
  BY EmptySeq DEF ToSet
<1>2. QED
  BY <1>1, ConstantsOK, EmptySeq DEF ArrayInv

\* The values stay where they are.
LEMMA LeftStays ==
  ASSUME LeftInv, UNCHANGED <<temp, varArray, left, spoilt>>, Enlisting \subseteq Enlisting'
  PROVE  LeftInv'
  BY DEF LeftInv

\* Values are staged, cancelled or taken off the arrays, and what no array
\* lists then is accounted for.
LEMMA LeaveKeeps ==
  ASSUME TypeOK, NEW S \in SUBSET Params, NEW O \in SUBSET Objs, Leave(S, O),
         \A p \in Params :
            temp'[p] # NoValue => p \in left \cup S \/ p \in ToSet(varArray') \/ p \in Enlisting'
  PROVE  left' \subseteq Params /\ spoilt' \subseteq Objs /\ LeftInv'
<1>1. left' \subseteq Params /\ left' = {p \in left \cup S : temp'[p] # NoValue}
  BY DEF Leave, TypeOK
<1>2. spoilt' \subseteq Objs /\ \A p \in left' : ObjOf[p] \in spoilt'
  BY <1>1, ConstantsOK DEF Leave, TypeOK
<1>3. QED
  BY <1>1, <1>2 DEF LeftInv

\* EXIT2 leaves no mark without its value, whatever the counts of the call
\* say of arrays that others have dropped.
LEMMA Exit2Keeps ==
  ASSUME IInv, calls # <<>>, Top.obj = NoValue, NEW S \in SUBSET Params,
         NEW t \in [Params -> Values \cup {NoValue}], NEW a \in SUBSET Params,
         NEW wk \in [Params -> Values], \A p \in a : t[p] # NoValue,
         \A p \in Params : t[p] # temp[p] => p \in S,
         Top.pc = "enlist" => Top.req[Top.i][1] \in S,
         Exit2(Top, S, t, a, wk),
         UNCHANGED <<userChanged, session, dbSession, committing, live, failed>>
  PROVE  IInv'
<1> DEFINE cancelled == {varArray[n] : n \in 1..Top.nVar}
           rolled == IF Top.writer = SNMP THEN {} ELSE {objArray[n] : n \in 1..Top.nObj}
           listed == ToSet(objArray) \cup {ObjOf[p] : p \in ToSet(varArray)}
<1>1. /\ temp' = Overwrite(t, cancelled, Nothing) /\ alreadySet' = a \ cancelled
      /\ work' = Overwrite(wk, ParamsIn(rolled), live)
      /\ Return("error") /\ ResetObjVarArray(Len(calls) - 1)
      /\ Leave(S \cup (ToSet(varArray) \ cancelled), listed \ rolled)
      /\ asked' = [p \in Params |-> IF p \in cancelled THEN {}
                                    ELSE IF p \in S THEN asked[p] \ {t[p]} ELSE asked[p]]
  BY DEF Exit2, Dropped
<1>2. ToSet(varArray) \subseteq Params /\ listed \ rolled \in SUBSET Objs
  <2>1. ToSet(varArray) \subseteq Params /\ ToSet(objArray) \subseteq Objs
    BY ElementsOf DEF IInv, TypeOK
  <2>2. QED
    BY <2>1, ConstantsOK
<1> HIDE DEF cancelled, rolled, listed
<1>3. /\ calls' \in Seq(Frames) /\ Len(calls') <= MaxDepth /\ StackInv' /\ CommitInv'
      /\ status' = "error"
      /\ \A p \in Enlisting : p \in Enlisting' \/ p \in S
  BY <1>1, StackReturn
<1>4. /\ varArray' \in Seq(Params) /\ Len(varArray') <= MaxVars
      /\ objArray' \in Seq(Objs) /\ Len(objArray') <= MaxObjs /\ ArrayInv'
  BY <1>1, ArraysDropped DEF ResetObjVarArray
<1>5. temp' \in [Params -> Values \cup {NoValue}] /\ alreadySet' \subseteq Params /\ MarkInv'
  BY <1>1 DEF Overwrite, Nothing, MarkInv
<1>6. work' \in [Params -> Values]
  BY <1>1 DEF Overwrite, IInv, TypeOK
<1>7. asked' \in [Params -> SUBSET Values]
  BY <1>1 DEF IInv, TypeOK
<1>8. lost' \in Nat
  <2>1. lost' = Len(calls) - 1 /\ Len(calls) \in Nat \ {0}
    BY <1>1, TopFacts DEF ResetObjVarArray, IInv
  <2>2. QED
    BY <2>1
<1>9. left' \subseteq Params /\ spoilt' \subseteq Objs /\ LeftInv'
  <2>1. ASSUME NEW p \in Params, temp'[p] # NoValue
        PROVE  \/ p \in left \cup (S \cup (ToSet(varArray) \ cancelled))
               \/ p \in Enlisting'
    <3>1. p \notin cancelled /\ temp'[p] = t[p]
      BY <1>1, <2>1 DEF Overwrite, Nothing
    <3>2. CASE temp[p] # NoValue
      BY <1>3, <3>1, <3>2 DEF IInv, LeftInv
    <3>3. CASE temp[p] = NoValue
      BY <2>1, <3>1, <3>3
    <3>4. QED
      BY <3>2, <3>3
  <2>2. QED
    BY <1>1, <1>2, <2>1, LeaveKeeps DEF IInv
<1>10. QED
  BY <1>3, <1>4, <1>5, <1>6, <1>7, <1>8, <1>9 DEF IInv, TypeOK

LEMMA InitIInv == Init => IInv
<1> SUFFICES ASSUME Init PROVE IInv
  OBVIOUS
<1> USE ConstantsOK DEF Init
<1>1. Len(<<>>) = 0 /\ ToSet(<<>>) = {} /\ DOMAIN <<>> = {}
  BY EmptySeq DEF ToSet
<1>2. TypeOK
  BY <1>1, EmptySeq DEF TypeOK
<1>3. StackInv /\ CommitInv
  BY <1>1 DEF StackInv, CommitInv
<1>4. ArrayInv /\ MarkInv /\ LeftInv
  BY <1>1 DEF ArrayInv, MarkInv, LeftInv
<1>5. QED
  BY <1>2, <1>3, <1>4 DEF IInv

-----------------------------------------------------------------------------
(***************************************************************************)
(* One lemma per action.                                                   *)
(***************************************************************************)
\* What the running call of a set knows of its request.
LEMMA AtRequest ==
  ASSUME IInv, At("stage") \/ At("enlist"), Top.i <= Len(Top.req)
  PROVE  /\ calls # <<>> /\ Top \in Frames /\ FrameOK(Top) /\ Top.obj = NoValue
         /\ Top.i \in 1..Len(Top.req) /\ Top.req[Top.i] \in Params \X Values
<1>1. calls # <<>> /\ Top \in Frames /\ FrameOK(Top) /\ Top.obj = NoValue
  BY TopFacts DEF IInv, StackInv, At, FrameOK
<1>2. Top.req \in Seq(Params \X Values) /\ Top.i \in Nat
  BY <1>1, ConstantsOK DEF At, FrameOK, Frames
<1>3. Top.i \in 1..Len(Top.req)
  BY <1>1, <1>2, LenProperties DEF FrameOK
<1>4. QED
  BY <1>1, <1>2, <1>3, ElementOfSeq

LEMMA AtCall ==
  ASSUME IInv, NEW s, At(s)
  PROVE  calls # <<>> /\ Top \in Frames /\ FrameOK(Top) /\ Top.pc = s
  BY TopFacts DEF IInv, StackInv, At

LEMMA SessionSignalStep ==
  ASSUME IInv, NEW s \in Sessions, SessionSignal(s)
  PROVE  IInv'
  BY DEF IInv, SessionSignal, recVars, arrVars, compVars, outcome, TypeOK, StackInv, ArrayInv,
      MarkInv, CommitInv, LeftInv, Enlisting

LEMMA RoomForCall ==
  ASSUME IInv, NEW kind, MayCall(kind)
  PROVE  Len(calls) < MaxDepth
  BY ConstantsOK, EmptySeq DEF MayCall, IInv, TypeOK

LEMMA SetParameterValuesStep ==
  ASSUME IInv, NEW s \in Sessions, NEW w \in Writers, NEW req \in Requests,
         NEW c \in CommitFlags, SetParameterValues(s, w, req, c)
  PROVE  IInv'
<1> DEFINE f == Frame("set", "stage", req, w, s, c)
<1>1. f \in Frames /\ FrameOK(f) /\ f.obj = NoValue
  BY ConstantsOK DEF Frame, Frames, FrameOK
<1>2. calls' = Append(calls, f) /\ Len(calls) < MaxDepth
  BY RoomForCall DEF SetParameterValues
<1> HIDE DEF f
<1>3. /\ calls' \in Seq(Frames) /\ Len(calls') <= MaxDepth /\ StackInv' /\ CommitInv'
      /\ Enlisting \subseteq Enlisting'
  BY <1>1, <1>2, StackPush DEF SetParameterValues
<1>4. LeftInv'
  BY <1>3, LeftStays DEF IInv, SetParameterValues, recVars, arrVars, outcome
<1>5. QED
  BY <1>3, <1>4 DEF IInv, SetParameterValues, recVars, arrVars, compVars, outcome, TypeOK, ArrayInv,
      MarkInv

LEMMA SetCommitStep ==
  ASSUME IInv, NEW s \in Sessions, SetCommit(s)
  PROVE  IInv'
<1> DEFINE f == Frame("commit", "commit", <<>>, NoValue, s, TRUE)
<1>1. f \in Frames /\ FrameOK(f) /\ f.obj = NoValue
  BY ConstantsOK DEF Frame, Frames, FrameOK
<1>2. calls' = Append(calls, f) /\ Len(calls) < MaxDepth
  BY RoomForCall DEF SetCommit
<1> HIDE DEF f
<1>3. /\ calls' \in Seq(Frames) /\ Len(calls') <= MaxDepth /\ StackInv' /\ CommitInv'
      /\ Enlisting \subseteq Enlisting'
  BY <1>1, <1>2, StackPush DEF SetCommit
<1>4. LeftInv'
  BY <1>3, LeftStays DEF IInv, SetCommit, recVars, arrVars, outcome
<1>5. QED
  BY <1>3, <1>4 DEF IInv, SetCommit, recVars, arrVars, compVars, outcome, TypeOK, ArrayInv,
      MarkInv

LEMMA SetRollbackStep ==
  ASSUME IInv, NEW s \in Sessions, SetRollback(s)
  PROVE  IInv'
<1> USE DEF IInv, SetRollback
<1>1. /\ varArray' \in Seq(Params) /\ Len(varArray') <= MaxVars
      /\ objArray' \in Seq(Objs) /\ Len(objArray') <= MaxObjs /\ ArrayInv'
  BY ArraysDropped DEF ResetObjVarArray
<1>2. StackInv' /\ CommitInv'
  BY DEF StackInv, CommitInv
<1>3. MarkInv'
  BY DEF TypeOK, MarkInv, Overwrite
<1>4. lost' \in Nat
  BY LenProperties DEF ResetObjVarArray, TypeOK
<1>5. left' \subseteq Params /\ spoilt' \subseteq Objs /\ LeftInv'
  <2>1. /\ Leave({}, {ObjOf[p] : p \in ToSet(varArray)} \ ToSet(objArray))
        /\ {ObjOf[p] : p \in ToSet(varArray)} \ ToSet(objArray) \in SUBSET Objs
    BY ElementsOf, ConstantsOK DEF TypeOK
  <2>2. ASSUME NEW p \in Params, temp'[p] # NoValue
        PROVE  p \in left \/ p \in Enlisting'
    BY <2>2 DEF Overwrite, Nothing, LeftInv, Enlisting
  <2>3. QED
    BY <2>1, <2>2, LeaveKeeps
<1>6. TypeOK'
  BY <1>1, <1>4, <1>5 DEF TypeOK, Overwrite, Nothing, Clear
<1>7. QED
  BY <1>1, <1>2, <1>3, <1>5, <1>6

LEMMA StageRefusedStep ==
  ASSUME IInv, StageRefused
  PROVE  IInv'
<1>1. calls # <<>> /\ Top.obj = NoValue /\ Top.pc = "stage"
  BY AtRequest DEF StageRefused, At
<1>2. QED
  BY <1>1, Exit2Keeps DEF StageRefused, IInv, TypeOK, MarkInv

LEMMA StageDeniedStep ==
  ASSUME IInv, StageDenied
  PROVE  IInv'
<1> DEFINE p == Top.req[Top.i][1]
           v == Top.req[Top.i][2]
           t == [temp EXCEPT ![p] = v]
<1>1. /\ calls # <<>> /\ Top.obj = NoValue /\ p \in Params /\ v \in Values
      /\ Top.pc = "stage"
  BY AtRequest DEF StageDenied, At
<1>2. Exit2(Top, {p}, t, alreadySet, work)
  BY DEF StageDenied
<1>3. UNCHANGED <<userChanged, session, dbSession, committing, live, failed>>
  BY DEF StageDenied
<1> HIDE DEF p, v
<1>4. /\ t \in [Params -> Values \cup {NoValue}] /\ \A q \in alreadySet : t[q] # NoValue
      /\ \A q \in Params : t[q] # temp[q] => q \in {p}
  BY <1>1, ConstantsOK DEF IInv, TypeOK, MarkInv
<1> HIDE DEF t
<1>5. QED
  BY <1>1, <1>2, <1>3, <1>4, Exit2Keeps DEF IInv, TypeOK

LEMMA StagedValue ==
  ASSUME IInv, NEW p \in Params, NEW v \in Values, NEW w,
         temp' = [temp EXCEPT ![p] = v],
         userChanged' = MarkUserChanged(w, p, v),
         asked' = [asked EXCEPT ![p] = @ \cup {v}],
         UNCHANGED alreadySet
  PROVE  /\ temp' \in [Params -> Values \cup {NoValue}] /\ userChanged' \subseteq Params
         /\ asked' \in [Params -> SUBSET Values] /\ MarkInv'
  BY ConstantsOK DEF IInv, TypeOK, MarkInv, MarkUserChanged

LEMMA StageAbandonedStep ==
  ASSUME IInv, StageAbandoned
  PROVE  IInv'
<1> DEFINE p == Top.req[Top.i][1]
           O == {ObjOf[Top.req[n][1]] : n \in DOMAIN Top.req}
<1>1. /\ calls # <<>> /\ Top.obj = NoValue /\ Top.pc = "stage" /\ Top.req \in Requests
      /\ p \in Params /\ Top.req[Top.i][2] \in Values
  BY AtRequest DEF StageAbandoned, At, FrameOK
<1>2. /\ temp' \in [Params -> Values \cup {NoValue}] /\ userChanged' \subseteq Params
      /\ asked' \in [Params -> SUBSET Values] /\ MarkInv'
  BY <1>1, StagedValue DEF StageAbandoned
<1>3. /\ calls' \in Seq(Frames) /\ Len(calls') <= MaxDepth /\ StackInv' /\ CommitInv'
      /\ status' = "success" /\ Enlisting \subseteq Enlisting'
  BY <1>1, StackReturn DEF StageAbandoned
<1>4. left' \subseteq Params /\ spoilt' \subseteq Objs /\ LeftInv'
  <2>1. Leave({p}, O) /\ temp' = [temp EXCEPT ![p] = Top.req[Top.i][2]] /\ varArray' = varArray
    BY DEF StageAbandoned, arrVars
  <2>2. O \in SUBSET Objs
    <3>1. \A n \in DOMAIN Top.req : Top.req[n] \in Params \X Values
      BY <1>1, ConstantsOK, ElementOfSeq, LenProperties
    <3>2. QED
      BY <3>1, ConstantsOK
  <2> HIDE DEF p, O
  <2>3. ASSUME NEW q \in Params, temp'[q] # NoValue
        PROVE  q \in left \cup {p} \/ q \in ToSet(varArray') \/ q \in Enlisting'
    BY <1>3, <2>1, <2>3 DEF IInv, TypeOK, LeftInv
  <2>4. QED
    BY <1>1, <2>1, <2>2, <2>3, LeaveKeeps DEF IInv
<1>5. QED
  BY <1>2, <1>3, <1>4 DEF StageAbandoned, IInv, TypeOK, ArrayInv, arrVars, compVars

LEMMA StageStep ==
  ASSUME IInv, Stage
  PROVE  IInv'
<1>1. /\ calls # <<>> /\ Top \in Frames /\ FrameOK(Top) /\ Top.obj = NoValue
      /\ Top.pc = "stage" /\ Top.i \in 1..Len(Top.req)
      /\ Top.req[Top.i][1] \in Params /\ Top.req[Top.i][2] \in Values
  BY AtRequest DEF Stage, At
<1>2. /\ temp' \in [Params -> Values \cup {NoValue}] /\ userChanged' \subseteq Params
      /\ asked' \in [Params -> SUBSET Values] /\ MarkInv'
  BY <1>1, StagedValue DEF Stage
<1>3. PICK b \in BOOLEAN : Replace([Top EXCEPT !.pc = "enlist", !.open = b])
  BY DEF Stage
<1> DEFINE f == [Top EXCEPT !.pc = "enlist", !.open = b]
<1>4. f \in Frames /\ FrameOK(f) /\ f.obj = Top.obj
  <2>1. f \in Frames
    BY <1>1 DEF Frames
  <2>2. f.pc = "enlist" /\ f.i = Top.i /\ f.req = Top.req /\ f.obj = Top.obj
    BY <1>1 DEF Frames
  <2>3. QED
    BY <1>1, <2>1, <2>2 DEF FrameOK
<1> HIDE DEF f
<1>5. /\ calls' \in Seq(Frames) /\ Len(calls') <= MaxDepth /\ StackInv' /\ CommitInv'
      /\ Enlisting \subseteq Enlisting'
  BY <1>1, <1>3, <1>4, StackReplace DEF Stage, f
<1>6. Top.req[Top.i][1] \in Enlisting'
  <2>1. Len(calls') = Len(calls) /\ Len(calls) \in Nat \ {0} /\ calls'[Len(calls)] = f
    BY <1>1, <1>3, <1>4, ReplaceFacts, TopFacts DEF IInv, f
  <2>2. f.pc = "enlist" /\ f.i = Top.i /\ f.req = Top.req
    BY <1>1 DEF Frames, f
  <2>3. QED
    BY <2>1, <2>2 DEF Enlisting
<1>7. left' \subseteq Params /\ spoilt' \subseteq Objs /\ LeftInv'
  <2> DEFINE p == Top.req[Top.i][1]
             O == IF p \in alreadySet THEN {ObjOf[p]} ELSE {}
  <2>1. Leave({}, O) /\ temp' = [temp EXCEPT ![p] = Top.req[Top.i][2]] /\ varArray' = varArray
    BY DEF Stage, arrVars
  <2>2. O \in SUBSET Objs
    BY <1>1, ConstantsOK
  <2> HIDE DEF p, O
  <2>3. ASSUME NEW q \in Params, temp'[q] # NoValue
        PROVE  q \in left \/ q \in ToSet(varArray') \/ q \in Enlisting'
    BY <1>5, <1>6, <2>1, <2>3 DEF IInv, TypeOK, LeftInv, p
  <2>4. QED
    BY <2>1, <2>2, <2>3, LeaveKeeps DEF IInv
<1>8. QED
  BY <1>2, <1>5, <1>7 DEF Stage, IInv, TypeOK, ArrayInv, arrVars, compVars

LEMMA NotifyRefusedStep ==
  ASSUME IInv, NotifyRefused
  PROVE  IInv'
<1>1. calls # <<>> /\ Top.obj = NoValue /\ Top.req[Top.i][1] \in Params
  BY AtCall, AtRequest DEF NotifyRefused, FrameOK
<1>2. /\ Exit2(Top, {Top.req[Top.i][1]}, temp, alreadySet, work)
      /\ UNCHANGED <<userChanged, session, dbSession, committing, live, failed>>
  BY DEF NotifyRefused
<1>3. /\ temp \in [Params -> Values \cup {NoValue}] /\ alreadySet \in SUBSET Params
      /\ work \in [Params -> Values] /\ \A p \in alreadySet : temp[p] # NoValue
  BY DEF IInv, TypeOK, MarkInv
<1>4. PICK S \in SUBSET Params : S = {Top.req[Top.i][1]}
  BY <1>1
<1>5. QED
  BY <1>1, <1>2, <1>3, <1>4, Exit2Keeps

LEMMA ArraysGrow ==
  ASSUME IInv, NEW p \in Params, AddVarRecordIntoArray(p), AddObjRecordIntoArray(ObjOf[p])
  PROVE  /\ varArray' \in Seq(Params) /\ Len(varArray') <= MaxVars
         /\ objArray' \in Seq(Objs) /\ Len(objArray') <= MaxObjs
         /\ ArrayInv' /\ ToSet(varArray) \subseteq ToSet(varArray')
<1>1. /\ varArray \in Seq(Params) /\ Len(varArray) \in Nat /\ Len(varArray) <= MaxVars
      /\ objArray \in Seq(Objs) /\ Len(objArray) \in Nat /\ Len(objArray) <= MaxObjs
      /\ ObjOf[p] \in Objs /\ MaxVars \in Nat /\ MaxObjs \in Nat
  BY ConstantsOK, LenProperties DEF IInv, TypeOK
<1>2. /\ varArray' \in Seq(Params) /\ Len(varArray') <= MaxVars
      /\ ToSet(varArray') \subseteq ToSet(varArray) \cup {p}
      /\ Len(varArray') < MaxVars => Len(varArray) < MaxVars /\ p \in ToSet(varArray')
      /\ ToSet(varArray) \subseteq ToSet(varArray')
  BY <1>1, AppendElements DEF AddVarRecordIntoArray
<1>3. /\ objArray' \in Seq(Objs) /\ Len(objArray') <= MaxObjs
      /\ ToSet(objArray') \subseteq ToSet(objArray) \cup {ObjOf[p]}
      /\ Len(objArray') < MaxObjs => Len(objArray) < MaxObjs /\ ObjOf[p] \in ToSet(objArray')
      /\ ToSet(objArray) \subseteq ToSet(objArray')
  BY <1>1, AppendElements DEF AddObjRecordIntoArray
<1>4. \A m, n \in DOMAIN objArray' : objArray'[m] = objArray'[n] => m = n
  <2>1. \A m, n \in DOMAIN objArray : objArray[m] = objArray[n] => m = n
    BY DEF IInv, ArrayInv
  <2>2. \/ objArray' = objArray
        \/ ObjOf[p] \notin ToSet(objArray) /\ objArray' = Append(objArray, ObjOf[p])
    BY DEF AddObjRecordIntoArray
  <2>3. CASE objArray' = objArray
    BY <2>1, <2>3
  <2>4. CASE ObjOf[p] \notin ToSet(objArray) /\ objArray' = Append(objArray, ObjOf[p])
    <3> DEFINE r == Append(objArray, ObjOf[p])
    <3>1. \A m, n \in DOMAIN r : r[m] = r[n] => m = n
      BY <1>1, <2>1, <2>4, AppendElements
    <3> HIDE DEF r
    <3>2. QED
      BY <2>4, <3>1 DEF r
  <2>5. QED
    BY <2>2, <2>3, <2>4
<1>5. QED
  BY <1>2, <1>3, <1>4 DEF IInv, ArrayInv

LEMMA EnlistStep ==
  ASSUME IInv, Enlist
  PROVE  IInv'
<1>1. /\ calls # <<>> /\ Top \in Frames /\ FrameOK(Top) /\ Top.obj = NoValue
      /\ Top.pc = "enlist" /\ Top.req \in Requests /\ Top.i \in Nat
      /\ Top.req[Top.i][1] \in Params
  BY AtCall, AtRequest DEF Enlist, FrameOK, Frames
<1>2. /\ varArray' \in Seq(Params) /\ Len(varArray') <= MaxVars
      /\ objArray' \in Seq(Objs) /\ Len(objArray') <= MaxObjs /\ ArrayInv'
      /\ ToSet(varArray) \subseteq ToSet(varArray')
  BY <1>1, ArraysGrow DEF Enlist
<1>3. PICK nv, no \in Nat :
        Replace([Top EXCEPT !.pc = "stage", !.i = @ + 1, !.open = FALSE, !.nVar = nv, !.nObj = no])
  BY <1>2, LenProperties DEF Enlist
<1> DEFINE f == [Top EXCEPT !.pc = "stage", !.i = @ + 1, !.open = FALSE, !.nVar = nv, !.nObj = no]
<1>4. f \in Frames /\ FrameOK(f) /\ f.obj = Top.obj
  <2>1. Top.i + 1 \in Nat
    BY <1>1
  <2>2. f \in Frames
    BY <1>1, <2>1 DEF Frames
  <2>3. f.pc = "stage" /\ f.i = Top.i + 1 /\ f.req = Top.req /\ f.obj = Top.obj
    BY <1>1 DEF Frames
  <2>4. QED
    BY <1>1, <2>2, <2>3 DEF FrameOK
<1> HIDE DEF f
<1>5. /\ calls' \in Seq(Frames) /\ Len(calls') <= MaxDepth /\ StackInv' /\ CommitInv'
      /\ \A p \in Enlisting : p \in Enlisting' \/ p = Top.req[Top.i][1]
  BY <1>1, <1>3, <1>4, StackReplace DEF Enlist, f
<1>6. left' \subseteq Params /\ spoilt' \subseteq Objs /\ LeftInv'
  <2> DEFINE p == Top.req[Top.i][1]
             S == {p} \ ToSet(varArray')
             O == {ObjOf[p]} \ ToSet(objArray')
  <2>1. Leave(S, O) /\ temp' = temp
    BY DEF Enlist, recVars
  <2>2. S \in SUBSET Params /\ O \in SUBSET Objs
    BY <1>1, ConstantsOK
  <2>3. ASSUME NEW q \in Params, temp'[q] # NoValue
        PROVE  q \in left \cup S \/ q \in ToSet(varArray') \/ q \in Enlisting'
    BY <1>2, <1>5, <2>1, <2>3 DEF IInv, LeftInv
  <2> HIDE DEF S, O
  <2>4. QED
    BY <2>1, <2>2, <2>3, LeaveKeeps DEF IInv
<1>7. lost' \in Nat
  BY <1>1, TopFacts DEF Enlist, IInv, TypeOK
<1>8. QED
  BY <1>2, <1>5, <1>6, <1>7 DEF Enlist, IInv, TypeOK, MarkInv, recVars, compVars

LEMMA StagedStep ==
  ASSUME IInv, Staged
  PROVE  IInv'
<1> DEFINE f == [Top EXCEPT !.pc = "verify", !.i = 1]
<1>1. calls # <<>> /\ Top.pc = "stage" /\ f \in Frames /\ FrameOK(f) /\ f.obj = Top.obj
  <2>1. calls # <<>> /\ Top \in Frames /\ FrameOK(Top) /\ Top.pc = "stage"
    BY AtCall DEF Staged
  <2>2. f \in Frames
    BY <2>1 DEF Frames
  <2>3. f.pc = "verify" /\ f.i = 1 /\ f.obj = Top.obj
    BY <2>1 DEF Frames
  <2>4. QED
    BY <2>1, <2>2, <2>3 DEF FrameOK
<1>2. /\ calls' \in Seq(Frames) /\ Len(calls') <= MaxDepth /\ StackInv' /\ CommitInv'
      /\ Enlisting \subseteq Enlisting'
  BY <1>1, StackReplace DEF Staged
<1>3. LeftInv'
  BY <1>2, LeftStays DEF Staged, IInv, recVars, arrVars, outcome
<1>4. QED
  BY <1>2, <1>3 DEF Staged, IInv, TypeOK, ArrayInv, MarkInv, recVars, arrVars, compVars,
      outcome

LEMMA VerifyChangesStep ==
  ASSUME IInv, VerifyChanges
  PROVE  IInv'
<1> DEFINE f == [Top EXCEPT !.i = @ + 1]
<1>1. calls # <<>> /\ Top.pc = "verify" /\ f \in Frames /\ FrameOK(f) /\ f.obj = Top.obj
  BY AtCall DEF VerifyChanges, Frames, FrameOK
<1>2. /\ calls' \in Seq(Frames) /\ Len(calls') <= MaxDepth /\ StackInv' /\ CommitInv'
      /\ Enlisting \subseteq Enlisting'
  BY <1>1, StackReplace DEF VerifyChanges
<1>3. work' \in [Params -> Values] /\ alreadySet' \subseteq Params /\ MarkInv'
  BY DEF VerifyChanges, Updated, ParamsOf, Overwrite, IInv, TypeOK, MarkInv
<1>4. LeftInv'
  BY <1>2, LeftStays DEF VerifyChanges, IInv, arrVars, outcome
<1>5. QED
  BY <1>2, <1>3, <1>4 DEF VerifyChanges, IInv, TypeOK, ArrayInv, arrVars, outcome

LEMMA VerifyRefusedStep ==
  ASSUME IInv, VerifyRefused
  PROVE  IInv'
<1> DEFINE o == objArray[Top.i]
<1>1. calls # <<>> /\ Top.obj = NoValue /\ Top.pc = "verify"
  BY AtCall DEF VerifyRefused, FrameOK
<1>2. PICK S \in SUBSET Updated(o) :
          Exit2(Top, {}, temp, IF o \in BulkObjs THEN alreadySet ELSE alreadySet \cup S,
                Overwrite(work, S, temp))
  BY DEF VerifyRefused
<1> DEFINE a == IF o \in BulkObjs THEN alreadySet ELSE alreadySet \cup S
           wk == Overwrite(work, S, temp)
<1>3. /\ temp \in [Params -> Values \cup {NoValue}] /\ a \in SUBSET Params
      /\ \A p \in a : temp[p] # NoValue
      /\ wk \in [Params -> Values]
  BY DEF Updated, ParamsOf, Overwrite, IInv, TypeOK, MarkInv
<1>4. Exit2(Top, {}, temp, a, wk)
  BY <1>2
<1> HIDE DEF a, wk
<1>5. QED
  BY <1>1, <1>3, <1>4, Exit2Keeps DEF VerifyRefused

LEMMA LeavePendingStep ==
  ASSUME IInv, LeavePending
  PROVE  IInv'
<1>1. calls # <<>> /\ Top.obj = NoValue /\ Top.pc = "verify"
  BY AtCall DEF LeavePending, FrameOK
<1>2. /\ calls' \in Seq(Frames) /\ Len(calls') <= MaxDepth /\ StackInv' /\ CommitInv'
      /\ status' = "success" /\ Enlisting \subseteq Enlisting'
  BY <1>1, StackReturn DEF LeavePending
<1>3. LeftInv'
  BY <1>2, LeftStays DEF LeavePending, IInv, recVars, arrVars
<1>4. QED
  BY <1>2, <1>3 DEF LeavePending, IInv, TypeOK, ArrayInv, MarkInv, recVars, arrVars, compVars

LEMMA BeginCommitStep ==
  ASSUME IInv, BeginCommit
  PROVE  IInv'
<1>1. calls # <<>> /\ Top \in Frames /\ FrameOK(Top) /\ Top.pc = "verify" /\ Top.obj = NoValue
  BY AtCall DEF BeginCommit, FrameOK
<1>2. CASE dbSession = Top.sess
  <2> DEFINE f == [Top EXCEPT !.pc = "commit", !.i = 1]
  <2>1. f \in Frames /\ FrameOK(f) /\ f.obj = Top.obj
    <3>1. f \in Frames
      BY <1>1 DEF Frames
    <3>2. f.pc = "commit" /\ f.i = 1 /\ f.obj = Top.obj
      BY <1>1 DEF Frames
    <3>3. QED
      BY <1>1, <3>1, <3>2 DEF FrameOK
  <2>2. /\ calls' \in Seq(Frames) /\ Len(calls') <= MaxDepth /\ StackInv' /\ CommitInv'
        /\ Enlisting \subseteq Enlisting'
    BY <1>1, <1>2, <2>1, StackReplace DEF BeginCommit
  <2>3. LeftInv'
    BY <1>2, <2>2, LeftStays DEF BeginCommit, IInv, recVars, arrVars, outcome
  <2>4. QED
    BY <1>2, <2>2, <2>3 DEF BeginCommit, IInv, TypeOK, ArrayInv, MarkInv, recVars, arrVars,
        compVars, outcome
<1>3. CASE dbSession # Top.sess
  <2>1. /\ calls' \in Seq(Frames) /\ Len(calls') <= MaxDepth /\ StackInv' /\ CommitInv'
        /\ status' = "success" /\ Enlisting \subseteq Enlisting'
    BY <1>1, <1>3, StackReturn DEF BeginCommit
  <2>2. /\ varArray' \in Seq(Params) /\ Len(varArray') <= MaxVars
        /\ objArray' \in Seq(Objs) /\ Len(objArray') <= MaxObjs /\ ArrayInv'
    BY <1>3, ArraysDropped DEF BeginCommit, ResetObjVarArray
  <2>3. lost' \in Nat
    <3>1. lost' = Len(calls) - 1 /\ Len(calls) \in Nat \ {0}
      BY <1>1, <1>3, TopFacts DEF BeginCommit, ResetObjVarArray, IInv
    <3>2. QED
      BY <3>1
  <2>4. left' \subseteq Params /\ spoilt' \subseteq Objs /\ LeftInv'
    <3>1. Leave(ToSet(varArray), ToSet(objArray)) /\ temp' = temp
      BY <1>3 DEF BeginCommit, recVars
    <3>2. ToSet(varArray) \subseteq Params /\ ToSet(objArray) \subseteq Objs
      BY ElementsOf DEF IInv, TypeOK
    <3>3. ASSUME NEW q \in Params, temp'[q] # NoValue
          PROVE  q \in left \cup ToSet(varArray) \/ q \in Enlisting'
      BY <2>1, <3>1, <3>3 DEF IInv, LeftInv
    <3>4. QED
      BY <3>1, <3>2, <3>3, LeaveKeeps DEF IInv
  <2>5. QED
    BY <1>3, <2>1, <2>2, <2>3, <2>4 DEF BeginCommit, IInv, TypeOK, MarkInv, recVars, compVars
<1>4. QED
  BY <1>2, <1>3

LEMMA CommitChangesStep ==
  ASSUME IInv, CommitChanges
  PROVE  IInv'
<1> DEFINE o == objArray[Top.i]
<1>1. calls # <<>> /\ Top \in Frames /\ FrameOK(Top) /\ Top.pc = "commit" /\ Top.obj = NoValue
  BY AtCall DEF CommitChanges, FrameOK
<1>2. o \in Objs
  <2>1. Top.i \in 1..Len(objArray)
    BY <1>1, LenProperties DEF CommitChanges, FrameOK, Frames, IInv, TypeOK
  <2>2. QED
    BY <2>1, ElementOfSeq DEF IInv, TypeOK
<1>3. SUFFICES /\ committing' \subseteq Objs /\ calls' \in Seq(Frames)
               /\ Len(calls') <= MaxDepth /\ StackInv' /\ CommitInv'
               /\ Enlisting \subseteq Enlisting'
  <2>1. LeftInv'
    BY <1>3, LeftStays DEF CommitChanges, IInv, recVars, arrVars, outcome
  <2>2. QED
    BY <1>3, <2>1 DEF CommitChanges, IInv, TypeOK, ArrayInv, MarkInv, recVars, arrVars,
        compVars, outcome
<1>4. CASE o \in committing
  <2> DEFINE f == [Top EXCEPT !.i = @ + 1]
  <2>1. f \in Frames /\ FrameOK(f) /\ f.obj = Top.obj
    BY <1>1 DEF Frames, FrameOK
  <2>2. QED
    BY <1>1, <1>4, <2>1, StackReplace DEF CommitChanges, IInv, TypeOK
<1>5. CASE o \notin committing
  <2> DEFINE f == [Top EXCEPT !.pc = "callback", !.obj = o]
  <2>1. f \in Frames /\ FrameOK(f) /\ f.obj = o
    BY <1>1, <1>2, ConstantsOK DEF Frames, FrameOK
  <2>2. Replace(f) /\ committing' = committing \cup {o}
    BY <1>5 DEF CommitChanges
  <2> HIDE DEF f, o
  <2>3. /\ calls' \in Seq(Frames) /\ Len(calls') = Len(calls)
        /\ \A n \in 1..Len(calls) : calls'[n] = IF n < Len(calls) THEN calls[n] ELSE f
    BY <1>1, <2>1, <2>2, ReplaceFacts DEF IInv
  <2>4. Len(calls) \in Nat \ {0} /\ calls[Len(calls)].obj = NoValue
    BY <1>1, TopFacts DEF IInv
  <2>5. \A n \in 1..Len(calls) : calls[n].obj # o
    BY <1>2, <1>5 DEF IInv, CommitInv
  <2>6. StackInv'
    BY <2>1, <2>3, <2>4 DEF IInv, StackInv
  <2>7. ASSUME NEW e \in Objs
        PROVE  e \in committing' <=> \E n \in 1..Len(calls') : calls'[n].obj = e
    <3>1. CASE e = o
      BY <2>1, <2>2, <2>3, <2>4, <3>1
    <3>2. CASE e # o
      <4>1. e \in committing <=> \E n \in 1..Len(calls) : calls[n].obj = e
        BY DEF IInv, CommitInv
      <4>2. e # NoValue
        BY ConstantsOK
      <4>3. QED
        BY <2>1, <2>2, <2>3, <2>4, <3>2, <4>1, <4>2
    <3>3. QED
      BY <3>1, <3>2
  <2>8. ASSUME NEW m \in 1..Len(calls'), NEW n \in 1..Len(calls'),
               calls'[m].obj = calls'[n].obj, calls'[m].obj # NoValue
        PROVE  m = n
    BY <2>1, <2>3, <2>4, <2>5, <2>8 DEF IInv, CommitInv
  <2>9. Enlisting \subseteq Enlisting'
    BY <1>1, <2>3, TopFacts DEF Enlisting, IInv
  <2>10. QED
    BY <1>2, <2>2, <2>3, <2>6, <2>7, <2>8, <2>9 DEF CommitInv, IInv, TypeOK
<1>6. QED
  BY <1>4, <1>5

LEMMA CommitAppliedStep ==
  ASSUME IInv, CommitApplied
  PROVE  IInv'
<1> DEFINE f == [Top EXCEPT !.pc = "applied"]
<1>1. /\ calls # <<>> /\ Top.pc = "callback"
      /\ f \in Frames /\ FrameOK(f) /\ f.obj = Top.obj
  BY AtCall DEF CommitApplied, Frames, FrameOK
<1>2. /\ calls' \in Seq(Frames) /\ Len(calls') <= MaxDepth /\ StackInv' /\ CommitInv'
      /\ Enlisting \subseteq Enlisting'
  BY <1>1, StackReplace DEF CommitApplied
<1>3. /\ live' \in [Params -> Values] /\ asked' \in [Params -> SUBSET Values]
      /\ failed' \subseteq Objs
  BY DEF CommitApplied, ParamsOf, Overwrite, IInv, TypeOK
<1>4. LeftInv'
  BY <1>2, LeftStays DEF CommitApplied, IInv, recVars, arrVars, outcome
<1>5. QED
  BY <1>2, <1>3, <1>4 DEF CommitApplied, IInv, TypeOK, ArrayInv, MarkInv, recVars, arrVars,
      outcome

LEMMA CommitFailedStep ==
  ASSUME IInv, CommitFailed
  PROVE  IInv'
<1> DEFINE f == [Top EXCEPT !.pc = "applied"]
<1>1. /\ calls # <<>> /\ Top.pc = "callback"
      /\ f \in Frames /\ FrameOK(f) /\ f.obj = Top.obj /\ Top.obj \in Objs
  BY AtCall DEF CommitFailed, Frames, FrameOK
<1>2. /\ calls' \in Seq(Frames) /\ Len(calls') <= MaxDepth /\ StackInv' /\ CommitInv'
      /\ Enlisting \subseteq Enlisting'
  BY <1>1, StackReplace DEF CommitFailed
<1>3. LeftInv'
  BY <1>2, LeftStays DEF CommitFailed, IInv, recVars, arrVars, outcome
<1>4. QED
  BY <1>1, <1>2, <1>3 DEF CommitFailed, IInv, TypeOK, ArrayInv, MarkInv, recVars, arrVars,
      compVars, outcome

LEMMA CommitReturnsStep ==
  ASSUME IInv, CommitReturns
  PROVE  IInv'
<1> DEFINE f == [Top EXCEPT !.pc = "commit", !.i = @ + 1, !.obj = NoValue]
<1>1. /\ calls # <<>> /\ f \in Frames /\ FrameOK(f) /\ f.obj = NoValue
      /\ Top.obj \in Objs /\ Top.pc = "applied"
  <2>1. calls # <<>> /\ Top \in Frames /\ FrameOK(Top) /\ Top.pc = "applied"
    BY AtCall DEF CommitReturns
  <2>2. Top.i \in Nat /\ Top.i + 1 \in Nat
    BY <2>1 DEF Frames
  <2>3. f \in Frames
    BY <2>1, <2>2 DEF Frames
  <2>4. f.pc = "commit" /\ f.i = Top.i + 1 /\ f.obj = NoValue /\ Top.i \in Nat
    BY <2>1 DEF Frames
  <2>5. Top.obj \in Objs
    BY <2>1 DEF Frames, FrameOK
  <2>6. QED
    BY <2>1, <2>3, <2>4, <2>5 DEF FrameOK
<1>2. Replace(f) /\ committing' = committing \ {Top.obj}
  BY DEF CommitReturns
<1> HIDE DEF f
<1>3. /\ calls' \in Seq(Frames) /\ Len(calls') = Len(calls)
      /\ \A n \in 1..Len(calls) : calls'[n] = IF n < Len(calls) THEN calls[n] ELSE f
  BY <1>1, <1>2, ReplaceFacts DEF IInv
<1>4. Len(calls) \in Nat \ {0} /\ calls[Len(calls)] = Top
  BY <1>1, TopFacts DEF IInv
<1>5. StackInv'
  BY <1>1, <1>3, <1>4 DEF IInv, StackInv
<1>6. ASSUME NEW e \in Objs
      PROVE  e \in committing' <=> \E n \in 1..Len(calls') : calls'[n].obj = e
  <2>1. /\ e \in committing <=> \E n \in 1..Len(calls) : calls[n].obj = e
        /\ e # NoValue
    BY ConstantsOK DEF IInv, CommitInv
  <2>2. CASE e = Top.obj
    <3>1. \A n \in 1..(Len(calls) - 1) : calls[n].obj # e
      BY <1>4, <2>1, <2>2 DEF IInv, CommitInv
    <3>2. QED
      BY <1>1, <1>2, <1>3, <1>4, <2>1, <2>2, <3>1
  <2>3. CASE e # Top.obj
    BY <1>1, <1>2, <1>3, <1>4, <2>1, <2>3
  <2>4. QED
    BY <2>2, <2>3
<1>7. ASSUME NEW m \in 1..Len(calls'), NEW n \in 1..Len(calls'),
             calls'[m].obj = calls'[n].obj, calls'[m].obj # NoValue
      PROVE  m = n
  BY <1>1, <1>3, <1>4, <1>7 DEF IInv, CommitInv
<1>8. CommitInv'
  BY <1>6, <1>7 DEF CommitInv
<1>9. LeftInv'
  <2>1. Enlisting \subseteq Enlisting'
    BY <1>1, <1>3, <1>4 DEF Enlisting
  <2>2. QED
    BY <2>1, LeftStays DEF CommitReturns, IInv, recVars, arrVars, outcome
<1>10. QED
  BY <1>2, <1>3, <1>5, <1>8, <1>9 DEF CommitReturns, IInv, TypeOK, ArrayInv, MarkInv,
      recVars, arrVars, compVars, outcome

LEMMA FinishCommitStep ==
  ASSUME IInv, FinishCommit
  PROVE  IInv'
<1>1. calls # <<>> /\ Top.obj = NoValue /\ Top.pc = "commit"
  BY AtCall DEF FinishCommit, FrameOK
<1>2. /\ calls' \in Seq(Frames) /\ Len(calls') <= MaxDepth /\ StackInv' /\ CommitInv'
      /\ status' = "success" /\ Enlisting \subseteq Enlisting'
  BY <1>1, StackReturn DEF FinishCommit
<1>3. /\ varArray' \in Seq(Params) /\ Len(varArray') <= MaxVars
      /\ objArray' \in Seq(Objs) /\ Len(objArray') <= MaxObjs /\ ArrayInv'
  BY ArraysDropped DEF FinishCommit, ResetObjVarArray
<1>4. MarkInv'
  BY DEF FinishCommit, IInv, TypeOK, MarkInv, Overwrite
<1>5. temp' \in [Params -> Values \cup {NoValue}] /\ asked' \in [Params -> SUBSET Values]
  BY DEF FinishCommit, Overwrite, Nothing, Clear, IInv, TypeOK
<1>6. lost' \in Nat
  <2>1. lost' = Len(calls) - 1 /\ Len(calls) \in Nat \ {0}
    BY <1>1, TopFacts DEF FinishCommit, ResetObjVarArray, IInv
  <2>2. QED
    BY <2>1
<1>7. left' \subseteq Params /\ spoilt' \subseteq Objs /\ LeftInv'
  <2>1. Leave({}, {})
    BY DEF FinishCommit
  <2>2. ASSUME NEW q \in Params, temp'[q] # NoValue
        PROVE  q \in left \/ q \in Enlisting'
    BY <1>2, <2>2 DEF FinishCommit, Overwrite, Nothing, IInv, LeftInv
  <2>3. QED
    BY <2>1, <2>2, LeaveKeeps DEF IInv
<1>8. QED
  BY <1>2, <1>3, <1>4, <1>5, <1>6, <1>7 DEF FinishCommit, IInv, TypeOK, compVars

LEMMA Inductive == Spec => []IInv
<1>1. ASSUME IInv, [Next]_vars PROVE IInv'
  <2>1. CASE UNCHANGED vars
    BY <1>1, <2>1 DEF vars, recVars, arrVars, compVars, outcome, IInv, TypeOK, StackInv,
        ArrayInv, MarkInv, CommitInv, LeftInv, Enlisting
  <2>2. CASE Call
    BY <1>1, <2>2, SessionSignalStep, SetParameterValuesStep, SetCommitStep, SetRollbackStep
        DEF Call
  <2>3. CASE StageRefused \/ StageDenied \/ StageAbandoned \/ Stage
    BY <1>1, <2>3, StageRefusedStep, StageDeniedStep, StageAbandonedStep, StageStep
  <2>4. CASE NotifyRefused \/ Enlist \/ Staged
    BY <1>1, <2>4, NotifyRefusedStep, EnlistStep, StagedStep
  <2>5. CASE VerifyChanges \/ VerifyRefused \/ LeavePending \/ BeginCommit
    BY <1>1, <2>5, VerifyChangesStep, VerifyRefusedStep, LeavePendingStep, BeginCommitStep
  <2>6. CASE CommitChanges \/ CommitApplied \/ CommitFailed \/ CommitReturns \/ FinishCommit
    BY <1>1, <2>6, CommitChangesStep, CommitAppliedStep, CommitFailedStep,
        CommitReturnsStep, FinishCommitStep
  <2>7. QED
    BY <1>1, <2>1, <2>2, <2>3, <2>4, <2>5, <2>6 DEF Next
<1>2. QED
  BY <1>1, InitIInv, PTL DEF Spec

\* Type correctness: neither array exceeds its size, and no call hands the
\* component a NULL, however calls come in between.
THEOREM TypeCorrect == Spec => []TypeOK
<1>1. IInv => TypeOK
  BY DEF IInv
<1>2. QED
  BY <1>1, Inductive, PTL

\* The arrays name each object of a listed VarRecord once, no VarRecord is
\* marked as handed over without a staged value, and bCommitting is set for
\* the objects whose Commit runs, whatever sets, commits and rollbacks come
\* in while another call waits or commits.
THEOREM BookkeepingKept == Spec => []Bookkeeping
<1>1. ASSUME IInv PROVE Bookkeeping
  <2>1. Len(varArray) < MaxVars /\ Len(objArray) < MaxObjs =>
          /\ ToSet(objArray) = {ObjOf[p] : p \in ToSet(varArray)}
          /\ \A m, n \in DOMAIN objArray : objArray[m] = objArray[n] => m = n
    BY <1>1 DEF IInv, ArrayInv
  <2>2. \A p \in alreadySet : temp[p] # NoValue
    BY <1>1 DEF IInv, MarkInv
  <2>3. /\ Len(calls) \in Nat /\ DOMAIN calls = 1..Len(calls)
        /\ \A n \in 1..Len(calls) : calls[n].obj \in Objs \cup {NoValue}
    <3>1. calls \in Seq(Frames) /\ \A f \in Frames : f.obj \in Objs \cup {NoValue}
      BY <1>1 DEF IInv, TypeOK, Frames
    <3>2. QED
      BY <3>1, LenProperties, ElementOfSeq
  <2>4. committing = {f.obj : f \in ToSet(calls)} \ {NoValue}
    <3>1. {f.obj : f \in ToSet(calls)} = {calls[n].obj : n \in 1..Len(calls)}
      BY <2>3 DEF ToSet
    <3>2. committing \subseteq Objs /\ NoValue \notin Objs
      BY <1>1, ConstantsOK DEF IInv, TypeOK
    <3>3. \A o \in Objs : o \in committing <=> \E n \in 1..Len(calls) : calls[n].obj = o
      BY <1>1 DEF IInv, CommitInv
    <3>4. QED
      BY <2>3, <3>1, <3>2, <3>3
  <2>5. QED
    BY <1>1, <2>1, <2>2, <2>3, <2>4 DEF IInv, CommitInv, Bookkeeping
<1>2. QED
  BY <1>1, Inductive, PTL

\* When no call runs and no set is pending, every staged value and every mark
\* is one of those that the exits named at RecordsClean have left: whatever
\* was refused, denied, abandoned or nested before, CommitChange and
\* CancelChange have reached everything else that TstValue had touched.
THEOREM RecordsLeftClean == Spec => []RecordsClean
<1>1. ASSUME IInv PROVE RecordsClean
  <2> SUFFICES ASSUME calls = <<>>, varArray = <<>>
               PROVE  left = {p \in Params : temp[p] # NoValue} /\ alreadySet \subseteq left
    BY DEF RecordsClean
  <2>1. ToSet(varArray) = {} /\ Enlisting = {}
    BY EmptySeq DEF ToSet, Enlisting
  <2>2. \A p \in Params : p \in left <=> temp[p] # NoValue
    BY <1>1, <2>1 DEF IInv, LeftInv
  <2>3. QED
    BY <1>1, <2>2 DEF IInv, TypeOK, MarkInv
<1>2. QED
  BY <1>1, Inductive, PTL
===============================================================================
