------------------------ MODULE GraphicBufferProofs -------------------------
(***************************************************************************)
(* The properties of GraphicBuffer and of its allocator for every number   *)
(* of objects, addresses and widths, and every interleaving of their       *)
(* calls.                                                                  *)
(***************************************************************************)
EXTENDS GraphicBuffer, FiniteSetTheorems, TLAPS

\* An object, a due list update and a call.
ObjRec == [handle : Handles \cup {NULL},
           mOwner : {"none", "ownNone", "ownHandle", "ownData"},
           width : Widths, mWrappedBuffer : Objects \cup {NULL}, held : BOOLEAN]

ListOps == {NoListOp} \cup [op : {"add", "remove"}, handle : Handles,
                            width : 0..MaxWidth]

Calls == {NoCall} \cup [op : {"destroy"}]
           \cup [op : {"lock"}, way : Ways]
           \cup [op : {"initSize"}, width : Widths]
           \cup [op : {"unflatten"}, verdict : {"empty", "handle"}, width : Widths]

\* The types under these names.
Typed ==
        /\ device \in [Handles -> 0..MaxWidth]
        /\ sAllocList \in [Handles -> 0..MaxWidth]
        /\ listOp \in [Objects -> ListOps]
        /\ reused \subseteq Handles
        /\ obj \in [Objects -> ObjRec]
        /\ call \in [Objects -> Calls]
        /\ native \in [Handles -> {"free", "client", "made"}]
        /\ fence \in [open : 0..1, signaled : BOOLEAN]
        /\ lost \subseteq Handles
        /\ stale \subseteq Objects
        /\ unsized \subseteq Objects

\* Object o relies on handle h, and is the one to release it.
Names(o, h) == obj[o].handle = h /\ ~Released(o)
Holds(o, h) == Owns(o, h) /\ ~Released(o)

\* The fields of one object, its call and its list update belong together.
Local(o) ==
    /\ ~Exists(o) => /\ obj[o].handle = NULL /\ obj[o].mWrappedBuffer = NULL
                     /\ obj[o].width = 0 /\ ~obj[o].held /\ call[o] = NoCall
    /\ obj[o].mOwner = "ownData" => obj[o].mWrappedBuffer = NULL
    /\ call[o].op \in {"none", "lock"} => listOp[o] = NoListOp
    /\ call[o].op = "destroy" => listOp[o].op = "remove" /\ ~obj[o].held
    /\ call[o].op = "initSize" =>
          /\ obj[o].mOwner = "ownData"
          /\ obj[o].handle = NULL <=> listOp[o] = NoListOp
    /\ call[o].op = "unflatten" => listOp[o].op # "add"
    /\ listOp[o] # NoListOp => obj[o].mOwner = "ownData"
                                 /\ listOp[o].handle = obj[o].handle
    /\ o \notin unsized /\ call[o].op \in {"none", "lock"} /\ obj[o].width > 0
          => obj[o].handle # NULL

LocalInv == \A o \in Objects : Local(o)

\* A buffer that is wrapped exists, and is not being destroyed.
WrapInv ==
    \A o \in Objects :
        LET b == obj[o].mWrappedBuffer
        IN  b # NULL => Exists(b) /\ call[b].op # "destroy"

\* What a due update will do to the list.
ListInv ==
    /\ \A c \in Objects : listOp[c].op = "add" =>
          /\ listOp[c].width > 0
          /\ device[listOp[c].handle] = listOp[c].width
    /\ \A c \in Objects, h \in Handles :
          Due(c, "remove", h) /\ device[h] > 0 => h \in reused
    /\ RecordsAreCurrent
    /\ MissedOnlyByReuse

\* One fence at a time.
FenceInv ==
    \/ fence.open = 0 /\ \A o \in Objects : call[o].op # "lock"
    \/ /\ fence.open = 1
       /\ \E o \in Objects : \A p \in Objects : call[p].op = "lock" <=> p = o

\* A handle is the device's or a native_handle_t, and its holder knows which.
HoldInv ==
    /\ \A h \in Handles : device[h] > 0 => native[h] = "free"
    /\ \A o \in Objects, h \in Handles : Holds(o, h) =>
          IF obj[o].mOwner = "ownData" THEN device[h] > 0 ELSE native[h] # "free"
    /\ \A o, p \in Objects, h \in Handles : Holds(o, h) /\ Holds(p, h) => o = p

LostInv ==
    \A h \in Handles \ lost :
        device[h] > 0 \/ native[h] = "made" => \E o \in Objects : Holds(o, h)

\* Who relies on a handle that another object will release keeps that object
\* alive through a chain of references.
ReachInv ==
    \A o \in Objects \ stale, h \in Handles : Names(o, h) =>
        /\ Live(h)
        /\ \A p \in Objects : Holds(p, h) => o = p \/ o \in Above(p)

OwnInv == HoldInv /\ LostInv /\ ReachInv

Rest == LocalInv /\ WrapInv /\ ListInv /\ FenceInv /\ OwnInv

IInv == Typed /\ Rest

-----------------------------------------------------------------------------
(* Types.                                                                  *)

\* What is in a call.
LEMMA CallShape ==
    ASSUME NEW c \in Calls
    PROVE  /\ c.op \in {"none", "destroy", "lock", "initSize", "unflatten"}
           /\ c.op = "none" <=> c = NoCall
           /\ c.op \in {"initSize", "unflatten"} => c.width \in Widths
           /\ c.op = "unflatten" => c.verdict \in {"empty", "handle"}
BY DEF Calls, NoCall

\* The calls the actions begin.
LEMMA CallKinds ==
    /\ NoCall \in Calls /\ NoCall.op = "none"
    /\ [op |-> "destroy"] \in Calls
    /\ \A way \in Ways : [op |-> "lock", way |-> way] \in Calls
    /\ \A w \in Widths : [op |-> "initSize", width |-> w] \in Calls
    /\ \A v \in {"empty", "handle"}, w \in Widths :
          [op |-> "unflatten", verdict |-> v, width |-> w] \in Calls
BY DEF Calls, NoCall

\* What is in a list update.
LEMMA ListShape ==
    ASSUME NEW l \in ListOps
    PROVE  /\ l.op \in {"none", "add", "remove"}
           /\ l.op = "none" <=> l = NoListOp
           /\ l # NoListOp => l.handle \in Handles /\ l.width \in 0..MaxWidth
BY DEF ListOps, NoListOp

\* The list updates the device calls leave due.
LEMMA ListKinds ==
    /\ NoListOp \in ListOps /\ NoListOp.op = "none"
    /\ \A op \in {"add", "remove"}, h \in Handles, w \in 0..MaxWidth :
          /\ ListOp(op, h, w) \in ListOps /\ ListOp(op, h, w) # NoListOp
          /\ ListOp(op, h, w).op = op /\ ListOp(op, h, w).handle = h
          /\ ListOp(op, h, w).width = w
BY DEF ListOps, NoListOp, ListOp

\* What changing some fields of an object leaves.
LEMMA ObjKinds ==
    /\ NoObject \in ObjRec
    /\ \A r \in ObjRec, h \in Handles \cup {NULL}, w \in Widths :
          /\ [r EXCEPT !.handle = h] \in ObjRec
          /\ [r EXCEPT !.width = w] \in ObjRec
          /\ [r EXCEPT !.handle = h, !.width = w] \in ObjRec
          /\ [r EXCEPT !.handle = h, !.width = w, !.mOwner = "ownHandle"] \in ObjRec
    /\ \A r \in ObjRec : /\ [r EXCEPT !.mWrappedBuffer = NULL] \in ObjRec
                         /\ [r EXCEPT !.held = FALSE] \in ObjRec
                         /\ [r EXCEPT !.mOwner = "ownHandle"] \in ObjRec
    /\ \A h \in Handles \cup {NULL}, owner \in {"ownNone", "ownHandle", "ownData"},
          w \in Widths, b \in Objects \cup {NULL} : Object(h, owner, w, b) \in ObjRec
<1>1. NoObject \in ObjRec
  BY WidthAssumption DEF ObjRec, NoObject, Widths
<1>2. ASSUME NEW r \in ObjRec, NEW h \in Handles \cup {NULL}, NEW w \in Widths
      PROVE  /\ [r EXCEPT !.handle = h] \in ObjRec
             /\ [r EXCEPT !.width = w] \in ObjRec
  BY DEF ObjRec
<1>3. ASSUME NEW r \in ObjRec
      PROVE  /\ [r EXCEPT !.mWrappedBuffer = NULL] \in ObjRec
             /\ [r EXCEPT !.held = FALSE] \in ObjRec
             /\ [r EXCEPT !.mOwner = "ownHandle"] \in ObjRec
  BY DEF ObjRec
<1>4. ASSUME NEW r \in ObjRec, NEW h \in Handles \cup {NULL}, NEW w \in Widths
      PROVE  [r EXCEPT !.handle = h, !.width = w] \in ObjRec
  BY DEF ObjRec
<1>5. ASSUME NEW r \in ObjRec, NEW h \in Handles \cup {NULL}, NEW w \in Widths
      PROVE  [r EXCEPT !.handle = h, !.width = w, !.mOwner = "ownHandle"] \in ObjRec
  BY DEF ObjRec
<1>6. ASSUME NEW h \in Handles \cup {NULL}, NEW owner \in {"ownNone", "ownHandle", "ownData"},
             NEW w \in Widths, NEW b \in Objects \cup {NULL}
      PROVE  Object(h, owner, w, b) \in ObjRec
  BY DEF ObjRec, Object
<1> QED BY <1>1, <1>2, <1>3, <1>4, <1>5, <1>6

\* They are those of TypeOK.
LEMMA Types == Typed => TypeOK
BY DEF Typed, TypeOK, AllocTypeOK, ListOps, ObjRec, Calls, Objects


-----------------------------------------------------------------------------
(* The actions.                                                            *)

\* unflatten goes on with a parcel that has a handle, or has none.
LEMMA VerdictKinds == Verdicts \ {"cleared"} \subseteq {"empty", "handle"}
<1>1. \A p \in Parcels : Verdict(p) \in {"refused", "cleared", "empty", "handle"}
  BY DEF Verdict
<1> QED BY <1>1 DEF Verdicts

\* Next, one case for each action.
LEMMA NextCases ==
    ASSUME Next
    PROVE  \/ Signal
           \/ \E h \in Handles : Import(h) \/ ClientCloses(h)
           \/ \E o \in Objects :
              \/ NewEmpty(o)
              \/ \E w \in Widths : NewSized(o, w)
              \/ \E w \in Widths, h \in Handles, k \in BOOLEAN : NewFromHandle(o, h, w, k)
              \/ \E b \in Objects, k \in BOOLEAN : NewWrapper(o, b, k)
              \/ DropReference(o)
              \/ Destroy(o)
              \/ AfterFree(o)
              \/ \E w \in Widths : Reallocate(o, w)
              \/ \E h \in Handles : InitSize(o, h)
              \/ InitSizeFails(o)
              \/ InitSizeEnds(o)
              \/ UnflattenTooLarge(o)
              \/ \E v \in {"empty", "handle"}, w \in Widths : Unflatten(o, v, w)
              \/ UnflattenNone(o)
              \/ \E h \in Handles : UnflattenHandle(o, h)
              \/ \E h \in Handles : UnflattenUnregistered(o, h)
              \/ \E right \in Widths, way \in Ways, signaled \in BOOLEAN :
                    LockAsync(o, right, way, signaled)
              \/ call[o].op = "lock" /\ LockReturns(o)
<1>1. \A o \in Objects :
          LockPassed(o) \/ LockUnsupported(o) \/ SyncWait(o) \/ SyncWaitFails(o)
            => call[o].op = "lock" /\ LockReturns(o)
  BY DEF LockPassed, LockUnsupported, SyncWait, SyncWaitFails
<1> QED BY <1>1, VerdictKinds DEF Next, Continue


\* The first state.
LEMMA TypeInit == Init => Typed
<1> SUFFICES ASSUME Init PROVE Typed
  OBVIOUS
<1>1. fence \in [open : 0..1, signaled : BOOLEAN]
  BY DEF Init
<1>2. obj \in [Objects -> ObjRec] /\ call \in [Objects -> Calls]
  BY ObjKinds, CallKinds DEF Init
<1>3. listOp \in [Objects -> ListOps]
  BY ListKinds DEF Init, AllocInit, Objects
<1>4. /\ device \in [Handles -> 0..MaxWidth] /\ sAllocList \in [Handles -> 0..MaxWidth]
      /\ reused = {} /\ native \in [Handles -> {"free", "client", "made"}]
  BY WidthAssumption DEF Init, AllocInit
<1> QED BY <1>1, <1>2, <1>3, <1>4 DEF Typed, Init

\* Every step keeps the types.
LEMMA TypeStep == Typed /\ LocalInv /\ FenceInv /\ [Next]_vars => Typed'
<1> SUFFICES ASSUME Typed, LocalInv, FenceInv, [Next]_vars PROVE Typed'
  OBVIOUS
<1>t. /\ device \in [Handles -> 0..MaxWidth]
      /\ sAllocList \in [Handles -> 0..MaxWidth]
      /\ listOp \in [Objects -> ListOps]
      /\ reused \subseteq Handles
      /\ obj \in [Objects -> ObjRec]
      /\ call \in [Objects -> Calls]
      /\ native \in [Handles -> {"free", "client", "made"}]
      /\ fence \in [open : 0..1, signaled : BOOLEAN]
      /\ lost \subseteq Handles
      /\ stale \subseteq Objects
      /\ unsized \subseteq Objects
  BY DEF Typed
<1>f. \A o \in Objects : /\ obj[o] \in ObjRec
                         /\ obj[o].handle \in Handles \cup {NULL}
                         /\ obj[o].width \in Widths
                         /\ obj[o].mOwner \in {"none", "ownNone", "ownHandle", "ownData"}
  <2>1. \A r \in ObjRec : /\ r.handle \in Handles \cup {NULL} /\ r.width \in Widths
                          /\ r.mOwner \in {"none", "ownNone", "ownHandle", "ownData"}
    BY DEF ObjRec
  <2> QED BY <1>t, <2>1
<1>g. \A o \in Objects : /\ call[o] \in Calls /\ listOp[o] \in ListOps
                         /\ Above(o) \subseteq Objects
  BY <1>t DEF Above
<1>h. \A h : Naming(h) \subseteq Objects
  BY DEF Naming
<1>w. 0 \in Widths
  BY WidthAssumption DEF Widths
<1> USE DEF allocVars
<1>1. CASE UNCHANGED vars
  BY <1>1, <1>t DEF Typed, vars
<1>2. CASE Signal
  <2>1. fence' \in [open : 0..1, signaled : BOOLEAN]
    BY <1>2, <1>t DEF Signal
  <2> QED BY <1>2, <2>1, <1>t DEF Typed, Signal
<1>3. ASSUME NEW h \in Handles, Import(h) \/ ClientCloses(h) PROVE Typed'
  BY <1>3, <1>t DEF Typed, Import, ClientCloses
<1>4. ASSUME NEW o \in Objects, NewEmpty(o) \/ \E w \in Widths : NewSized(o, w)
      PROVE  Typed'
  <2>1. obj' \in [Objects -> ObjRec]
    <3>1. Object(NULL, "ownData", 0, NULL) \in ObjRec
      BY <1>w, ObjKinds
    <3> QED BY <1>4, <3>1, <1>t DEF NewEmpty, NewSized, New
  <2>2. call' \in [Objects -> Calls]
    BY <1>4, <1>t, CallKinds DEF NewEmpty, NewSized
  <2> QED BY <1>4, <2>1, <2>2, <1>t DEF Typed, NewEmpty, NewSized, New
<1>5. ASSUME NEW o \in Objects, NEW w \in Widths, NEW h \in Handles, NEW k \in BOOLEAN,
             NewFromHandle(o, h, w, k)
      PROVE  Typed'
  <2>1. obj' \in [Objects -> ObjRec]
    BY <1>5, <1>t, ObjKinds DEF NewFromHandle, Owner
  <2>2. stale' \subseteq Objects
    BY <1>5, <1>t, <1>h DEF NewFromHandle
  <2> QED BY <1>5, <2>1, <2>2, <1>t DEF Typed, NewFromHandle
<1>6. ASSUME NEW o \in Objects, NEW b \in Objects, NEW k \in BOOLEAN, NewWrapper(o, b, k)
      PROVE  Typed'
  <2>1. obj' \in [Objects -> ObjRec]
    BY <1>6, <1>t, <1>f, ObjKinds DEF NewWrapper, Wrapping, Owner
  <2>2. stale' \subseteq Objects /\ unsized' \subseteq Objects
    BY <1>6, <1>t, <1>h DEF NewWrapper
  <2> QED BY <1>6, <2>1, <2>2, <1>t DEF Typed, NewWrapper
<1>7. ASSUME NEW o \in Objects, DropReference(o) PROVE Typed'
  <2>1. obj' \in [Objects -> ObjRec]
    BY <1>7, <1>t, <1>f, ObjKinds DEF DropReference
  <2> QED BY <1>7, <2>1, <1>t DEF Typed, DropReference
<1>8. ASSUME NEW o \in Objects, ReleaseNative(o), obj[o].handle # NULL
      PROVE  /\ native' \in [Handles -> {"free", "client", "made"}]
             /\ UNCHANGED <<device, sAllocList, listOp, reused, lost>>
  BY <1>8, <1>t, <1>f DEF ReleaseNative
<1>9. ASSUME NEW o \in Objects, ReleaseRefused(o), obj[o].handle # NULL
      PROVE  /\ lost' \subseteq Handles
             /\ UNCHANGED <<device, sAllocList, listOp, reused, native>>
  BY <1>9, <1>t, <1>f DEF ReleaseRefused, DeviceKeeps
<1>10. ASSUME NEW o \in Objects, NEW c \in Calls, ReleaseBegins(o, c), obj[o].handle # NULL
       PROVE  /\ device' \in [Handles -> 0..MaxWidth]
              /\ listOp' \in [Objects -> ListOps]
              /\ reused' \subseteq Handles
              /\ call' \in [Objects -> Calls]
              /\ UNCHANGED <<sAllocList, native, lost>>
  <2>1. ListOp("remove", obj[o].handle, 0) \in ListOps
    BY <1>10, <1>f, ListKinds, WidthAssumption
  <2> QED BY <1>10, <2>1, <1>t, <1>f, WidthAssumption DEF ReleaseBegins, DeviceFree
<1>11. ASSUME NEW o \in Objects, Destroy(o) PROVE Typed'
  <2>1. CASE Gone(o) /\ UNCHANGED call /\ obj[o].handle = NULL
             /\ UNCHANGED <<allocVars, native, lost, fence>>
    BY <2>1, <1>t, ObjKinds DEF Typed, Gone
  <2>2. CASE Gone(o) /\ UNCHANGED <<call, fence>> /\ obj[o].handle # NULL /\ ReleasedAtOnce(o)
    BY <2>2, <1>8, <1>9, <1>t, ObjKinds DEF Typed, Gone, ReleasedAtOnce
  <2>3. CASE ReleaseBegins(o, [op |-> "destroy"]) /\ obj[o].handle # NULL
             /\ UNCHANGED <<obj, stale, unsized, fence>>
    BY <2>3, <1>10, <1>t, CallKinds DEF Typed
  <2> QED BY <1>11, <2>1, <2>2, <2>3 DEF Destroy
<1>12. ASSUME NEW o \in Objects, AfterFree(o) PROVE Typed'
  <2>1. sAllocList' \in [Handles -> 0..MaxWidth] /\ listOp' \in [Objects -> ListOps]
        /\ UNCHANGED <<device, reused>>
    BY <1>12, <1>t, <1>g, ListShape, ListKinds, WidthAssumption DEF AfterFree, ListRemove
  <2>2. obj' \in [Objects -> ObjRec]
    <3>1. NoObject \in ObjRec /\ [obj[o] EXCEPT !.handle = NULL] \in ObjRec
          /\ [obj[o] EXCEPT !.mWrappedBuffer = NULL] \in ObjRec
      BY <1>f, <1>w, ObjKinds
    <3>2. \/ obj' = [obj EXCEPT ![o] = NoObject]
          \/ obj' = [obj EXCEPT ![o] = [obj[o] EXCEPT !.handle = NULL]]
          \/ obj' = [obj EXCEPT ![o] = [obj[o] EXCEPT !.mWrappedBuffer = NULL]]
      BY <1>12, <1>t DEF AfterFree, Gone
    <3> QED BY <3>1, <3>2, <1>t
  <2>3. call' \in [Objects -> Calls]
    BY <1>12, <1>t, CallKinds DEF AfterFree
  <2>4. stale' \subseteq Objects /\ unsized' \subseteq Objects
    BY <1>12, <1>t DEF AfterFree, Gone
  <2> QED BY <1>12, <2>1, <2>2, <2>3, <2>4, <1>t DEF Typed, AfterFree
<1>13. ASSUME NEW o \in Objects, NEW w \in Widths, Reallocate(o, w) PROVE Typed'
  <2> DEFINE c == [op |-> "initSize", width |-> w]
  <2>1. c \in Calls
    BY CallKinds
  <2>2. stale' \subseteq Objects /\ UNCHANGED <<fence, unsized>>
    BY <1>13, <1>t, <1>g DEF Reallocate
  <2> HIDE DEF c
  <2>3. CASE /\ call' = [call EXCEPT ![o] = c]
             /\ UNCHANGED <<allocVars, obj, native, lost>>
    BY <2>1, <2>2, <2>3, <1>t DEF Typed
  <2>4. CASE /\ obj[o].handle # NULL /\ ReleasedAtOnce(o)
             /\ obj' = [obj EXCEPT ![o].handle = NULL]
             /\ call' = [call EXCEPT ![o] = c]
    <3>1. obj' \in [Objects -> ObjRec]
      BY <2>4, <1>t, <1>f, ObjKinds
    <3> QED BY <2>1, <2>2, <2>4, <3>1, <1>8, <1>9, <1>t DEF Typed, ReleasedAtOnce
  <2>5. CASE obj[o].handle # NULL /\ ReleaseBegins(o, c) /\ UNCHANGED obj
    BY <2>1, <2>2, <2>5, <1>10, <1>t DEF Typed
  <2> QED BY <1>13, <2>3, <2>4, <2>5 DEF Reallocate, c
<1>14. ASSUME NEW o \in Objects, NEW h \in Handles, InitSize(o, h) PROVE Typed'
  <2>1. AllocWidth(call[o].width) \in 0..MaxWidth
    BY <1>14, <1>g, CallShape, WidthAssumption DEF InitSize, AllocWidth, Widths
  <2>2. ListOp("add", h, AllocWidth(call[o].width)) \in ListOps
    BY <2>1, ListKinds
  <2>3. obj' \in [Objects -> ObjRec]
    BY <1>14, <1>t, <1>f, ObjKinds DEF InitSize
  <2> QED BY <1>14, <2>1, <2>2, <2>3, <1>t DEF Typed, InitSize, DeviceAlloc
<1>15. ASSUME NEW o \in Objects, InitSizeFails(o) PROVE Typed'
  BY <1>15, <1>t, CallKinds DEF Typed, InitSizeFails
<1>16. ASSUME NEW o \in Objects, InitSizeEnds(o) PROVE Typed'
  <2>1. listOp[o].op = "add" /\ listOp[o] # NoListOp
    BY <1>16, ListKinds DEF InitSizeEnds, ListAdd
  <2>2. call[o].op = "initSize"
    BY <2>1, <1>g, CallShape, ListKinds DEF LocalInv, Local
  <2>3. obj' \in [Objects -> ObjRec]
    BY <1>16, <2>2, <1>t, <1>f, <1>g, CallShape, ObjKinds DEF InitSizeEnds
  <2>4. sAllocList' \in [Handles -> 0..MaxWidth] /\ listOp' \in [Objects -> ListOps]
        /\ UNCHANGED <<device, reused>>
    BY <1>16, <2>1, <1>t, <1>g, ListShape, ListKinds DEF InitSizeEnds, ListAdd
  <2> QED BY <1>16, <2>3, <2>4, <1>t, CallKinds DEF Typed, InitSizeEnds
<1>17. \A o \in Objects : Cleared(o) \in ObjRec /\ [Cleared(o) EXCEPT !.mOwner = "ownHandle"] \in ObjRec
  BY <1>f, <1>w, ObjKinds DEF Cleared
<1>18. ASSUME NEW o \in Objects, UnflattenTooLarge(o) PROVE Typed'
  BY <1>18, <1>17, <1>t DEF Typed, UnflattenTooLarge
<1>19. ASSUME NEW o \in Objects, NEW v \in {"empty", "handle"}, NEW w \in Widths, Unflatten(o, v, w)
       PROVE  Typed'
  <2> DEFINE c == [op |-> "unflatten", verdict |-> v, width |-> w]
  <2>1. c \in Calls
    BY CallKinds
  <2>2. stale' \subseteq Objects /\ UNCHANGED <<fence, unsized>>
    BY <1>19, <1>t, <1>g DEF Unflatten
  <2> HIDE DEF c
  <2>3. CASE /\ call' = [call EXCEPT ![o] = c]
             /\ UNCHANGED <<allocVars, obj, native, lost>>
    BY <2>1, <2>2, <2>3, <1>t DEF Typed
  <2>4. CASE /\ obj[o].handle # NULL /\ ReleasedAtOnce(o)
             /\ obj' = [obj EXCEPT ![o].mWrappedBuffer = NULL]
             /\ call' = [call EXCEPT ![o] = c]
    <3>1. obj' \in [Objects -> ObjRec]
      BY <2>4, <1>t, <1>f, ObjKinds
    <3> QED BY <2>1, <2>2, <2>4, <3>1, <1>8, <1>9, <1>t DEF Typed, ReleasedAtOnce
  <2>5. CASE obj[o].handle # NULL /\ ReleaseBegins(o, c) /\ UNCHANGED obj
    BY <2>1, <2>2, <2>5, <1>10, <1>t DEF Typed
  <2> QED BY <1>19, <2>3, <2>4, <2>5 DEF Unflatten, c
<1>20. ASSUME NEW o \in Objects, UnflattenNone(o) PROVE Typed'
  <2>1. obj' \in [Objects -> ObjRec]
    BY <1>20, <1>17, <1>t DEF UnflattenNone
  <2> QED BY <1>20, <2>1, <1>t, CallKinds DEF Typed, UnflattenNone, UnflattenEnds
<1>21. ASSUME NEW o \in Objects, NEW h \in Handles, UnflattenHandle(o, h) PROVE Typed'
  <2>1. call[o].width \in Widths
    BY <1>21, <1>g, CallShape DEF UnflattenHandle, Unflattening
  <2>2. obj' \in [Objects -> ObjRec]
    <3>1. [obj[o] EXCEPT !.handle = h, !.width = call[o].width, !.mOwner = "ownHandle"] \in ObjRec
      BY <2>1, <1>f, ObjKinds
    <3>2. obj' = [obj EXCEPT ![o] = [obj[o] EXCEPT !.handle = h, !.width = call[o].width,
                                                   !.mOwner = "ownHandle"]]
      BY <1>21, <1>t DEF UnflattenHandle
    <3> QED BY <3>1, <3>2, <1>t DEF Typed
  <2> QED BY <1>21, <2>2, <1>t, CallKinds DEF Typed, UnflattenHandle, UnflattenEnds
<1>22. ASSUME NEW o \in Objects, NEW h \in Handles, UnflattenUnregistered(o, h) PROVE Typed'
  <2>1. obj' \in [Objects -> ObjRec]
    BY <1>22, <1>17, <1>t DEF UnflattenUnregistered
  <2> QED BY <1>22, <2>1, <1>t, CallKinds DEF Typed, UnflattenUnregistered, UnflattenEnds
<1>23. ASSUME NEW o \in Objects, NEW right \in Widths, NEW way \in Ways,
              NEW signaled \in BOOLEAN, LockAsync(o, right, way, signaled)
       PROVE  Typed'
  <2>1. fence' \in [open : 0..1, signaled : BOOLEAN]
    <3>1. fence.open + 1 \in 0..1
      BY <1>23 DEF LockAsync, FenceInv
    <3>2. fence' = [fence EXCEPT !.open = fence.open + 1, !.signaled = signaled]
      BY <1>23 DEF LockAsync
    <3> QED BY <3>1, <3>2, <1>t
  <2>2. call' \in [Objects -> Calls]
    BY <1>23, <1>t, CallKinds DEF LockAsync
  <2> QED BY <1>23, <2>1, <2>2, <1>t DEF Typed, LockAsync
<1>24. ASSUME NEW o \in Objects, call[o].op = "lock", LockReturns(o) PROVE Typed'
  <2>1. fence' = [open |-> 0, signaled |-> FALSE]
    <3>1. fence.open = 1
      BY <1>24 DEF FenceInv
    <3> QED BY <1>24, <3>1 DEF LockReturns
  <2>2. call' \in [Objects -> Calls]
    BY <1>24, <1>t, CallKinds DEF LockReturns
  <2> QED BY <1>24, <2>1, <2>2, <1>t DEF Typed, LockReturns
<1> QED
  BY <1>1, <1>2, <1>3, <1>4, <1>5, <1>6, <1>7, <1>11, <1>12, <1>13, <1>14, <1>15,
     <1>16, <1>18, <1>19, <1>20, <1>21, <1>22, <1>23, <1>24, NextCases

-----------------------------------------------------------------------------
(* What an action on object o leaves alone.                                *)

Others(o) ==
    \A x \in Objects \ {o} :
        obj'[x] = obj[x] /\ call'[x] = call[x] /\ listOp'[x] = listOp[x]

\* The fields of o, its call and its list update after a step.
Becomes(o, h, owner, w, b, held, c, l) ==
    /\ obj'[o].handle = h /\ obj'[o].mOwner = owner /\ obj'[o].width = w
    /\ obj'[o].mWrappedBuffer = b /\ obj'[o].held = held
    /\ call'[o] = c /\ listOp'[o] = l
    /\ Others(o)

\* The fields of an object with some of them changed.
LEMMA ObjFields ==
    /\ NoObject.handle = NULL /\ NoObject.mOwner = "none" /\ NoObject.width = 0
    /\ NoObject.mWrappedBuffer = NULL /\ NoObject.held = FALSE
    /\ \A h, owner, w, b :
          LET r == Object(h, owner, w, b)
          IN  /\ r.handle = h /\ r.mOwner = owner /\ r.width = w
              /\ r.mWrappedBuffer = b /\ r.held = TRUE
    /\ \A r \in ObjRec : \A h :
          LET e == [r EXCEPT !.handle = h]
          IN  /\ e.handle = h /\ e.mOwner = r.mOwner /\ e.width = r.width
              /\ e.mWrappedBuffer = r.mWrappedBuffer /\ e.held = r.held
    /\ \A r \in ObjRec : \A w :
          LET e == [r EXCEPT !.width = w]
          IN  /\ e.handle = r.handle /\ e.mOwner = r.mOwner /\ e.width = w
              /\ e.mWrappedBuffer = r.mWrappedBuffer /\ e.held = r.held
    /\ \A r \in ObjRec : \A h, w :
          LET e == [r EXCEPT !.handle = h, !.width = w]
          IN  /\ e.handle = h /\ e.mOwner = r.mOwner /\ e.width = w
              /\ e.mWrappedBuffer = r.mWrappedBuffer /\ e.held = r.held
    /\ \A r \in ObjRec : \A h, w, owner :
          LET e == [r EXCEPT !.handle = h, !.width = w, !.mOwner = owner]
          IN  /\ e.handle = h /\ e.mOwner = owner /\ e.width = w
              /\ e.mWrappedBuffer = r.mWrappedBuffer /\ e.held = r.held
    /\ \A r \in ObjRec : \A b :
          LET e == [r EXCEPT !.mWrappedBuffer = b]
          IN  /\ e.handle = r.handle /\ e.mOwner = r.mOwner /\ e.width = r.width
              /\ e.mWrappedBuffer = b /\ e.held = r.held
    /\ \A r \in ObjRec : \A held :
          LET e == [r EXCEPT !.held = held]
          IN  /\ e.handle = r.handle /\ e.mOwner = r.mOwner /\ e.width = r.width
              /\ e.mWrappedBuffer = r.mWrappedBuffer /\ e.held = held
    /\ \A r \in ObjRec : \A owner :
          LET e == [r EXCEPT !.mOwner = owner]
          IN  /\ e.handle = r.handle /\ e.mOwner = owner /\ e.width = r.width
              /\ e.mWrappedBuffer = r.mWrappedBuffer /\ e.held = r.held
BY DEF NoObject, Object, ObjRec

\* The types of one object.
LEMMA ObjTypes ==
    ASSUME Typed, NEW o \in Objects
    PROVE  /\ obj[o] \in ObjRec
           /\ obj[o].handle \in Handles \cup {NULL}
           /\ obj[o].mOwner \in {"none", "ownNone", "ownHandle", "ownData"}
           /\ obj[o].width \in Nat
           /\ obj[o].mWrappedBuffer \in Objects \cup {NULL}
           /\ obj[o].held \in BOOLEAN
           /\ call[o] \in Calls
           /\ listOp[o] \in ListOps
<1>1. obj[o] \in ObjRec /\ call[o] \in Calls /\ listOp[o] \in ListOps
  BY DEF Typed
<1>2. obj[o].held \in BOOLEAN
  BY <1>1 DEF ObjRec
<1> QED BY <1>1, <1>2, WidthAssumption DEF ObjRec, Widths

\* The records of o replaced.
LEMMA Replaced ==
    ASSUME Typed, NEW o \in Objects, NEW r, NEW c, NEW l,
           obj' = [obj EXCEPT ![o] = r], call' = [call EXCEPT ![o] = c],
           listOp' = [listOp EXCEPT ![o] = l]
    PROVE  obj'[o] = r /\ call'[o] = c /\ listOp'[o] = l /\ Others(o)
BY DEF Typed, Others

\* Only the fields of o replaced.
LEMMA ReplacedObj ==
    ASSUME Typed, NEW o \in Objects, NEW r, obj' = [obj EXCEPT ![o] = r],
           UNCHANGED <<call, listOp>>
    PROVE  obj'[o] = r /\ call'[o] = call[o] /\ listOp'[o] = listOp[o] /\ Others(o)
BY DEF Typed, Others

\* Only its call replaced.
LEMMA ReplacedCall ==
    ASSUME Typed, NEW o \in Objects, NEW c, call' = [call EXCEPT ![o] = c],
           UNCHANGED <<obj, listOp>>
    PROVE  obj'[o] = obj[o] /\ call'[o] = c /\ listOp'[o] = listOp[o] /\ Others(o)
BY DEF Typed, Others

\* The fields and the call of o replaced.
LEMMA ReplacedObjCall ==
    ASSUME Typed, NEW o \in Objects, NEW r, NEW c, obj' = [obj EXCEPT ![o] = r],
           call' = [call EXCEPT ![o] = c], UNCHANGED listOp
    PROVE  obj'[o] = r /\ call'[o] = c /\ listOp'[o] = listOp[o] /\ Others(o)
BY DEF Typed, Others

\* The fields of o and its list update replaced.
LEMMA ReplacedObjList ==
    ASSUME Typed, NEW o \in Objects, NEW r, NEW l, obj' = [obj EXCEPT ![o] = r],
           listOp' = [listOp EXCEPT ![o] = l], UNCHANGED call
    PROVE  obj'[o] = r /\ call'[o] = call[o] /\ listOp'[o] = l /\ Others(o)
BY DEF Typed, Others

\* What is not replaced.
LEMMA Kept ==
    ASSUME Typed, NEW o \in Objects
    PROVE  /\ obj = [obj EXCEPT ![o] = obj[o]]
           /\ call = [call EXCEPT ![o] = call[o]]
           /\ listOp = [listOp EXCEPT ![o] = listOp[o]]
BY DEF Typed

-----------------------------------------------------------------------------
(* The parts of the invariant that a step does not disturb.                *)

\* An object that a step leaves alone is as consistent as before.
LEMMA LocalFrame ==
    ASSUME LocalInv, NEW o \in Objects, Others(o), Local(o)',
           \A x \in Objects \ {o} : x \in unsized => x \in unsized'
    PROVE  LocalInv'
<1> SUFFICES ASSUME NEW x \in Objects \ {o} PROVE Local(x)'
  BY DEF LocalInv
<1>1. Local(x) /\ obj'[x] = obj[x] /\ call'[x] = call[x] /\ listOp'[x] = listOp[x]
  BY DEF LocalInv, Others
<1> QED BY <1>1 DEF Local, Exists

\* A wrapped object stays.
LEMMA WrapFrame ==
    ASSUME WrapInv, NEW o \in Objects, Others(o),
           \/ obj'[o].mWrappedBuffer \in {NULL, obj[o].mWrappedBuffer}
           \/ Ready(obj'[o].mWrappedBuffer) /\ obj'[o].mWrappedBuffer \in Objects \ {o},
           Wrappers(o) = {} \/ (obj'[o].mOwner # "none" /\ call'[o].op # "destroy"),
           \A x \in Objects : obj[x].mWrappedBuffer \in Objects \cup {NULL}
    PROVE  WrapInv'
<1> SUFFICES ASSUME NEW x \in Objects, obj'[x].mWrappedBuffer # NULL
             PROVE  /\ obj'[obj'[x].mWrappedBuffer].mOwner # "none"
                    /\ call'[obj'[x].mWrappedBuffer].op # "destroy"
  BY DEF WrapInv, Exists
<1> DEFINE b == obj'[x].mWrappedBuffer
<1>1. CASE b = obj[x].mWrappedBuffer
  <2>1. b \in Objects /\ obj[b].mOwner # "none" /\ call[b].op # "destroy"
    BY <1>1 DEF WrapInv, Exists
  <2>2. b = o => obj'[o].mOwner # "none" /\ call'[o].op # "destroy"
    BY <1>1 DEF Wrappers
  <2> QED BY <2>1, <2>2 DEF Others
<1>2. CASE b # obj[x].mWrappedBuffer
  <2>1. x = o
    BY <1>2 DEF Others
  <2>2. Ready(b) /\ b \in Objects \ {o}
    BY <1>2, <2>1
  <2>3. NoCall.op # "destroy"
    BY CallKinds
  <2> QED BY <2>2, <2>3 DEF Ready, Exists, Others
<1> QED BY <1>1, <1>2

\* No lock call begins or ends.
LEMMA FenceFrame ==
    ASSUME FenceInv, NEW o \in Objects, Others(o), UNCHANGED fence,
           call[o].op # "lock", call'[o].op # "lock"
    PROVE  FenceInv'
<1>1. \A x \in Objects : call'[x].op = "lock" <=> call[x].op = "lock"
  BY DEF Others
<1> QED BY <1>1 DEF FenceInv

\* Neither the device nor the list is used.
LEMMA ListFrame ==
    ASSUME ListInv, UNCHANGED allocVars
    PROVE  ListInv'
BY DEF ListInv, allocVars, RecordsAreCurrent, MissedOnlyByReuse, Due

-----------------------------------------------------------------------------
(* The allocation list.                                                    *)

\* The numbers and sets of the allocator.
LEMMA AllocTypes ==
    ASSUME Typed
    PROVE  /\ device \in [Handles -> Nat] /\ sAllocList \in [Handles -> Nat]
           /\ listOp \in [Objects -> ListOps]
           /\ \A c \in Objects : listOp[c].op # "none" =>
                 listOp[c].handle \in Handles /\ listOp[c].width \in Nat
<1>1. \A c \in Objects : listOp[c] \in ListOps
  BY DEF Typed
<1>2. \A c \in Objects : listOp[c].op # "none" =>
          listOp[c].handle \in Handles /\ listOp[c].width \in Nat
  BY <1>1, ListShape, WidthAssumption
<1> QED BY <1>2, WidthAssumption DEF Typed

\* The device hands out a handle: the addition is due.
LEMMA AllocStep ==
    ASSUME Typed, ListInv, NEW o \in Objects, NEW h \in Handles, NEW w \in Widths,
           DeviceAlloc(o, h, w)
    PROVE  ListInv'
<1> DEFINE a == AllocWidth(w)
<1>1. a \in Nat /\ a > 0 /\ a \in 0..MaxWidth
  BY WidthAssumption DEF AllocWidth, Widths
<1> HIDE DEF a
<1> DEFINE l == ListOp("add", h, a)
<1>2. l.op = "add" /\ l.handle = h /\ l.width = a
  BY <1>1, ListKinds
<1> HIDE DEF l
<1>3. /\ listOp[o] = NoListOp /\ device[h] = 0
      /\ device' = [device EXCEPT ![h] = a] /\ listOp' = [listOp EXCEPT ![o] = l]
      /\ UNCHANGED sAllocList
  BY DEF DeviceAlloc, a, l
<1>4. /\ listOp'[o] = l /\ \A c \in Objects \ {o} : listOp'[c] = listOp[c]
      /\ device'[h] = a /\ \A g \in Handles \ {h} : device'[g] = device[g]
  BY <1>3, AllocTypes
<1>5. listOp[o].op = "none"
  BY <1>3, ListKinds
<1>6. \A c \in Objects : listOp'[c].op = "add" =>
          listOp'[c].width > 0 /\ device'[listOp'[c].handle] = listOp'[c].width
  <2> SUFFICES ASSUME NEW c \in Objects, listOp'[c].op = "add"
               PROVE  listOp'[c].width > 0 /\ device'[listOp'[c].handle] = listOp'[c].width
    OBVIOUS
  <2>1. CASE c = o
    BY <2>1, <1>1, <1>2, <1>4
  <2>2. CASE c # o
    <3>1. /\ listOp[c].op = "add" /\ listOp[c].width > 0 /\ listOp[c].handle \in Handles
          /\ device[listOp[c].handle] = listOp[c].width
      BY <2>2, <1>4, AllocTypes DEF ListInv
    <3>2. listOp[c].handle # h
      BY <3>1, <1>3
    <3> QED BY <2>2, <3>1, <3>2, <1>4
  <2> QED BY <2>1, <2>2
<1>7. \A c \in Objects, g \in Handles : Due(c, "remove", g)' /\ device'[g] > 0 => g \in reused'
  <2> SUFFICES ASSUME NEW c \in Objects, NEW g \in Handles, Due(c, "remove", g)', device'[g] > 0
               PROVE  g \in reused'
    OBVIOUS
  <2>1. c # o /\ Due(c, "remove", g)
    BY <1>2, <1>4 DEF Due
  <2>2. CASE g = h
    BY <2>1, <2>2 DEF DeviceAlloc, Objects
  <2>3. CASE g # h
    <3>1. g \in reused
      BY <2>1, <2>3, <1>4 DEF ListInv
    <3> QED BY <2>3, <3>1 DEF DeviceAlloc
  <2> QED BY <2>2, <2>3
<1>8. \A c \in Objects : \A op, g : Due(c, op, g) /\ op # "none" => Due(c, op, g)'
  BY <1>4, <1>5 DEF Due
<1>9. Due(o, "add", h)'
  BY <1>2, <1>4 DEF Due
<1>10. RecordsAreCurrent'
  BY <1>3, <1>4, <1>8, <1>9 DEF ListInv, RecordsAreCurrent, Objects
<1>11. MissedOnlyByReuse'
  <2> SUFFICES ASSUME NEW g \in Handles, device'[g] > 0, sAllocList'[g] = 0
               PROVE  g \in reused' \/ \E c \in Callers : Due(c, "add", g)'
    BY DEF MissedOnlyByReuse
  <2>1. CASE g = h
    BY <2>1, <1>9 DEF Objects
  <2>2. CASE g # h
    <3>1. g \in reused \/ \E c \in Callers : Due(c, "add", g)
      BY <2>2, <1>3, <1>4 DEF ListInv, MissedOnlyByReuse
    <3> QED BY <2>2, <3>1, <1>8 DEF DeviceAlloc, Objects
  <2> QED BY <2>1, <2>2
<1> QED BY <1>6, <1>7, <1>10, <1>11 DEF ListInv

\* The device takes a handle back that nobody is about to add: the removal is
\* due.
LEMMA FreeStep ==
    ASSUME Typed, ListInv, NEW o \in Objects, NEW h \in Handles, DeviceFree(o, h),
           \A c \in Objects : ~Due(c, "add", h)
    PROVE  ListInv'
<1> DEFINE l == ListOp("remove", h, 0)
<1>2. l.op = "remove" /\ l.handle = h
  BY ListKinds, WidthAssumption
<1> HIDE DEF l
<1>3. /\ listOp[o] = NoListOp /\ device' = [device EXCEPT ![h] = 0]
      /\ listOp' = [listOp EXCEPT ![o] = l] /\ reused' = reused \ {h}
      /\ UNCHANGED sAllocList
  BY DEF DeviceFree, l
<1>4. /\ listOp'[o] = l /\ \A c \in Objects \ {o} : listOp'[c] = listOp[c]
      /\ device'[h] = 0 /\ \A g \in Handles \ {h} : device'[g] = device[g]
  BY <1>3, AllocTypes
<1>5. listOp[o].op = "none"
  BY <1>3, ListKinds
<1>6. \A c \in Objects : listOp'[c].op = "add" =>
          listOp'[c].width > 0 /\ device'[listOp'[c].handle] = listOp'[c].width
  <2> SUFFICES ASSUME NEW c \in Objects, listOp'[c].op = "add"
               PROVE  listOp'[c].width > 0 /\ device'[listOp'[c].handle] = listOp'[c].width
    OBVIOUS
  <2>1. c # o
    BY <1>2, <1>4
  <2>2. /\ listOp[c].op = "add" /\ listOp[c].width > 0 /\ listOp[c].handle \in Handles
        /\ device[listOp[c].handle] = listOp[c].width
    BY <2>1, <1>4, AllocTypes DEF ListInv
  <2>3. listOp[c].handle # h
    BY <2>2 DEF Due
  <2> QED BY <2>1, <2>2, <2>3, <1>4
<1>7. \A c \in Objects, g \in Handles : Due(c, "remove", g)' /\ device'[g] > 0 => g \in reused'
  <2> SUFFICES ASSUME NEW c \in Objects, NEW g \in Handles, Due(c, "remove", g)', device'[g] > 0
               PROVE  g \in reused'
    OBVIOUS
  <2>1. g # h
    BY <1>4
  <2>2. c # o /\ Due(c, "remove", g)
    BY <2>1, <1>2, <1>4 DEF Due
  <2> QED BY <2>1, <2>2, <1>3, <1>4 DEF ListInv
<1>8. \A c \in Objects : \A op, g : Due(c, op, g) /\ op # "none" => Due(c, op, g)'
  BY <1>4, <1>5 DEF Due
<1>9. Due(o, "remove", h)'
  BY <1>2, <1>4 DEF Due
<1>10. RecordsAreCurrent'
  BY <1>3, <1>4, <1>8, <1>9 DEF ListInv, RecordsAreCurrent, Objects
<1>11. MissedOnlyByReuse'
  BY <1>3, <1>4, <1>8 DEF ListInv, MissedOnlyByReuse, Objects
<1> QED BY <1>6, <1>7, <1>10, <1>11 DEF ListInv

\* A due update is made: the list agrees with the device, or another update
\* is due.
LEMMA UpdateStep ==
    ASSUME Typed, ListInv, NEW o \in Objects, ListAdd(o) \/ ListRemove(o)
    PROVE  ListInv'
<1> DEFINE h == listOp[o].handle
           w == IF listOp[o].op = "add" THEN listOp[o].width ELSE 0
<1>1. listOp[o].op \in {"add", "remove"} /\ h \in Handles /\ w \in Nat
  BY AllocTypes DEF ListAdd, ListRemove
<1>2. /\ sAllocList' = [sAllocList EXCEPT ![h] = w]
      /\ listOp' = [listOp EXCEPT ![o] = NoListOp]
      /\ UNCHANGED <<device, reused>>
  BY DEF ListAdd, ListRemove
<1>3. listOp[o].op = "add" => w > 0 /\ device[h] = w
  BY DEF ListInv
<1>4. listOp[o].op = "remove" => w = 0 /\ (device[h] > 0 => h \in reused)
  BY <1>1 DEF ListInv, Due
<1> HIDE DEF w
<1>5. /\ listOp'[o] = NoListOp /\ \A c \in Objects \ {o} : listOp'[c] = listOp[c]
      /\ sAllocList'[h] = w /\ \A g \in Handles \ {h} : sAllocList'[g] = sAllocList[g]
  BY <1>1, <1>2, AllocTypes
<1>6. listOp'[o].op = "none"
  BY <1>5, ListKinds
<1>7. \A c \in Objects : listOp'[c].op = "add" =>
          listOp'[c].width > 0 /\ device'[listOp'[c].handle] = listOp'[c].width
  BY <1>2, <1>5, <1>6 DEF ListInv
<1>8. \A c \in Objects, g \in Handles : Due(c, "remove", g)' /\ device'[g] > 0 => g \in reused'
  BY <1>2, <1>5, <1>6 DEF ListInv, Due
<1>9. \A c \in Objects, g \in Handles \ {h} : \A op : Due(c, op, g) => Due(c, op, g)'
  BY <1>5 DEF Due
<1>10. RecordsAreCurrent'
  <2> SUFFICES ASSUME NEW g \in Handles, sAllocList'[g] \notin {0, device'[g]}
               PROVE  \E c \in Callers : Due(c, "remove", g)' \/ Due(c, "add", g)'
    BY DEF RecordsAreCurrent
  <2>1. g # h
    BY <1>1, <1>2, <1>3, <1>4, <1>5
  <2> QED BY <2>1, <1>2, <1>5, <1>9 DEF ListInv, RecordsAreCurrent, Objects
<1>11. MissedOnlyByReuse'
  <2> SUFFICES ASSUME NEW g \in Handles, device'[g] > 0, sAllocList'[g] = 0
               PROVE  g \in reused' \/ \E c \in Callers : Due(c, "add", g)'
    BY DEF MissedOnlyByReuse
  <2>1. CASE g = h
    BY <2>1, <1>1, <1>2, <1>3, <1>4, <1>5
  <2>2. CASE g # h
    BY <2>2, <1>2, <1>5, <1>9 DEF ListInv, MissedOnlyByReuse, Objects
  <2> QED BY <2>1, <2>2
<1> QED BY <1>7, <1>8, <1>10, <1>11 DEF ListInv

-----------------------------------------------------------------------------
(* Chains of references.                                                   *)

\* Who holds a reference on who.
LEMMA AboveClosed ==
    ASSUME NEW o \in Objects
    PROVE  /\ Above(o) \subseteq Objects
           /\ Wrappers(o) \subseteq Above(o)
           /\ \A y \in Above(o) : Wrappers(y) \subseteq Above(o)
<1>1. \A y : Wrappers(y) \subseteq Objects
  BY DEF Wrappers
<1> QED BY <1>1 DEF Above

\* Above(o) is the least set of this kind.
LEMMA AboveLeast ==
    ASSUME NEW o \in Objects, NEW S \in SUBSET Objects, Wrappers(o) \subseteq S,
           \A y \in S : Wrappers(y) \subseteq S
    PROVE  Above(o) \subseteq S
BY DEF Above

\* The same references, the same chains.
LEMMA AboveSame ==
    ASSUME \A x \in Objects : obj'[x].mWrappedBuffer = obj[x].mWrappedBuffer
    PROVE  \A p \in Objects : Above(p)' = Above(p)
<1>1. \A y : Wrappers(y)' = Wrappers(y)
  BY DEF Wrappers
<1> QED BY <1>1 DEF Above

\* A new reference ends no chain.
LEMMA AboveGrows ==
    ASSUME NEW o \in Objects, Others(o), obj[o].mWrappedBuffer = NULL, NEW p \in Objects
    PROVE  Above(p) \subseteq Above(p)'
<1>1. \A y \in Objects : Wrappers(y) \subseteq Wrappers(y)'
  BY NullAssumption DEF Wrappers, Others
<1> QED BY <1>1 DEF Above

\* When o drops its reference only the chains through o end.
LEMMA AboveShrinks ==
    ASSUME NEW o \in Objects, Others(o), NEW p \in Objects
    PROVE  Above(p) \subseteq Above(p)' \cup {o} \cup Above(o)
<1>1. \A y \in Objects : Wrappers(y) \subseteq Wrappers(y)' \cup {o}
  BY DEF Wrappers, Others
<1> SUFFICES ASSUME NEW x \in Above(p), x # o, x \notin Above(o),
                    NEW S \in SUBSET Objects, Wrappers(p)' \subseteq S,
                    \A y \in S : Wrappers(y)' \subseteq S
             PROVE  x \in S
  <2>1. Above(p) \subseteq Objects
    BY DEF Above
  <2> QED BY <2>1 DEF Above
<1> DEFINE T == S \cup {o} \cup Above(o)
<1>2. T \in SUBSET Objects
  BY DEF Above
<1>3. Wrappers(p) \subseteq T
  BY <1>1
<1>4. \A y \in T : Wrappers(y) \subseteq T
  BY <1>1, AboveClosed
<1>5. Above(p) \subseteq T
  BY <1>2, <1>3, <1>4, AboveLeast
<1> QED BY <1>5

\* Nobody is above an object that nobody wraps.
LEMMA AboveEmpty ==
    ASSUME NEW o \in Objects, Wrappers(o) = {}
    PROVE  Above(o) = {}
BY AboveLeast

-----------------------------------------------------------------------------
(* Who relies on a handle and who releases it.                             *)

\* An object that a step leaves alone relies on what it did.
LEMMA ViewFrame ==
    ASSUME NEW x \in Objects, obj'[x] = obj[x], call'[x] = call[x], listOp'[x] = listOp[x]
    PROVE  /\ Released(x)' <=> Released(x)
           /\ \A h : Names(x, h)' <=> Names(x, h)
           /\ \A h : Holds(x, h)' <=> Holds(x, h)
BY DEF Released, Names, Holds, Owns

\* Who holds a handle relies on it.
LEMMA HolderNames ==
    ASSUME NEW x, NEW h, Holds(x, h)
    PROVE  Names(x, h) /\ obj[x].mOwner \in {"ownData", "ownHandle"}
BY DEF Holds, Names, Owns

\* Nobody holds an address that is in use for nothing, and nobody relies on
\* it who may.
LEMMA UnusedHeld ==
    ASSUME OwnInv, NEW h \in Handles, Unused(h)
    PROVE  /\ \A x \in Objects : ~Holds(x, h)
           /\ \A x \in Objects \ stale : ~Names(x, h)
BY DEF OwnInv, HoldInv, ReachInv, Unused, Live

\* Nobody starts or ceases to rely on a handle; a client imports one, or one
\* is made and lost.
LEMMA OwnFrame ==
    ASSUME Typed, OwnInv, UNCHANGED device, lost \subseteq lost',
           \A x \in Objects, h \in Handles :
              /\ Names(x, h)' <=> Names(x, h)
              /\ Holds(x, h)' <=> Holds(x, h)
              /\ Holds(x, h) => obj'[x].mOwner = obj[x].mOwner,
           \A x \in Objects : obj'[x].mWrappedBuffer = obj[x].mWrappedBuffer,
           \A x \in Objects, h \in Handles : Names(x, h) /\ x \in stale => x \in stale',
           \A h \in Handles : \/ native'[h] = native[h]
                              \/ Unused(h) /\ native'[h] = "client"
                              \/ Unused(h) /\ native'[h] = "made" /\ h \in lost'
    PROVE  OwnInv'
<1>1. HoldInv'
  <2>1. \A h \in Handles : device'[h] > 0 => native'[h] = "free"
    BY DEF OwnInv, HoldInv, Unused, Typed
  <2>2. ASSUME NEW o \in Objects, NEW h \in Handles, Holds(o, h)'
        PROVE  IF obj'[o].mOwner = "ownData" THEN device'[h] > 0 ELSE native'[h] # "free"
    BY <2>2 DEF OwnInv, HoldInv
  <2>3. \A o, p \in Objects, h \in Handles : Holds(o, h)' /\ Holds(p, h)' => o = p
    BY DEF OwnInv, HoldInv
  <2> QED BY <2>1, <2>2, <2>3 DEF HoldInv
<1>2. LostInv'
  BY DEF OwnInv, LostInv, Typed
<1>3. ReachInv'
  <2> SUFFICES ASSUME NEW o \in Objects \ stale', NEW h \in Handles, Names(o, h)'
               PROVE  /\ device'[h] > 0 \/ native'[h] # "free"
                      /\ \A p \in Objects : Holds(p, h)' => o = p \/ o \in Above(p)'
    BY DEF ReachInv, Live
  <2>1. o \notin stale /\ Names(o, h)
    OBVIOUS
  <2>2. Live(h) /\ \A p \in Objects : Holds(p, h) => o = p \/ o \in Above(p)
    BY <2>1 DEF OwnInv, ReachInv
  <2>3. \A p \in Objects : Above(p)' = Above(p)
    BY AboveSame
  <2> QED BY <2>2, <2>3 DEF Live
<1> QED BY <1>1, <1>2, <1>3 DEF OwnInv

\* o lets go of its handle without releasing it.
LEMMA OwnLoses ==
    ASSUME OwnInv, NEW o \in Objects, Others(o), UNCHANGED <<device, native>>,
           lost \subseteq lost', \A h \in Handles : Holds(o, h) => h \in lost',
           \A h \in Handles : ~Names(o, h)',
           \/ obj'[o].mWrappedBuffer = obj[o].mWrappedBuffer
           \/ Above(o) \subseteq stale',
           \A x \in Objects \ {o} : x \in stale => x \in stale'
    PROVE  OwnInv'
<1>1. \A x \in Objects \ {o} : \A h : /\ Names(x, h)' <=> Names(x, h)
                                      /\ Holds(x, h)' <=> Holds(x, h)
                                      /\ obj'[x] = obj[x]
  BY ViewFrame DEF Others
<1>2. \A h \in Handles : ~Holds(o, h)'
  BY DEF Holds, Names, Owns
<1>3. HoldInv'
  <2>1. \A h \in Handles : device'[h] > 0 => native'[h] = "free"
    BY DEF OwnInv, HoldInv
  <2>2. ASSUME NEW x \in Objects, NEW h \in Handles, Holds(x, h)'
        PROVE  IF obj'[x].mOwner = "ownData" THEN device'[h] > 0 ELSE native'[h] # "free"
    BY <2>2, <1>1, <1>2 DEF OwnInv, HoldInv
  <2>3. \A x, p \in Objects, h \in Handles : Holds(x, h)' /\ Holds(p, h)' => x = p
    BY <1>1, <1>2 DEF OwnInv, HoldInv
  <2> QED BY <2>1, <2>2, <2>3 DEF HoldInv
<1>4. LostInv'
  BY <1>1 DEF OwnInv, LostInv
<1>5. ReachInv'
  <2> SUFFICES ASSUME NEW x \in Objects \ stale', NEW h \in Handles, Names(x, h)'
               PROVE  /\ device'[h] > 0 \/ native'[h] # "free"
                      /\ \A p \in Objects : Holds(p, h)' => x = p \/ x \in Above(p)'
    BY DEF ReachInv, Live
  <2>1. x # o /\ x \notin stale /\ Names(x, h)
    BY <1>1
  <2>2. Live(h) /\ \A p \in Objects : Holds(p, h) => x = p \/ x \in Above(p)
    BY <2>1 DEF OwnInv, ReachInv
  <2>3. ASSUME NEW p \in Objects, Holds(p, h)' PROVE x = p \/ x \in Above(p)'
    <3>1. Holds(p, h)
      BY <2>3, <1>1, <1>2
    <3>2. CASE obj'[o].mWrappedBuffer = obj[o].mWrappedBuffer
      <4>1. \A y \in Objects : obj'[y].mWrappedBuffer = obj[y].mWrappedBuffer
        BY <3>2, <1>1
      <4> QED BY <4>1, <3>1, <2>2, AboveSame
    <3>3. CASE Above(o) \subseteq stale'
      BY <3>1, <3>3, <2>1, <2>2, AboveShrinks
    <3> QED BY <3>2, <3>3
  <2> QED BY <2>2, <2>3 DEF Live
<1> QED BY <1>3, <1>4, <1>5 DEF OwnInv

\* o releases the handle it holds, and everybody above it is warned.
LEMMA OwnReleases ==
    ASSUME Typed, OwnInv, NEW o \in Objects, NEW g \in Handles, Holds(o, g), Others(o),
           \/ /\ obj[o].mOwner = "ownData"
              /\ device' = [device EXCEPT ![g] = 0] /\ UNCHANGED native
           \/ /\ obj[o].mOwner = "ownHandle"
              /\ native' = [native EXCEPT ![g] = "free"] /\ UNCHANGED device,
           UNCHANGED lost, \A h \in Handles : ~Names(o, h)', Above(o) \subseteq stale',
           \A x \in Objects \ {o} : x \in stale => x \in stale'
    PROVE  OwnInv'
<1>1. \A x \in Objects \ {o} : \A h : /\ Names(x, h)' <=> Names(x, h)
                                      /\ Holds(x, h)' <=> Holds(x, h)
                                      /\ obj'[x] = obj[x]
  BY ViewFrame DEF Others
<1>2. \A h \in Handles : ~Holds(o, h)'
  BY DEF Holds, Names, Owns
<1>3. /\ \A h \in Handles \ {g} : device'[h] = device[h] /\ native'[h] = native[h]
      /\ \A h \in Handles : device[h] \in Nat
  BY WidthAssumption DEF Typed
<1>4. device'[g] = 0 /\ native'[g] = "free"
  <2>1. obj[o].mOwner = "ownData" => device[g] > 0 /\ native[g] = "free"
    BY DEF OwnInv, HoldInv
  <2>2. obj[o].mOwner = "ownHandle" => native[g] # "free" /\ device[g] = 0
    BY <1>3 DEF OwnInv, HoldInv
  <2> QED BY <2>1, <2>2 DEF Typed
<1>5. \A x \in Objects : ~Holds(x, g)'
  BY <1>1, <1>2 DEF OwnInv, HoldInv
<1>6. HoldInv'
  <2>1. \A h \in Handles : device'[h] > 0 => native'[h] = "free"
    BY <1>3, <1>4 DEF OwnInv, HoldInv
  <2>2. ASSUME NEW x \in Objects, NEW h \in Handles, Holds(x, h)'
        PROVE  IF obj'[x].mOwner = "ownData" THEN device'[h] > 0 ELSE native'[h] # "free"
    <3>1. h # g /\ x # o /\ Holds(x, h)
      BY <2>2, <1>1, <1>2, <1>5
    <3> QED BY <3>1, <1>1, <1>3 DEF OwnInv, HoldInv
  <2>3. \A x, p \in Objects, h \in Handles : Holds(x, h)' /\ Holds(p, h)' => x = p
    BY <1>1, <1>2 DEF OwnInv, HoldInv
  <2> QED BY <2>1, <2>2, <2>3 DEF HoldInv
<1>7. LostInv'
  <2> SUFFICES ASSUME NEW h \in Handles \ lost', device'[h] > 0 \/ native'[h] = "made"
               PROVE  \E x \in Objects : Holds(x, h)'
    BY DEF LostInv
  <2>1. h # g
    BY <1>4
  <2>2. PICK x \in Objects : Holds(x, h)
    BY <2>1, <1>3 DEF OwnInv, LostInv
  <2>3. x # o
    BY <2>1, <2>2 DEF Holds, Owns
  <2> QED BY <2>2, <2>3, <1>1
<1>8. ReachInv'
  <2> SUFFICES ASSUME NEW x \in Objects \ stale', NEW h \in Handles, Names(x, h)'
               PROVE  /\ device'[h] > 0 \/ native'[h] # "free"
                      /\ \A p \in Objects : Holds(p, h)' => x = p \/ x \in Above(p)'
    BY DEF ReachInv, Live
  <2>1. x # o /\ x \notin stale /\ Names(x, h)
    BY <1>1
  <2>2. Live(h) /\ \A p \in Objects : Holds(p, h) => x = p \/ x \in Above(p)
    BY <2>1 DEF OwnInv, ReachInv
  <2>3. h # g
    BY <2>1, <2>2
  <2>4. ASSUME NEW p \in Objects, Holds(p, h)' PROVE x = p \/ x \in Above(p)'
    <3>1. Holds(p, h)
      BY <2>4, <1>1, <1>2
    <3> QED BY <3>1, <2>1, <2>2, AboveShrinks
  <2> QED BY <2>2, <2>3, <2>4, <1>3 DEF Live
<1> QED BY <1>6, <1>7, <1>8 DEF OwnInv

\* o gets a handle that was in use for nothing.
LEMMA OwnTakes ==
    ASSUME Typed, OwnInv, NEW o \in Objects, NEW g \in Handles, Unused(g), Others(o),
           \A h \in Handles : ~Names(o, h), Holds(o, g)',
           \A h \in Handles \ {g} : ~Names(o, h)',
           \/ /\ obj'[o].mOwner = "ownData" /\ UNCHANGED native
              /\ \E w \in Nat \ {0} : device' = [device EXCEPT ![g] = w]
           \/ /\ obj'[o].mOwner = "ownHandle" /\ UNCHANGED device
              /\ native' = [native EXCEPT ![g] = "made"],
           UNCHANGED lost, obj'[o].mWrappedBuffer = obj[o].mWrappedBuffer,
           \A x \in Objects \ {o} : x \in stale => x \in stale'
    PROVE  OwnInv'
<1>1. \A x \in Objects \ {o} : \A h : /\ Names(x, h)' <=> Names(x, h)
                                      /\ Holds(x, h)' <=> Holds(x, h)
                                      /\ obj'[x] = obj[x]
  BY ViewFrame DEF Others
<1>2. \A h \in Handles \ {g} : ~Holds(o, h)'
  BY DEF Holds, Names, Owns
<1>3. \A h \in Handles : ~Holds(o, h)
  BY HolderNames
<1>4. /\ \A h \in Handles \ {g} : device'[h] = device[h] /\ native'[h] = native[h]
      /\ IF obj'[o].mOwner = "ownData" THEN device'[g] > 0 /\ native'[g] = "free"
                                       ELSE native'[g] = "made" /\ device'[g] = 0
  BY DEF Typed, Unused
<1>5. /\ \A x \in Objects : ~Holds(x, g)
      /\ \A x \in Objects \ stale : ~Names(x, g)
  BY UnusedHeld
<1>6. HoldInv'
  <2>1. \A h \in Handles : device'[h] > 0 => native'[h] = "free"
    BY <1>4 DEF OwnInv, HoldInv
  <2>2. ASSUME NEW x \in Objects, NEW h \in Handles, Holds(x, h)'
        PROVE  IF obj'[x].mOwner = "ownData" THEN device'[h] > 0 ELSE native'[h] # "free"
    <3>1. CASE x = o
      BY <2>2, <3>1, <1>2, <1>4
    <3>2. CASE x # o
      <4>1. Holds(x, h) /\ h # g
        BY <2>2, <3>2, <1>1, <1>5
      <4> QED BY <3>2, <4>1, <1>1, <1>4 DEF OwnInv, HoldInv
    <3> QED BY <3>1, <3>2
  <2>3. \A x, p \in Objects, h \in Handles : Holds(x, h)' /\ Holds(p, h)' => x = p
    BY <1>1, <1>2, <1>5 DEF OwnInv, HoldInv
  <2> QED BY <2>1, <2>2, <2>3 DEF HoldInv
<1>7. LostInv'
  <2> SUFFICES ASSUME NEW h \in Handles \ lost', device'[h] > 0 \/ native'[h] = "made", h # g
               PROVE  \E x \in Objects : Holds(x, h)'
    BY DEF LostInv
  <2>1. PICK x \in Objects : Holds(x, h)
    BY <1>4 DEF OwnInv, LostInv
  <2> QED BY <2>1, <1>1, <1>3
<1>8. ReachInv'
  <2> SUFFICES ASSUME NEW x \in Objects \ stale', NEW h \in Handles, Names(x, h)'
               PROVE  /\ device'[h] > 0 \/ native'[h] # "free"
                      /\ \A p \in Objects : Holds(p, h)' => x = p \/ x \in Above(p)'
    BY DEF ReachInv, Live
  <2>1. CASE x = o
    <3>1. h = g
      BY <2>1
    <3>2. \A p \in Objects : Holds(p, h)' => p = o
      BY <3>1, <1>1, <1>5
    <3> QED BY <2>1, <3>1, <3>2, <1>4
  <2>2. CASE x # o
    <3>1. x \notin stale /\ Names(x, h)
      BY <2>2, <1>1
    <3>2. h # g
      BY <3>1, <1>5
    <3>3. Live(h) /\ \A p \in Objects : Holds(p, h) => x = p \/ x \in Above(p)
      BY <3>1 DEF OwnInv, ReachInv
    <3>4. \A p \in Objects : Holds(p, h)' => Holds(p, h)
      BY <3>2, <1>1, <1>2
    <3>5. \A y \in Objects : obj'[y].mWrappedBuffer = obj[y].mWrappedBuffer
      BY <1>1
    <3>6. \A p \in Objects : Above(p)' = Above(p)
      BY <3>5, AboveSame
    <3> QED BY <3>2, <3>3, <3>4, <3>6, <1>4 DEF Live
  <2> QED BY <2>1, <2>2
<1> QED BY <1>6, <1>7, <1>8 DEF OwnInv


\* An object that does not exist relies on nothing and is wrapped by nobody.
LEMMA Nobody ==
    ASSUME Typed, LocalInv, WrapInv, NEW o \in Objects, ~Exists(o)
    PROVE  /\ \A h \in Handles : ~Names(o, h) /\ ~Holds(o, h)
           /\ obj[o].mWrappedBuffer = NULL /\ call[o] = NoCall
           /\ listOp[o] = NoListOp /\ Wrappers(o) = {}
<1>1. /\ obj[o].handle = NULL /\ obj[o].mWrappedBuffer = NULL /\ call[o] = NoCall
      /\ listOp[o] = NoListOp
  BY CallKinds DEF LocalInv, Local
<1>2. Wrappers(o) = {}
  BY NullAssumption DEF WrapInv, Wrappers
<1> QED BY <1>1, <1>2, NullAssumption DEF Names, Holds, Owns

\* A new object becomes the owner of a handle that nobody owned, and everybody
\* who named it is warned.
LEMMA OwnGiven ==
    ASSUME Typed, OwnInv, NEW o \in Objects, Others(o), obj[o].mWrappedBuffer = NULL,
           \A h \in Handles : ~Names(o, h),
           NEW g \in Handles, Givable(g), Holds(o, g)', obj'[o].mOwner = "ownHandle",
           \A h \in Handles \ {g} : ~Names(o, h)',
           UNCHANGED <<device, native, lost>>,
           stale \cup Naming(g) \subseteq stale'
    PROVE  OwnInv'
<1>1. \A x \in Objects \ {o} : \A h : /\ Names(x, h)' <=> Names(x, h)
                                      /\ Holds(x, h)' <=> Holds(x, h)
                                      /\ obj'[x] = obj[x]
  BY ViewFrame DEF Others
<1>2. \A h \in Handles \ {g} : ~Holds(o, h)'
  BY DEF Holds, Names, Owns
<1>3. \A h \in Handles : ~Holds(o, h)
  BY HolderNames
<1>4. native[g] = "client" /\ \A x \in Objects : ~Holds(x, g)
  BY DEF Givable, Holds
<1>5. HoldInv'
  <2>1. \A h \in Handles : device'[h] > 0 => native'[h] = "free"
    BY DEF OwnInv, HoldInv
  <2>2. ASSUME NEW x \in Objects, NEW h \in Handles, Holds(x, h)'
        PROVE  IF obj'[x].mOwner = "ownData" THEN device'[h] > 0 ELSE native'[h] # "free"
    <3>1. CASE x = o
      BY <2>2, <3>1, <1>2, <1>4
    <3>2. CASE x # o
      BY <2>2, <3>2, <1>1 DEF OwnInv, HoldInv
    <3> QED BY <3>1, <3>2
  <2>3. \A x, p \in Objects, h \in Handles : Holds(x, h)' /\ Holds(p, h)' => x = p
    BY <1>1, <1>2, <1>4 DEF OwnInv, HoldInv
  <2> QED BY <2>1, <2>2, <2>3 DEF HoldInv
<1>6. LostInv'
  <2> SUFFICES ASSUME NEW h \in Handles \ lost', device'[h] > 0 \/ native'[h] = "made"
               PROVE  \E x \in Objects : Holds(x, h)'
    BY DEF LostInv
  <2>1. PICK x \in Objects : Holds(x, h)
    BY DEF OwnInv, LostInv
  <2> QED BY <2>1, <1>1, <1>3
<1>7. ReachInv'
  <2> SUFFICES ASSUME NEW x \in Objects \ stale', NEW h \in Handles, Names(x, h)'
               PROVE  /\ device'[h] > 0 \/ native'[h] # "free"
                      /\ \A p \in Objects : Holds(p, h)' => x = p \/ x \in Above(p)'
    BY DEF ReachInv, Live
  <2>1. CASE x = o
    <3>1. h = g
      BY <2>1
    <3>2. \A p \in Objects : Holds(p, h)' => p = o
      BY <3>1, <1>1, <1>4
    <3> QED BY <2>1, <3>1, <3>2, <1>4
  <2>2. CASE x # o
    <3>1. x \notin stale /\ Names(x, h)
      BY <2>2, <1>1
    <3>2. h # g
      BY <3>1 DEF Names, Naming
    <3>3. Live(h) /\ \A p \in Objects : Holds(p, h) => x = p \/ x \in Above(p)
      BY <3>1 DEF OwnInv, ReachInv
    <3>4. \A p \in Objects : Holds(p, h)' => Holds(p, h)
      BY <3>2, <1>1, <1>2
    <3> QED BY <3>3, <3>4, AboveGrows DEF Live
  <2> QED BY <2>1, <2>2
<1> QED BY <1>5, <1>6, <1>7 DEF OwnInv

\* A new object names the handle of an object it wraps, or one that nobody
\* owns.
LEMMA OwnBorrowed ==
    ASSUME Typed, OwnInv, NEW o \in Objects, Others(o), obj[o].mWrappedBuffer = NULL,
           \A h \in Handles : ~Names(o, h),
           obj'[o].mOwner = "ownNone", UNCHANGED <<device, native, lost>>,
           stale \subseteq stale',
           NEW g, \A h \in Handles \ {g} : ~Names(o, h)',
           \/ Givable(g)
           \/ \E b \in Objects \ {o} : /\ obj'[o].mWrappedBuffer = b
                                       /\ g \in Handles => Names(b, g)
                                       /\ b \in stale => o \in stale'
    PROVE  OwnInv'
<1>1. \A x \in Objects \ {o} : \A h : /\ Names(x, h)' <=> Names(x, h)
                                      /\ Holds(x, h)' <=> Holds(x, h)
                                      /\ obj'[x] = obj[x]
  BY ViewFrame DEF Others
<1>2. \A h \in Handles : ~Holds(o, h)'
  BY DEF Holds, Owns
<1>3. \A h \in Handles : ~Holds(o, h)
  BY HolderNames
<1>4. HoldInv'
  <2>1. \A h \in Handles : device'[h] > 0 => native'[h] = "free"
    BY DEF OwnInv, HoldInv
  <2>2. ASSUME NEW x \in Objects, NEW h \in Handles, Holds(x, h)'
        PROVE  IF obj'[x].mOwner = "ownData" THEN device'[h] > 0 ELSE native'[h] # "free"
    BY <2>2, <1>1, <1>2 DEF OwnInv, HoldInv
  <2>3. \A x, p \in Objects, h \in Handles : Holds(x, h)' /\ Holds(p, h)' => x = p
    BY <1>1, <1>2 DEF OwnInv, HoldInv
  <2> QED BY <2>1, <2>2, <2>3 DEF HoldInv
<1>5. LostInv'
  <2> SUFFICES ASSUME NEW h \in Handles \ lost', device'[h] > 0 \/ native'[h] = "made"
               PROVE  \E x \in Objects : Holds(x, h)'
    BY DEF LostInv
  <2>1. PICK x \in Objects : Holds(x, h)
    BY DEF OwnInv, LostInv
  <2> QED BY <2>1, <1>1, <1>3
<1>6. ReachInv'
  <2> SUFFICES ASSUME NEW x \in Objects \ stale', NEW h \in Handles, Names(x, h)'
               PROVE  /\ device'[h] > 0 \/ native'[h] # "free"
                      /\ \A p \in Objects : Holds(p, h)' => x = p \/ x \in Above(p)'
    BY DEF ReachInv, Live
  <2>1. \A p \in Objects : Holds(p, h)' => p # o /\ Holds(p, h)
    BY <1>1, <1>2
  <2>2. CASE x # o
    <3>1. x \notin stale /\ Names(x, h)
      BY <2>2, <1>1
    <3>2. Live(h) /\ \A p \in Objects : Holds(p, h) => x = p \/ x \in Above(p)
      BY <3>1 DEF OwnInv, ReachInv
    <3> QED BY <3>2, <2>1, AboveGrows DEF Live
  <2>3. CASE x = o /\ Givable(g)
    <3>1. h = g
      BY <2>3
    <3>2. native[h] = "client" /\ \A p \in Objects : ~Holds(p, h)
      BY <2>3, <3>1 DEF Givable, Holds
    <3> QED BY <3>2, <2>1
  <2>4. ASSUME x = o, NEW b \in Objects \ {o}, obj'[o].mWrappedBuffer = b,
               g \in Handles => Names(b, g), b \in stale => o \in stale'
        PROVE  /\ device'[h] > 0 \/ native'[h] # "free"
               /\ \A p \in Objects : Holds(p, h)' => x = p \/ x \in Above(p)'
    <3>1. h = g /\ b \notin stale /\ Names(b, h)
      BY <2>4
    <3>2. Live(h) /\ \A p \in Objects : Holds(p, h) => b = p \/ b \in Above(p)
      BY <3>1 DEF OwnInv, ReachInv
    <3>3. o \in Wrappers(b)'
      BY <2>4 DEF Wrappers
    <3>4. \A p \in Objects : b = p \/ b \in Above(p) => o \in Above(p)'
      <4> SUFFICES ASSUME NEW p \in Objects, b = p \/ b \in Above(p)'
                   PROVE  o \in Above(p)'
        BY AboveGrows
      <4> QED BY <3>3 DEF Above
    <3> QED BY <2>1, <2>4, <3>2, <3>4 DEF Live
  <2> QED BY <2>2, <2>3, <2>4
<1> QED BY <1>4, <1>5, <1>6 DEF OwnInv

\* The client closes a handle that nobody names.
LEMMA OwnClosed ==
    ASSUME Typed, OwnInv, NEW g \in Handles, ClientCloses(g)
    PROVE  OwnInv'
<1>1. /\ native[g] = "client" /\ \A x \in Objects : ~Names(x, g) /\ ~Holds(x, g)
      /\ native' = [native EXCEPT ![g] = "free"]
      /\ UNCHANGED <<device, obj, call, listOp, lost, stale>>
  BY DEF ClientCloses, Givable, Naming, Names, Holds, Owns, allocVars
<1>2. \A x \in Objects : \A h : /\ Names(x, h)' <=> Names(x, h)
                                /\ Holds(x, h)' <=> Holds(x, h)
  BY <1>1, ViewFrame
<1>3. \A h \in Handles \ {g} : native'[h] = native[h]
  BY <1>1 DEF Typed
<1>4. \A p \in Objects : Above(p)' = Above(p)
  BY <1>1, AboveSame
<1>5. HoldInv'
  <2>1. \A h \in Handles : device'[h] > 0 => native'[h] = "free"
    BY <1>1, <1>3 DEF OwnInv, HoldInv, Typed
  <2>2. ASSUME NEW x \in Objects, NEW h \in Handles, Holds(x, h)'
        PROVE  IF obj'[x].mOwner = "ownData" THEN device'[h] > 0 ELSE native'[h] # "free"
    BY <2>2, <1>1, <1>2, <1>3 DEF OwnInv, HoldInv
  <2>3. \A x, p \in Objects, h \in Handles : Holds(x, h)' /\ Holds(p, h)' => x = p
    BY <1>2 DEF OwnInv, HoldInv
  <2> QED BY <2>1, <2>2, <2>3 DEF HoldInv
<1>6. LostInv'
  BY <1>1, <1>2, <1>3 DEF OwnInv, LostInv, HoldInv, Typed
<1>7. ReachInv'
  BY <1>1, <1>2, <1>3, <1>4 DEF OwnInv, ReachInv, Live
<1> QED BY <1>5, <1>6, <1>7 DEF OwnInv

-----------------------------------------------------------------------------
(* The actions, one by one.                                                *)

\* An object without a call has not released its handle.
LEMMA Idle ==
    ASSUME IInv, NEW o \in Objects, call[o] = NoCall
    PROVE  /\ call[o].op = "none" /\ listOp[o] = NoListOp /\ listOp[o].op = "none"
           /\ ~Released(o)
           /\ \A h : (Names(o, h) <=> obj[o].handle = h) /\ (Holds(o, h) <=> Owns(o, h))
<1>1. call[o].op = "none" /\ listOp[o] = NoListOp /\ listOp[o].op = "none"
  BY CallKinds, ListKinds DEF IInv, Rest, LocalInv, Local
<1>2. ~Released(o)
  BY <1>1 DEF Released
<1> QED BY <1>1, <1>2 DEF Names, Holds, Owns

\* An object without a handle relies on none.
LEMMA NoHandle ==
    ASSUME NEW o \in Objects
    PROVE  /\ obj[o].handle = NULL => \A h \in Handles : ~Names(o, h) /\ ~Holds(o, h)
           /\ obj'[o].handle = NULL => \A h \in Handles : ~Names(o, h)' /\ ~Holds(o, h)'
           /\ Released(o) => \A h \in Handles : ~Names(o, h) /\ ~Holds(o, h)
           /\ Released(o)' => \A h \in Handles : ~Names(o, h)' /\ ~Holds(o, h)'
BY NullAssumption DEF Names, Holds, Owns

\* o relies on what it did before.
LEMMA OwnQuiet ==
    ASSUME Typed, OwnInv, NEW o \in Objects, Others(o), UNCHANGED <<device, native, lost>>,
           \A h \in Handles : /\ Names(o, h)' <=> Names(o, h)
                              /\ Holds(o, h)' <=> Holds(o, h)
                              /\ Holds(o, h) => obj'[o].mOwner = obj[o].mOwner,
           obj'[o].mWrappedBuffer = obj[o].mWrappedBuffer,
           \A x \in Objects \ {o} : x \in stale => x \in stale',
           o \in stale' \/ o \notin stale \/ \A h \in Handles : ~Names(o, h)
    PROVE  OwnInv'
<1>1. \A x \in Objects, h \in Handles :
          /\ Names(x, h)' <=> Names(x, h)
          /\ Holds(x, h)' <=> Holds(x, h)
          /\ Holds(x, h) => obj'[x].mOwner = obj[x].mOwner
  <2> SUFFICES ASSUME NEW x \in Objects \ {o}, NEW h \in Handles
               PROVE  /\ Names(x, h)' <=> Names(x, h)
                      /\ Holds(x, h)' <=> Holds(x, h)
                      /\ obj'[x].mOwner = obj[x].mOwner
    OBVIOUS
  <2> QED BY ViewFrame DEF Others
<1>2. \A x \in Objects : obj'[x].mWrappedBuffer = obj[x].mWrappedBuffer
  BY DEF Others
<1>3. \A x \in Objects, h \in Handles : Names(x, h) /\ x \in stale => x \in stale'
  OBVIOUS
<1>4. \A h \in Handles : native'[h] = native[h]
  OBVIOUS
<1> QED BY <1>1, <1>2, <1>3, <1>4, OwnFrame

\* Nobody is about to add the handle of an object without a call.
LEMMA NoAddDue ==
    ASSUME IInv, NEW o \in Objects, call[o] = NoCall, obj[o].mOwner = "ownData",
           NEW h \in Handles, obj[o].handle = h
    PROVE  \A c \in Objects : ~Due(c, "add", h)
<1> SUFFICES ASSUME NEW c \in Objects, listOp[c].op = "add", listOp[c].handle = h
             PROVE  FALSE
  BY DEF Due
<1>1. listOp[c] # NoListOp
  BY ListKinds
<1>2. call[c].op = "initSize"
  BY <1>1, ObjTypes, CallShape DEF IInv, Rest, LocalInv, Local
<1>3. Holds(c, h)
  BY <1>1, <1>2 DEF IInv, Rest, LocalInv, Local, Holds, Owns, Released
<1>4. Holds(o, h)
  BY Idle DEF Owns
<1>5. c = o
  BY <1>3, <1>4 DEF IInv, Rest, OwnInv, HoldInv
<1> QED BY <1>1, <1>5, Idle

\* A fence signals.
LEMMA SignalStep ==
    ASSUME IInv, Signal
    PROVE  Rest'
<1>1. UNCHANGED <<device, sAllocList, listOp, reused, obj, call, native, lost, stale, unsized>>
  BY DEF Signal, allocVars
<1>2. fence'.open = fence.open
  BY DEF Signal, IInv, Typed
<1>3. LocalInv' /\ WrapInv'
  BY <1>1 DEF IInv, Rest, LocalInv, Local, Exists, WrapInv
<1>4. ListInv'
  BY <1>1, ListFrame DEF IInv, Rest, allocVars
<1>5. FenceInv'
  BY <1>1, <1>2 DEF IInv, Rest, FenceInv
<1>6. OwnInv'
  <2>1. \A x \in Objects, h \in Handles : /\ Names(x, h)' <=> Names(x, h)
                                          /\ Holds(x, h)' <=> Holds(x, h)
    BY <1>1, ViewFrame
  <2> QED BY <1>1, <2>1, OwnFrame DEF IInv, Rest
<1> QED BY <1>3, <1>4, <1>5, <1>6 DEF Rest

\* The client imports a handle, or closes one.
LEMMA ClientStep ==
    ASSUME IInv, NEW g \in Handles, Import(g) \/ ClientCloses(g)
    PROVE  Rest'
<1>1. UNCHANGED <<device, sAllocList, listOp, reused, obj, call, fence, lost, stale, unsized>>
  BY DEF Import, ClientCloses, allocVars
<1>2. LocalInv' /\ WrapInv'
  BY <1>1 DEF IInv, Rest, LocalInv, Local, Exists, WrapInv
<1>3. ListInv'
  BY <1>1, ListFrame DEF IInv, Rest, allocVars
<1>4. FenceInv'
  BY <1>1 DEF IInv, Rest, FenceInv
<1>5. OwnInv'
  <2>1. CASE ClientCloses(g)
    BY <2>1, OwnClosed DEF IInv, Rest
  <2>2. CASE Import(g)
    <3>1. \A x \in Objects, h \in Handles : /\ Names(x, h)' <=> Names(x, h)
                                            /\ Holds(x, h)' <=> Holds(x, h)
      BY <1>1, ViewFrame
    <3>2. \A h \in Handles : \/ native'[h] = native[h]
                             \/ Unused(h) /\ native'[h] = "client"
      BY <2>2 DEF Import, IInv, Typed
    <3> QED BY <1>1, <3>1, <3>2, OwnFrame DEF IInv, Rest
  <2> QED BY <2>1, <2>2
<1> QED BY <1>2, <1>3, <1>4, <1>5 DEF Rest

\* A new object without a handle.
LEMMA NewStep ==
    ASSUME IInv, NEW o \in Objects, NewEmpty(o) \/ \E w \in Widths : NewSized(o, w)
    PROVE  Rest'
<1>1. /\ ~Exists(o) /\ call[o] = NoCall
      /\ obj' = [obj EXCEPT ![o] = Object(NULL, "ownData", 0, NULL)]
      /\ UNCHANGED <<device, sAllocList, listOp, reused, native, fence, lost, stale, unsized>>
  BY DEF NewEmpty, NewSized, New, allocVars
<1>2. PICK c : call' = [call EXCEPT ![o] = c] /\ c.op \in {"none", "initSize"}
  <2>1. CASE NewEmpty(o)
    BY <2>1, <1>1, Kept, CallKinds DEF NewEmpty, IInv
  <2>2. CASE \E w \in Widths : NewSized(o, w)
    <3>1. PICK w \in Widths : NewSized(o, w)
      BY <2>2
    <3>2. /\ call' = [call EXCEPT ![o] = [op |-> "initSize", width |-> w]]
          /\ [op |-> "initSize", width |-> w].op = "initSize"
      BY <3>1 DEF NewSized
    <3> QED BY <3>2
  <2> QED BY <2>1, <2>2
<1>3. listOp' = [listOp EXCEPT ![o] = listOp[o]]
  BY <1>1, Kept DEF IInv
<1>4. Becomes(o, NULL, "ownData", 0, NULL, TRUE, c, listOp[o])
  <2>1. /\ obj'[o] = Object(NULL, "ownData", 0, NULL) /\ call'[o] = c
        /\ listOp'[o] = listOp[o] /\ Others(o)
    BY <1>1, <1>2, <1>3, Replaced DEF IInv
  <2> QED BY <2>1, ObjFields DEF Becomes
<1>5. /\ \A h \in Handles : ~Names(o, h) /\ ~Holds(o, h)
      /\ obj[o].mWrappedBuffer = NULL /\ listOp[o] = NoListOp /\ Wrappers(o) = {}
  BY <1>1, Nobody DEF IInv, Rest
<1>6. Local(o)'
  BY <1>2, <1>4, <1>5, ListKinds DEF Becomes, Local, Exists
<1>7. LocalInv'
  BY <1>1, <1>4, <1>6, LocalFrame DEF Becomes, IInv, Rest
<1>8. WrapInv'
  BY <1>4, <1>5, WrapFrame, ObjTypes DEF Becomes, IInv, Rest
<1>9. ListInv'
  BY <1>1, ListFrame DEF IInv, Rest, allocVars
<1>10. FenceInv'
  BY <1>1, <1>2, <1>4, FenceFrame, CallKinds DEF Becomes, IInv, Rest
<1>11. OwnInv'
  BY <1>1, <1>4, <1>5, NoHandle, OwnQuiet DEF Becomes, IInv, Rest
<1> QED BY <1>7, <1>8, <1>9, <1>10, <1>11 DEF Rest


\* The parts about fields, references and fences, for a step that is not
\* about a lock.
LEMMA Frames ==
    ASSUME IInv, NEW o \in Objects, Others(o), Local(o)', UNCHANGED fence,
           \A x \in Objects \ {o} : x \in unsized => x \in unsized',
           \/ obj'[o].mWrappedBuffer \in {NULL, obj[o].mWrappedBuffer}
           \/ Ready(obj'[o].mWrappedBuffer) /\ obj'[o].mWrappedBuffer \in Objects \ {o},
           Wrappers(o) = {} \/ (obj'[o].mOwner # "none" /\ call'[o].op # "destroy"),
           call[o].op # "lock", call'[o].op # "lock"
    PROVE  LocalInv' /\ WrapInv' /\ FenceInv'
<1>1. LocalInv'
  BY LocalFrame DEF IInv, Rest
<1>2. WrapInv'
  <2>1. \A x \in Objects : obj[x].mWrappedBuffer \in Objects \cup {NULL}
    BY ObjTypes DEF IInv
  <2> QED BY <2>1, WrapFrame DEF IInv, Rest
<1>3. FenceInv'
  BY FenceFrame DEF IInv, Rest
<1> QED BY <1>1, <1>2, <1>3

\* A new object with a handle from the client.
LEMMA NewFromHandleStep ==
    ASSUME IInv, NEW o \in Objects, NEW g \in Handles, NEW w \in Widths, NEW k \in BOOLEAN,
           NewFromHandle(o, g, w, k)
    PROVE  Rest'
<1>1. /\ ~Exists(o) /\ call[o] = NoCall /\ Givable(g)
      /\ obj' = [obj EXCEPT ![o] = Object(g, Owner(k), w, NULL)]
      /\ stale' = IF k THEN stale \cup Naming(g) ELSE stale
      /\ UNCHANGED <<device, sAllocList, listOp, reused, call, native, fence, lost, unsized>>
  BY DEF NewFromHandle, allocVars
<1>3. Becomes(o, g, Owner(k), w, NULL, TRUE, call[o], listOp[o])
  <2>1. /\ obj'[o] = Object(g, Owner(k), w, NULL) /\ call'[o] = call[o]
        /\ listOp'[o] = listOp[o] /\ Others(o)
    BY <1>1, ReplacedObj DEF IInv
  <2> QED BY <2>1, ObjFields DEF Becomes
<1>4. /\ \A h \in Handles : ~Names(o, h) /\ ~Holds(o, h)
      /\ obj[o].mWrappedBuffer = NULL /\ listOp[o] = NoListOp /\ Wrappers(o) = {}
  BY <1>1, Nobody DEF IInv, Rest
<1>5. NoCall.op = "none" /\ NoListOp.op = "none" /\ g # NULL
  BY CallKinds, ListKinds, NullAssumption
<1>6. Local(o)'
  BY <1>1, <1>3, <1>4, <1>5 DEF Becomes, Local, Exists, Owner
<1>7. LocalInv' /\ WrapInv' /\ FenceInv'
  BY <1>1, <1>3, <1>4, <1>5, <1>6, Frames DEF Becomes
<1>8. ListInv'
  BY <1>1, ListFrame DEF IInv, Rest, allocVars
<1>9. OwnInv'
  <2>1. \A h \in Handles \ {g} : ~Names(o, h)'
    BY <1>3 DEF Becomes, Names
  <2>2. CASE k
    <3>1. Holds(o, g)'
      BY <2>2, <1>1, <1>3, <1>5 DEF Becomes, Holds, Owns, Released, Owner
    <3> QED BY <2>1, <2>2, <3>1, <1>1, <1>3, <1>4, OwnGiven DEF Becomes, IInv, Rest, Owner
  <2>3. CASE ~k
    BY <2>1, <2>3, <1>1, <1>3, <1>4, OwnBorrowed DEF Becomes, IInv, Rest, Owner
  <2> QED BY <2>2, <2>3
<1> QED BY <1>7, <1>8, <1>9 DEF Rest

\* A new object around another one.
LEMMA NewWrapperStep ==
    ASSUME IInv, NEW o \in Objects, NEW b \in Objects, NEW k \in BOOLEAN, NewWrapper(o, b, k)
    PROVE  Rest'
<1> DEFINE g == obj[b].handle
           w == obj[b].width
<1>1. /\ ~Exists(o) /\ call[o] = NoCall /\ Ready(b) /\ b # o
      /\ k => g \in Handles /\ Givable(g)
      /\ obj' = [obj EXCEPT ![o] = Object(g, Owner(k), w, b)]
      /\ UNCHANGED <<device, sAllocList, listOp, reused, call, native, fence, lost>>
  BY DEF NewWrapper, Wrapping, allocVars, Ready
<1>2. /\ stale \subseteq stale' /\ (b \in stale => o \in stale')
      /\ k => Naming(g) \subseteq stale'
      /\ unsized \subseteq unsized' /\ (b \in unsized => o \in unsized')
  BY DEF NewWrapper
<1>4. Becomes(o, g, Owner(k), w, b, TRUE, call[o], listOp[o])
  <2>1. /\ obj'[o] = Object(g, Owner(k), w, b) /\ call'[o] = call[o]
        /\ listOp'[o] = listOp[o] /\ Others(o)
    BY <1>1, ReplacedObj DEF IInv
  <2> QED BY <2>1, ObjFields DEF Becomes
<1>5. /\ \A h \in Handles : ~Names(o, h) /\ ~Holds(o, h)
      /\ obj[o].mWrappedBuffer = NULL /\ listOp[o] = NoListOp /\ Wrappers(o) = {}
  BY <1>1, Nobody DEF IInv, Rest
<1>6. NoCall.op = "none" /\ NoListOp.op = "none"
  BY CallKinds, ListKinds
<1>7. b \notin unsized /\ w > 0 => g # NULL
  BY <1>1, <1>6 DEF Ready, IInv, Rest, LocalInv, Local
<1>8. Local(o)'
  BY <1>1, <1>2, <1>4, <1>5, <1>6, <1>7 DEF Becomes, Local, Exists, Owner
<1>9. LocalInv' /\ WrapInv' /\ FenceInv'
  BY <1>1, <1>2, <1>4, <1>5, <1>6, <1>8, Frames DEF Becomes
<1>10. ListInv'
  BY <1>1, ListFrame DEF IInv, Rest, allocVars
<1>11. OwnInv'
  <2>1. \A h \in Handles \ {g} : ~Names(o, h)'
    BY <1>4 DEF Becomes, Names
  <2>2. CASE k
    <3>1. Holds(o, g)'
      BY <2>2, <1>1, <1>4, <1>5, <1>6 DEF Becomes, Holds, Owns, Released, Owner
    <3> QED BY <2>1, <2>2, <3>1, <1>1, <1>2, <1>4, <1>5, OwnGiven
            DEF Becomes, IInv, Rest, Owner
  <2>3. CASE ~k
    <3>1. Names(b, g)
      BY <1>1, Idle DEF Ready
    <3> QED BY <2>1, <2>3, <3>1, <1>1, <1>2, <1>4, <1>5, OwnBorrowed
            DEF Becomes, IInv, Rest, Owner
  <2> QED BY <2>2, <2>3
<1> QED BY <1>9, <1>10, <1>11 DEF Rest

\* A caller drops its reference.
LEMMA DropStep ==
    ASSUME IInv, NEW o \in Objects, DropReference(o)
    PROVE  Rest'
<1>1. /\ Exists(o) /\ call[o] = NoCall
      /\ obj' = [obj EXCEPT ![o] = [obj[o] EXCEPT !.held = FALSE]]
      /\ UNCHANGED <<device, sAllocList, listOp, reused, call, native, fence, lost, stale, unsized>>
  BY DEF DropReference, allocVars, Ready
<1>3. Becomes(o, obj[o].handle, obj[o].mOwner, obj[o].width, obj[o].mWrappedBuffer, FALSE,
              call[o], listOp[o])
  <2>1. /\ obj'[o] = [obj[o] EXCEPT !.held = FALSE] /\ call'[o] = call[o]
        /\ listOp'[o] = listOp[o] /\ Others(o)
    BY <1>1, ReplacedObj DEF IInv
  <2>2. obj[o] \in ObjRec
    BY ObjTypes DEF IInv
  <2> QED BY <2>1, <2>2, ObjFields DEF Becomes
<1>4. call[o].op = "none"
  BY <1>1, CallKinds
<1>5. Local(o)'
  BY <1>1, <1>3, <1>4 DEF Becomes, Local, LocalInv, Exists, IInv, Rest
<1>6. LocalInv' /\ WrapInv' /\ FenceInv'
  BY <1>1, <1>3, <1>4, <1>5, Frames DEF Becomes, Exists
<1>7. ListInv'
  BY <1>1, ListFrame DEF IInv, Rest, allocVars
<1>8. OwnInv'
  <2>1. \A h \in Handles : (Names(o, h)' <=> Names(o, h)) /\ (Holds(o, h)' <=> Holds(o, h))
    BY <1>3 DEF Becomes, Names, Holds, Owns, Released
  <2> QED BY <1>1, <1>3, <2>1, OwnQuiet DEF Becomes, IInv, Rest
<1> QED BY <1>6, <1>7, <1>8 DEF Rest

-----------------------------------------------------------------------------
(* Letting go of a handle.                                                 *)

\* An object without a call lets go of its handle at once; everybody above it
\* is warned, or it keeps its references.
LEMMA ReleasedStep ==
    ASSUME IInv, NEW o \in Objects, call[o] = NoCall, obj[o].handle # NULL,
           ReleasedAtOnce(o), Others(o), \A h \in Handles : ~Names(o, h)',
           Above(o) \subseteq stale', \A x \in Objects \ {o} : x \in stale => x \in stale'
    PROVE  OwnInv' /\ UNCHANGED allocVars
<1> DEFINE g == obj[o].handle
<1>1. g \in Handles /\ obj[o].mOwner \in {"none", "ownNone", "ownHandle", "ownData"}
  BY ObjTypes DEF IInv
<1>2. CASE obj[o].mOwner = "ownHandle" /\ ReleaseNative(o)
  <2>1. Holds(o, g)
    BY <1>2, Idle DEF Owns
  <2>2. /\ native' = [native EXCEPT ![g] = "free"]
        /\ UNCHANGED <<device, sAllocList, listOp, reused, lost>>
    BY <1>2 DEF ReleaseNative, allocVars
  <2> QED BY <1>1, <1>2, <2>1, <2>2, OwnReleases DEF IInv, Rest, allocVars
<1>3. CASE obj[o].mOwner = "ownNone" /\ ReleaseNative(o)
  <2>1. \A h \in Handles : ~Holds(o, h)
    BY <1>3 DEF Holds, Owns
  <2>2. UNCHANGED <<device, sAllocList, listOp, reused, native, lost>>
    BY <1>3 DEF ReleaseNative, allocVars
  <2> QED BY <2>1, <2>2, OwnLoses DEF IInv, Rest, allocVars
<1>4. CASE ReleaseRefused(o)
  <2>1. /\ lost' = lost \cup {g}
        /\ UNCHANGED <<device, sAllocList, listOp, reused, native>>
    BY <1>4 DEF ReleaseRefused, DeviceKeeps, allocVars
  <2>2. \A h \in Handles : Holds(o, h) => h \in lost'
    BY <2>1 DEF Holds, Owns
  <2> QED BY <2>1, <2>2, OwnLoses DEF IInv, Rest, allocVars
<1> QED BY <1>2, <1>3, <1>4 DEF ReleasedAtOnce, ReleaseNative

\* An object without a call begins to free its handle.
LEMMA BeginsStep ==
    ASSUME IInv, NEW o \in Objects, NEW c, call[o] = NoCall, obj[o].handle # NULL,
           ReleaseBegins(o, c), c.op \in {"destroy", "unflatten", "initSize"},
           UNCHANGED obj, Above(o) \subseteq stale',
           \A x \in Objects \ {o} : x \in stale => x \in stale'
    PROVE  /\ OwnInv' /\ ListInv' /\ obj[o].mOwner = "ownData"
           /\ Becomes(o, obj[o].handle, "ownData", obj[o].width, obj[o].mWrappedBuffer,
                      obj[o].held, c, listOp'[o])
           /\ listOp'[o].op = "remove" /\ listOp'[o].handle = obj[o].handle
           /\ listOp'[o] # NoListOp
<1> DEFINE g == obj[o].handle
           l == ListOp("remove", g, 0)
<1>1. g \in Handles
  BY ObjTypes DEF IInv
<1>2. /\ obj[o].mOwner = "ownData" /\ DeviceFree(o, g)
      /\ call' = [call EXCEPT ![o] = c] /\ UNCHANGED <<native, lost>>
  BY DEF ReleaseBegins
<1>3. device' = [device EXCEPT ![g] = 0] /\ listOp' = [listOp EXCEPT ![o] = l]
  BY <1>2 DEF DeviceFree
<1>4. l.op = "remove" /\ l.handle = g /\ l # NoListOp
  BY <1>1, ListKinds, WidthAssumption
<1> HIDE DEF l
<1>5. obj' = [obj EXCEPT ![o] = obj[o]]
  BY Kept DEF IInv
<1>6. obj'[o] = obj[o] /\ call'[o] = c /\ listOp'[o] = l /\ Others(o)
  BY <1>2, <1>3, <1>5, Replaced DEF IInv
<1>7. Becomes(o, g, "ownData", obj[o].width, obj[o].mWrappedBuffer, obj[o].held, c, listOp'[o])
  BY <1>2, <1>6 DEF Becomes
<1>8. ListInv'
  BY <1>1, <1>2, NoAddDue, FreeStep DEF IInv, Rest
<1>9. \A h \in Handles : ~Names(o, h)'
  BY <1>4, <1>6 DEF Names, Released
<1>10. Holds(o, g)
  BY <1>2, Idle DEF Owns
<1>11. OwnInv'
  BY <1>1, <1>2, <1>3, <1>6, <1>9, <1>10, OwnReleases DEF IInv, Rest
<1> QED BY <1>2, <1>4, <1>6, <1>7, <1>8, <1>11


\* Letting go at once is not the allocator's business.
LEMMA AtOnceIsLocal ==
    ASSUME NEW o \in Objects, ReleasedAtOnce(o)
    PROVE  UNCHANGED listOp
BY DEF ReleasedAtOnce, ReleaseNative, ReleaseRefused, DeviceKeeps, allocVars

\* The destructor, up to its end or to the allocator's lock.
LEMMA DestroyStep ==
    ASSUME IInv, NEW o \in Objects, Destroy(o)
    PROVE  Rest'
<1>1. /\ Exists(o) /\ ~obj[o].held /\ call[o] = NoCall /\ Wrappers(o) = {}
      /\ UNCHANGED fence
  BY DEF Destroy, Unreferenced
<1>2. Above(o) = {}
  BY <1>1, AboveEmpty
<1>3. call[o].op = "none" /\ listOp[o] = NoListOp /\ listOp[o].op = "none"
  BY <1>1, Idle
<1>4. CASE /\ \/ obj[o].handle = NULL /\ UNCHANGED <<allocVars, native, lost>>
              \/ obj[o].handle # NULL /\ ReleasedAtOnce(o)
           /\ Gone(o) /\ UNCHANGED call
  <2>1. UNCHANGED listOp
    BY <1>4, AtOnceIsLocal DEF allocVars
  <2>2. /\ obj' = [obj EXCEPT ![o] = NoObject]
        /\ stale' = stale \ {o} /\ unsized' = unsized \ {o}
    BY <1>4 DEF Gone
  <2>3. Becomes(o, NULL, "none", 0, NULL, FALSE, call[o], listOp[o])
    <3>1. /\ obj'[o] = NoObject /\ call'[o] = call[o] /\ listOp'[o] = listOp[o]
          /\ Others(o)
      BY <1>4, <2>1, <2>2, ReplacedObj DEF IInv
    <3> QED BY <3>1, ObjFields DEF Becomes
  <2>4. Local(o)'
    BY <2>3, <1>1, <1>3 DEF Becomes, Local, Exists
  <2>5. LocalInv' /\ WrapInv' /\ FenceInv'
    BY <1>1, <1>3, <2>2, <2>3, <2>4, Frames DEF Becomes
  <2>6. \A h \in Handles : ~Names(o, h)'
    BY <2>3, NoHandle DEF Becomes
  <2>7. CASE obj[o].handle = NULL /\ UNCHANGED <<allocVars, native, lost>>
    <3>1. ListInv'
      BY <2>7, ListFrame DEF IInv, Rest
    <3>2. UNCHANGED <<device, native, lost>>
      BY <2>7 DEF allocVars
    <3>3. OwnInv'
      BY <2>2, <2>3, <2>6, <2>7, <3>2, <1>2, NoHandle, OwnLoses DEF Becomes, IInv, Rest
    <3> QED BY <2>5, <3>1, <3>3 DEF Rest
  <2>8. CASE obj[o].handle # NULL /\ ReleasedAtOnce(o)
    <3>1. OwnInv' /\ UNCHANGED allocVars
      BY <2>2, <2>3, <2>6, <2>8, <1>1, <1>2, ReleasedStep DEF Becomes
    <3>2. ListInv'
      BY <3>1, ListFrame DEF IInv, Rest
    <3> QED BY <2>5, <3>1, <3>2 DEF Rest
  <2> QED BY <1>4, <2>7, <2>8
<1>5. CASE /\ obj[o].handle # NULL /\ ReleaseBegins(o, [op |-> "destroy"])
           /\ UNCHANGED <<obj, stale, unsized>>
  <2> DEFINE c == [op |-> "destroy"]
  <2>1. c.op = "destroy"
    OBVIOUS
  <2>2. ReleaseBegins(o, c)
    BY <1>5
  <2> HIDE DEF c
  <2>3. /\ OwnInv' /\ ListInv' /\ obj[o].mOwner = "ownData"
        /\ Becomes(o, obj[o].handle, "ownData", obj[o].width, obj[o].mWrappedBuffer,
                   obj[o].held, c, listOp'[o])
        /\ listOp'[o].op = "remove" /\ listOp'[o].handle = obj[o].handle
        /\ listOp'[o] # NoListOp
    BY <1>1, <1>2, <1>5, <2>1, <2>2, BeginsStep
  <2>4. Local(o)
    BY DEF IInv, Rest, LocalInv
  <2>5. Local(o)'
    BY <1>1, <2>1, <2>3, <2>4 DEF Becomes, Local, Exists
  <2>6. LocalInv' /\ WrapInv' /\ FenceInv'
    BY <1>1, <1>3, <1>5, <2>1, <2>3, <2>5, Frames DEF Becomes
  <2> QED BY <2>3, <2>6 DEF Rest
<1> QED BY <1>4, <1>5 DEF Destroy

\* The rest of allocator.free and of its caller up to the next pause.
LEMMA AfterFreeStep ==
    ASSUME IInv, NEW o \in Objects, AfterFree(o)
    PROVE  Rest'
<1>1. /\ listOp[o].op = "remove" /\ ListRemove(o)
      /\ listOp' = [listOp EXCEPT ![o] = NoListOp]
      /\ UNCHANGED <<device, reused, native, fence, lost>>
  BY DEF AfterFree, ListRemove
<1>2. ListInv'
  BY <1>1, UpdateStep DEF IInv, Rest
<1>3. Local(o)
  BY DEF IInv, Rest, LocalInv
<1>4. listOp[o] # NoListOp
  BY <1>1, ListKinds
<1>5. obj[o].mOwner = "ownData" /\ obj[o].mWrappedBuffer = NULL /\ obj[o] \in ObjRec
  BY <1>3, <1>4, ObjTypes DEF Local, IInv
<1>6. NoCall.op = "none" /\ NoListOp.op = "none"
  BY CallKinds, ListKinds
<1>7. CASE call[o].op = "destroy" /\ Gone(o) /\ call' = [call EXCEPT ![o] = NoCall]
  <2>1. /\ obj' = [obj EXCEPT ![o] = NoObject]
        /\ stale' = stale \ {o} /\ unsized' = unsized \ {o}
    BY <1>7 DEF Gone
  <2>2. Becomes(o, NULL, "none", 0, NULL, FALSE, NoCall, NoListOp)
    <3>1. /\ obj'[o] = NoObject /\ call'[o] = NoCall /\ listOp'[o] = NoListOp
          /\ Others(o)
      BY <1>1, <1>7, <2>1, Replaced DEF IInv
    <3> QED BY <3>1, ObjFields DEF Becomes
  <2>3. Local(o)'
    BY <1>6, <2>2 DEF Becomes, Local, Exists
  <2>4. Wrappers(o) = {}
    BY <1>7, NullAssumption DEF IInv, Rest, WrapInv, Wrappers
  <2>5. LocalInv' /\ WrapInv' /\ FenceInv'
    BY <1>1, <1>6, <1>7, <2>1, <2>2, <2>3, <2>4, Frames DEF Becomes
  <2>6. Released(o)
    BY <1>7 DEF Released
  <2>7. OwnInv'
    BY <1>1, <1>5, <2>1, <2>2, <2>6, NoHandle, OwnQuiet DEF Becomes, IInv, Rest
  <2> QED BY <1>2, <2>5, <2>7 DEF Rest
<1>8. CASE /\ call[o].op = "initSize" /\ obj' = [obj EXCEPT ![o].handle = NULL]
           /\ UNCHANGED <<call, stale, unsized>>
  <2>1. Becomes(o, NULL, "ownData", obj[o].width, NULL, obj[o].held, call[o], NoListOp)
    <3> DEFINE r == [obj[o] EXCEPT !.handle = NULL]
    <3>1. obj' = [obj EXCEPT ![o] = r] /\ UNCHANGED call
      BY <1>8
    <3>2. r = [obj[o] EXCEPT !.handle = NULL]
      OBVIOUS
    <3> HIDE DEF r
    <3>3. obj'[o] = r /\ call'[o] = call[o] /\ listOp'[o] = NoListOp /\ Others(o)
      BY <1>1, <3>1, ReplacedObjList DEF IInv
    <3> QED BY <1>5, <3>2, <3>3, ObjFields DEF Becomes
  <2>2. Local(o)'
    BY <1>3, <1>6, <1>8, <2>1 DEF Becomes, Local, Exists
  <2>3. LocalInv' /\ WrapInv' /\ FenceInv'
    BY <1>1, <1>8, <2>1, <2>2, Frames DEF Becomes
  <2>4. Released(o)
    BY <1>1, <1>8 DEF Released
  <2>5. OwnInv'
    BY <1>1, <1>5, <1>8, <2>1, <2>4, NoHandle, OwnQuiet DEF Becomes, IInv, Rest
  <2> QED BY <1>2, <2>3, <2>5 DEF Rest
<1>9. CASE /\ call[o].op = "unflatten" /\ obj' = [obj EXCEPT ![o].mWrappedBuffer = NULL]
           /\ UNCHANGED <<call, stale, unsized>>
  <2>1. Becomes(o, obj[o].handle, "ownData", obj[o].width, NULL, obj[o].held, call[o], NoListOp)
    <3> DEFINE r == [obj[o] EXCEPT !.mWrappedBuffer = NULL]
    <3>1. obj' = [obj EXCEPT ![o] = r] /\ UNCHANGED call
      BY <1>9
    <3>2. r = [obj[o] EXCEPT !.mWrappedBuffer = NULL]
      OBVIOUS
    <3> HIDE DEF r
    <3>3. obj'[o] = r /\ call'[o] = call[o] /\ listOp'[o] = NoListOp /\ Others(o)
      BY <1>1, <3>1, ReplacedObjList DEF IInv
    <3> QED BY <1>5, <3>2, <3>3, ObjFields DEF Becomes
  <2>2. Local(o)'
    BY <1>3, <1>6, <1>9, <2>1 DEF Becomes, Local, Exists
  <2>3. LocalInv' /\ WrapInv' /\ FenceInv'
    BY <1>1, <1>9, <2>1, <2>2, Frames DEF Becomes
  <2>4. Released(o) /\ Released(o)'
    BY <1>9, <2>1 DEF Becomes, Released
  <2>5. OwnInv'
    BY <1>1, <1>5, <1>9, <2>1, <2>4, NoHandle, OwnQuiet DEF Becomes, IInv, Rest
  <2> QED BY <1>2, <2>3, <2>5 DEF Rest
<1> QED BY <1>7, <1>8, <1>9 DEF AfterFree


-----------------------------------------------------------------------------
(* reallocate and initSize.                                                *)

\* reallocate, up to initSize or to the allocator's lock.
LEMMA ReallocateStep ==
    ASSUME IInv, NEW o \in Objects, NEW w \in Widths, Reallocate(o, w)
    PROVE  Rest'
<1> DEFINE c == [op |-> "initSize", width |-> w]
<1>1. /\ Exists(o) /\ call[o] = NoCall /\ obj[o].mOwner = "ownData"
      /\ stale' = stale \cup Above(o) /\ UNCHANGED <<fence, unsized>>
  BY DEF Reallocate, Ready
<1>2. c.op = "initSize"
  OBVIOUS
<1>3. \/ /\ obj[o].handle = NULL
         /\ call' = [call EXCEPT ![o] = c]
         /\ UNCHANGED <<allocVars, obj, native, lost>>
      \/ /\ obj[o].handle # NULL /\ ReleasedAtOnce(o)
         /\ obj' = [obj EXCEPT ![o].handle = NULL]
         /\ call' = [call EXCEPT ![o] = c]
      \/ obj[o].handle # NULL /\ ReleaseBegins(o, c) /\ UNCHANGED obj
  BY DEF Reallocate
<1> HIDE DEF c
<1>4. call[o].op = "none" /\ listOp[o] = NoListOp /\ listOp[o].op = "none"
  BY <1>1, Idle
<1>5. Local(o) /\ obj[o] \in ObjRec
  BY ObjTypes DEF IInv, Rest, LocalInv
<1>6. CASE /\ obj[o].handle = NULL
           /\ call' = [call EXCEPT ![o] = c]
           /\ UNCHANGED <<allocVars, obj, native, lost>>
  <2>1. UNCHANGED <<device, listOp, native, lost>>
    BY <1>6 DEF allocVars
  <2>2. obj'[o] = obj[o] /\ call'[o] = c /\ listOp'[o] = listOp[o] /\ Others(o)
    BY <1>6, <2>1, ReplacedCall DEF IInv
  <2>3. Local(o)'
    BY <1>1, <1>2, <1>4, <1>5, <1>6, <2>2 DEF Local, Exists
  <2>4. LocalInv' /\ WrapInv' /\ FenceInv'
    BY <1>1, <1>2, <1>4, <2>2, <2>3, Frames
  <2>5. ListInv'
    BY <1>6, ListFrame DEF IInv, Rest
  <2>6. OwnInv'
    BY <1>1, <1>6, <2>1, <2>2, NoHandle, OwnQuiet DEF IInv, Rest
  <2> QED BY <2>4, <2>5, <2>6 DEF Rest
<1>7. CASE /\ obj[o].handle # NULL /\ ReleasedAtOnce(o)
           /\ obj' = [obj EXCEPT ![o].handle = NULL]
           /\ call' = [call EXCEPT ![o] = c]
  <2>1. Becomes(o, NULL, "ownData", obj[o].width, obj[o].mWrappedBuffer, obj[o].held,
                c, listOp[o])
    <3> DEFINE r == [obj[o] EXCEPT !.handle = NULL]
    <3>1. obj' = [obj EXCEPT ![o] = r] /\ call' = [call EXCEPT ![o] = c] /\ UNCHANGED listOp
      BY <1>7, AtOnceIsLocal
    <3>2. r = [obj[o] EXCEPT !.handle = NULL]
      OBVIOUS
    <3> HIDE DEF r
    <3>3. obj'[o] = r /\ call'[o] = c /\ listOp'[o] = listOp[o] /\ Others(o)
      BY <3>1, ReplacedObjCall DEF IInv
    <3> QED BY <1>1, <1>5, <3>2, <3>3, ObjFields DEF Becomes
  <2>2. Local(o)'
    BY <1>1, <1>2, <1>4, <1>5, <2>1 DEF Becomes, Local, Exists
  <2>3. LocalInv' /\ WrapInv' /\ FenceInv'
    BY <1>1, <1>2, <1>4, <2>1, <2>2, Frames DEF Becomes
  <2>4. \A h \in Handles : ~Names(o, h)'
    BY <2>1, NoHandle DEF Becomes
  <2>5. OwnInv' /\ UNCHANGED allocVars
    BY <1>1, <1>7, <2>1, <2>4, ReleasedStep DEF Becomes
  <2>6. ListInv'
    BY <2>5, ListFrame DEF IInv, Rest
  <2> QED BY <2>3, <2>5, <2>6 DEF Rest
<1>8. CASE obj[o].handle # NULL /\ ReleaseBegins(o, c) /\ UNCHANGED obj
  <2>1. /\ OwnInv' /\ ListInv'
        /\ Becomes(o, obj[o].handle, "ownData", obj[o].width, obj[o].mWrappedBuffer,
                   obj[o].held, c, listOp'[o])
        /\ listOp'[o].op = "remove" /\ listOp'[o].handle = obj[o].handle
        /\ listOp'[o] # NoListOp
    BY <1>1, <1>2, <1>8, BeginsStep
  <2>2. Local(o)'
    BY <1>1, <1>2, <1>5, <1>8, <2>1 DEF Becomes, Local, Exists
  <2>3. LocalInv' /\ WrapInv' /\ FenceInv'
    BY <1>1, <1>2, <1>4, <2>1, <2>2, Frames DEF Becomes
  <2> QED BY <2>1, <2>3 DEF Rest
<1> QED BY <1>3, <1>6, <1>7, <1>8

\* initSize gets its handle from the device.
LEMMA InitSizeStep ==
    ASSUME IInv, NEW o \in Objects, NEW g \in Handles, InitSize(o, g)
    PROVE  Rest'
<1> DEFINE a == AllocWidth(call[o].width)
           l == ListOp("add", g, a)
<1>1. /\ call[o].op = "initSize" /\ obj[o].handle = NULL /\ Unused(g)
      /\ DeviceAlloc(o, g, call[o].width)
      /\ obj' = [obj EXCEPT ![o].handle = g]
      /\ UNCHANGED <<call, native, fence, lost, stale, unsized>>
  BY DEF InitSize
<1>2. call[o].width \in Widths
  BY <1>1, ObjTypes, CallShape DEF IInv
<1>3. a \in 0..MaxWidth /\ a \in Nat \ {0}
  BY <1>2, WidthAssumption DEF AllocWidth, Widths
<1>4. ListInv'
  BY <1>1, <1>2, AllocStep DEF IInv, Rest
<1>5. device' = [device EXCEPT ![g] = a] /\ listOp' = [listOp EXCEPT ![o] = l]
  BY <1>1 DEF DeviceAlloc
<1> HIDE DEF a
<1>6. l.op = "add" /\ l.handle = g /\ l # NoListOp
  BY <1>3, ListKinds
<1> HIDE DEF l
<1>7. Local(o) /\ obj[o] \in ObjRec
  BY ObjTypes DEF IInv, Rest, LocalInv
<1>8. Becomes(o, g, "ownData", obj[o].width, obj[o].mWrappedBuffer, obj[o].held, call[o], l)
  <2> DEFINE r == [obj[o] EXCEPT !.handle = g]
  <2>1. obj' = [obj EXCEPT ![o] = r] /\ UNCHANGED call
    BY <1>1
  <2>2. r = [obj[o] EXCEPT !.handle = g]
    OBVIOUS
  <2> HIDE DEF r
  <2>3. obj'[o] = r /\ call'[o] = call[o] /\ listOp'[o] = l /\ Others(o)
    BY <1>5, <2>1, ReplacedObjList DEF IInv
  <2>4. obj[o].mOwner = "ownData"
    BY <1>1, <1>7 DEF Local
  <2> QED BY <1>7, <2>2, <2>3, <2>4, ObjFields DEF Becomes
<1>9. g # NULL
  BY NullAssumption
<1>10. Local(o)'
  BY <1>1, <1>6, <1>7, <1>8, <1>9 DEF Becomes, Local, Exists
<1>11. LocalInv' /\ WrapInv' /\ FenceInv'
  BY <1>1, <1>8, <1>10, Frames DEF Becomes
<1>12. OwnInv'
  <2>1. Holds(o, g)' /\ \A h \in Handles \ {g} : ~Names(o, h)'
    BY <1>1, <1>6, <1>8 DEF Becomes, Holds, Owns, Names, Released
  <2>2. \A h \in Handles : ~Names(o, h)
    BY <1>1, NoHandle
  <2>3. \E w \in Nat \ {0} : device' = [device EXCEPT ![g] = w]
    BY <1>3, <1>5
  <2> QED BY <1>1, <1>8, <2>1, <2>2, <2>3, OwnTakes DEF Becomes, IInv, Rest
<1> QED BY <1>4, <1>11, <1>12 DEF Rest

\* The device has no memory: the size stays, and is remembered as such.
LEMMA InitSizeFailsStep ==
    ASSUME IInv, NEW o \in Objects, InitSizeFails(o)
    PROVE  Rest'
<1>1. /\ call[o].op = "initSize" /\ listOp[o] = NoListOp /\ obj[o].handle = NULL
      /\ call' = [call EXCEPT ![o] = NoCall]
      /\ UNCHANGED <<device, sAllocList, listOp, reused, obj, native, fence, lost, stale>>
  BY DEF InitSizeFails, allocVars
<1>2. unsized \subseteq unsized' /\ (obj[o].width > 0 => o \in unsized')
  BY DEF InitSizeFails
<1>3. obj'[o] = obj[o] /\ call'[o] = NoCall /\ listOp'[o] = listOp[o] /\ Others(o)
  BY <1>1, ReplacedCall DEF IInv
<1>4. NoCall.op = "none" /\ NoListOp.op = "none"
  BY CallKinds, ListKinds
<1>5. Local(o) /\ obj[o].mOwner = "ownData"
  BY <1>1 DEF IInv, Rest, LocalInv, Local
<1>6. Local(o)'
  BY <1>1, <1>2, <1>3, <1>4, <1>5 DEF Local, Exists
<1>7. LocalInv' /\ WrapInv' /\ FenceInv'
  BY <1>1, <1>2, <1>3, <1>4, <1>5, <1>6, Frames
<1>8. ListInv'
  BY <1>1, ListFrame DEF IInv, Rest, allocVars
<1>9. OwnInv'
  BY <1>1, <1>3, NoHandle, OwnQuiet DEF IInv, Rest
<1> QED BY <1>7, <1>8, <1>9 DEF Rest

\* The allocation is in the list, and the object has its size.
LEMMA InitSizeEndsStep ==
    ASSUME IInv, NEW o \in Objects, InitSizeEnds(o)
    PROVE  Rest'
<1> DEFINE w == call[o].width
<1>1. /\ listOp[o].op = "add" /\ ListAdd(o)
      /\ listOp' = [listOp EXCEPT ![o] = NoListOp]
      /\ obj' = [obj EXCEPT ![o].width = w]
      /\ call' = [call EXCEPT ![o] = NoCall]
      /\ unsized' = unsized \ {o}
      /\ UNCHANGED <<device, reused, native, fence, lost, stale>>
  BY DEF InitSizeEnds, ListAdd
<1>2. ListInv'
  BY <1>1, UpdateStep DEF IInv, Rest
<1>3. Local(o) /\ obj[o] \in ObjRec /\ call[o] \in Calls
  BY ObjTypes DEF IInv, Rest, LocalInv
<1>4. NoCall.op = "none" /\ NoListOp.op = "none"
  BY CallKinds, ListKinds
<1>5. /\ call[o].op = "initSize" /\ obj[o].mOwner = "ownData" /\ obj[o].handle # NULL
  <2>1. call[o].op = "initSize"
    BY <1>1, <1>3, <1>4, CallShape DEF Local
  <2> QED BY <1>1, <1>3, <1>4, <2>1 DEF Local
<1>6. Becomes(o, obj[o].handle, "ownData", w, obj[o].mWrappedBuffer, obj[o].held,
              NoCall, NoListOp)
  <2> HIDE DEF w
  <2> DEFINE r == [obj[o] EXCEPT !.width = w]
  <2>1. obj' = [obj EXCEPT ![o] = r]
    BY <1>1
  <2>2. r = [obj[o] EXCEPT !.width = w]
    OBVIOUS
  <2> HIDE DEF r
  <2>3. obj'[o] = r /\ call'[o] = NoCall /\ listOp'[o] = NoListOp /\ Others(o)
    BY <1>1, <2>1, Replaced DEF IInv
  <2> QED BY <1>3, <1>5, <2>2, <2>3, ObjFields DEF Becomes
<1>7. Local(o)'
  BY <1>3, <1>4, <1>5, <1>6 DEF Becomes, Local, Exists
<1>8. LocalInv' /\ WrapInv' /\ FenceInv'
  BY <1>1, <1>4, <1>5, <1>6, <1>7, Frames DEF Becomes
<1>9. OwnInv'
  <2>1. ~Released(o) /\ ~Released(o)'
    BY <1>1, <1>4, <1>5, <1>6 DEF Becomes, Released
  <2>2. \A h \in Handles : (Names(o, h)' <=> Names(o, h)) /\ (Holds(o, h)' <=> Holds(o, h))
    BY <1>5, <1>6, <2>1 DEF Becomes, Names, Holds, Owns
  <2> QED BY <1>1, <1>5, <1>6, <2>2, OwnQuiet DEF Becomes, IInv, Rest
<1> QED BY <1>2, <1>8, <1>9 DEF Rest


-----------------------------------------------------------------------------
(* unflatten.                                                              *)

\* Too large a count: the object forgets its handle.
LEMMA UnflattenTooLargeStep ==
    ASSUME IInv, NEW o \in Objects, UnflattenTooLarge(o)
    PROVE  Rest'
<1>1. /\ Exists(o) /\ call[o] = NoCall
      /\ obj' = [obj EXCEPT ![o] = Cleared(o)]
      /\ lost' = lost \cup {h \in Handles : Owns(o, h)}
      /\ stale' = stale \ {o} /\ unsized' = unsized \ {o}
      /\ UNCHANGED <<device, sAllocList, listOp, reused, call, native, fence>>
  BY DEF UnflattenTooLarge, Ready, allocVars
<1>2. call[o].op = "none" /\ listOp[o] = NoListOp /\ listOp[o].op = "none"
  BY <1>1, Idle
<1>3. Local(o) /\ obj[o] \in ObjRec
  BY ObjTypes DEF IInv, Rest, LocalInv
<1>4. Becomes(o, NULL, obj[o].mOwner, 0, obj[o].mWrappedBuffer, obj[o].held, call[o], listOp[o])
  <2>1. obj'[o] = Cleared(o) /\ call'[o] = call[o] /\ listOp'[o] = listOp[o] /\ Others(o)
    BY <1>1, ReplacedObj DEF IInv
  <2> QED BY <1>3, <2>1, ObjFields DEF Becomes, Cleared
<1>5. Local(o)'
  BY <1>1, <1>2, <1>3, <1>4 DEF Becomes, Local, Exists
<1>6. LocalInv' /\ WrapInv' /\ FenceInv'
  BY <1>1, <1>2, <1>4, <1>5, Frames DEF Becomes, Exists
<1>7. ListInv'
  BY <1>1, ListFrame DEF IInv, Rest, allocVars
<1>8. OwnInv'
  <2>1. \A h \in Handles : Holds(o, h) => h \in lost'
    BY <1>1 DEF Holds
  <2>2. \A h \in Handles : ~Names(o, h)'
    BY <1>4, NoHandle DEF Becomes
  <2> QED BY <1>1, <1>4, <2>1, <2>2, OwnLoses DEF Becomes, IInv, Rest
<1> QED BY <1>6, <1>7, <1>8 DEF Rest

\* unflatten, up to the new handle or to the allocator's lock.
LEMMA UnflattenStep ==
    ASSUME IInv, NEW o \in Objects, NEW v, NEW w, Unflatten(o, v, w)
    PROVE  Rest'
<1> DEFINE c == [op |-> "unflatten", verdict |-> v, width |-> w]
<1>1. /\ Exists(o) /\ call[o] = NoCall
      /\ stale' = stale \cup Above(o) /\ UNCHANGED <<fence, unsized>>
  BY DEF Unflatten, Ready
<1>2. c.op = "unflatten"
  OBVIOUS
<1>3. \/ /\ obj[o].handle = NULL
         /\ call' = [call EXCEPT ![o] = c]
         /\ UNCHANGED <<allocVars, obj, native, lost>>
      \/ /\ obj[o].handle # NULL /\ ReleasedAtOnce(o)
         /\ obj' = [obj EXCEPT ![o].mWrappedBuffer = NULL]
         /\ call' = [call EXCEPT ![o] = c]
      \/ obj[o].handle # NULL /\ ReleaseBegins(o, c) /\ UNCHANGED obj
  BY DEF Unflatten
<1> HIDE DEF c
<1>4. call[o].op = "none" /\ listOp[o] = NoListOp /\ listOp[o].op = "none"
  BY <1>1, Idle
<1>5. Local(o) /\ obj[o] \in ObjRec
  BY ObjTypes DEF IInv, Rest, LocalInv
<1>6. CASE /\ obj[o].handle = NULL
           /\ call' = [call EXCEPT ![o] = c]
           /\ UNCHANGED <<allocVars, obj, native, lost>>
  <2>1. UNCHANGED <<device, listOp, native, lost>>
    BY <1>6 DEF allocVars
  <2>2. obj'[o] = obj[o] /\ call'[o] = c /\ listOp'[o] = listOp[o] /\ Others(o)
    BY <1>6, <2>1, ReplacedCall DEF IInv
  <2>3. Local(o)'
    BY <1>1, <1>2, <1>4, <1>5, <1>6, <2>2 DEF Local, Exists
  <2>4. LocalInv' /\ WrapInv' /\ FenceInv'
    BY <1>1, <1>2, <1>4, <2>2, <2>3, Frames DEF Exists
  <2>5. ListInv'
    BY <1>6, ListFrame DEF IInv, Rest
  <2>6. OwnInv'
    BY <1>1, <1>6, <2>1, <2>2, NoHandle, OwnQuiet DEF IInv, Rest
  <2> QED BY <2>4, <2>5, <2>6 DEF Rest
<1>7. CASE /\ obj[o].handle # NULL /\ ReleasedAtOnce(o)
           /\ obj' = [obj EXCEPT ![o].mWrappedBuffer = NULL]
           /\ call' = [call EXCEPT ![o] = c]
  <2>1. Becomes(o, obj[o].handle, obj[o].mOwner, obj[o].width, NULL, obj[o].held, c, listOp[o])
    <3> DEFINE r == [obj[o] EXCEPT !.mWrappedBuffer = NULL]
    <3>1. obj' = [obj EXCEPT ![o] = r] /\ call' = [call EXCEPT ![o] = c] /\ UNCHANGED listOp
      BY <1>7, AtOnceIsLocal
    <3>2. r = [obj[o] EXCEPT !.mWrappedBuffer = NULL]
      OBVIOUS
    <3> HIDE DEF r
    <3>3. obj'[o] = r /\ call'[o] = c /\ listOp'[o] = listOp[o] /\ Others(o)
      BY <3>1, ReplacedObjCall DEF IInv
    <3> QED BY <1>5, <3>2, <3>3, ObjFields DEF Becomes
  <2>2. Local(o)'
    BY <1>1, <1>2, <1>4, <1>5, <2>1 DEF Becomes, Local, Exists
  <2>3. LocalInv' /\ WrapInv' /\ FenceInv'
    BY <1>1, <1>2, <1>4, <2>1, <2>2, Frames DEF Becomes, Exists
  <2>4. Released(o)'
    BY <1>2, <2>1 DEF Becomes, Released
  <2>5. \A h \in Handles : ~Names(o, h)'
    BY <2>4, NoHandle
  <2>6. OwnInv' /\ UNCHANGED allocVars
    BY <1>1, <1>7, <2>1, <2>5, ReleasedStep DEF Becomes
  <2>7. ListInv'
    BY <2>6, ListFrame DEF IInv, Rest
  <2> QED BY <2>3, <2>6, <2>7 DEF Rest
<1>8. CASE obj[o].handle # NULL /\ ReleaseBegins(o, c) /\ UNCHANGED obj
  <2>1. /\ OwnInv' /\ ListInv' /\ obj[o].mOwner = "ownData"
        /\ Becomes(o, obj[o].handle, "ownData", obj[o].width, obj[o].mWrappedBuffer,
                   obj[o].held, c, listOp'[o])
        /\ listOp'[o].op = "remove" /\ listOp'[o].handle = obj[o].handle
        /\ listOp'[o] # NoListOp
    BY <1>1, <1>2, <1>8, BeginsStep
  <2>2. Local(o)'
    BY <1>1, <1>2, <1>5, <1>8, <2>1 DEF Becomes, Local, Exists
  <2>3. LocalInv' /\ WrapInv' /\ FenceInv'
    BY <1>1, <1>2, <1>4, <2>1, <2>2, Frames DEF Becomes
  <2> QED BY <2>1, <2>3 DEF Rest
<1> QED BY <1>3, <1>6, <1>7, <1>8

\* What an object is like when unflatten goes on after the release.
LEMMA Unflattened ==
    ASSUME IInv, NEW o \in Objects, Unflattening(o)
    PROVE  /\ call[o].op = "unflatten" /\ listOp[o] = NoListOp /\ Released(o)
           /\ \A h \in Handles : ~Names(o, h) /\ ~Holds(o, h)
           /\ Exists(o) /\ Local(o) /\ obj[o] \in ObjRec
           /\ obj[o].mOwner = "ownData" => obj[o].mWrappedBuffer = NULL
<1>1. call[o].op = "unflatten" /\ listOp[o] = NoListOp
  BY DEF Unflattening
<1>2. Released(o)
  BY <1>1 DEF Released
<1>3. Local(o) /\ obj[o] \in ObjRec
  BY ObjTypes DEF IInv, Rest, LocalInv
<1>4. Exists(o)
  BY <1>1, <1>3, CallKinds DEF Local
<1> QED BY <1>1, <1>2, <1>3, <1>4, NoHandle DEF Local

\* The end of a call of unflatten whose object got the fields of r.
LEMMA UnflattenedStep ==
    ASSUME IInv, NEW o \in Objects, Unflattening(o), UnflattenEnds(o),
           NEW h, NEW owner, NEW w, NEW r, obj' = [obj EXCEPT ![o] = r],
           r.handle = h /\ r.mOwner = owner /\ r.width = w,
           r.mWrappedBuffer = obj[o].mWrappedBuffer /\ r.held = obj[o].held,
           owner \in {"ownHandle", obj[o].mOwner}, w = 0 \/ h # NULL
    PROVE  /\ Becomes(o, h, owner, w, obj[o].mWrappedBuffer, obj[o].held, NoCall, NoListOp)
           /\ LocalInv' /\ WrapInv' /\ FenceInv' /\ ListInv'
           /\ UNCHANGED <<device, fence>>
           /\ stale' = stale \ {o}
<1>1. /\ call' = [call EXCEPT ![o] = NoCall]
      /\ stale' = stale \ {o} /\ unsized' = unsized \ {o}
      /\ UNCHANGED <<device, sAllocList, listOp, reused, fence>>
  BY DEF UnflattenEnds, allocVars
<1>2. /\ call[o].op = "unflatten" /\ listOp[o] = NoListOp /\ Exists(o) /\ Local(o)
      /\ obj[o].mOwner = "ownData" => obj[o].mWrappedBuffer = NULL
  BY Unflattened
<1>3. Becomes(o, h, owner, w, obj[o].mWrappedBuffer, obj[o].held, NoCall, NoListOp)
  <2>1. obj'[o] = r /\ call'[o] = NoCall /\ listOp'[o] = listOp[o] /\ Others(o)
    BY <1>1, ReplacedObjCall DEF IInv
  <2> QED BY <1>2, <2>1 DEF Becomes
<1>4. NoCall.op = "none" /\ NoListOp.op = "none"
  BY CallKinds, ListKinds
<1>5. Local(o)'
  BY <1>2, <1>3, <1>4 DEF Becomes, Local, Exists
<1>6. LocalInv' /\ WrapInv' /\ FenceInv'
  BY <1>1, <1>2, <1>3, <1>4, <1>5, Frames DEF Becomes, Exists
<1>7. ListInv'
  BY <1>1, ListFrame DEF IInv, Rest, allocVars
<1> QED BY <1>1, <1>3, <1>6, <1>7

\* unflatten ends without a handle.
LEMMA UnflattenNoneStep ==
    ASSUME IInv, NEW o \in Objects, UnflattenNone(o)
    PROVE  Rest'
<1> DEFINE r == IF call[o].verdict = "empty"
                THEN [Cleared(o) EXCEPT !.mOwner = "ownHandle"] ELSE Cleared(o)
<1>1. /\ Unflattening(o) /\ UnflattenEnds(o) /\ obj' = [obj EXCEPT ![o] = r]
      /\ UNCHANGED <<native, lost>>
  BY DEF UnflattenNone
<1>2. /\ obj[o] \in ObjRec /\ \A h \in Handles : ~Names(o, h) /\ ~Holds(o, h)
  BY <1>1, Unflattened
<1>3. Cleared(o) \in ObjRec
  <2>1. 0 \in Widths
    BY WidthAssumption DEF Widths
  <2> QED BY <1>2, <2>1, ObjKinds DEF Cleared
<1>4. /\ Cleared(o).handle = NULL /\ Cleared(o).mOwner = obj[o].mOwner
      /\ Cleared(o).width = 0 /\ Cleared(o).mWrappedBuffer = obj[o].mWrappedBuffer
      /\ Cleared(o).held = obj[o].held
  BY <1>2, ObjFields DEF Cleared
<1>5. /\ r.handle = NULL /\ r.mOwner \in {"ownHandle", obj[o].mOwner} /\ r.width = 0
      /\ r.mWrappedBuffer = obj[o].mWrappedBuffer /\ r.held = obj[o].held
  <2>1. CASE call[o].verdict = "empty"
    <3>1. r = [Cleared(o) EXCEPT !.mOwner = "ownHandle"]
      BY <2>1
    <3> HIDE DEF r
    <3> QED BY <1>3, <1>4, <3>1, ObjFields
  <2>2. CASE call[o].verdict # "empty"
    <3>1. r = Cleared(o)
      BY <2>2
    <3> HIDE DEF r
    <3> QED BY <1>4, <3>1
  <2> QED BY <2>1, <2>2
<1> HIDE DEF r
<1>6. /\ Becomes(o, NULL, r.mOwner, 0, obj[o].mWrappedBuffer, obj[o].held, NoCall, NoListOp)
      /\ LocalInv' /\ WrapInv' /\ FenceInv' /\ ListInv'
      /\ UNCHANGED <<device, fence>>
      /\ stale' = stale \ {o}
  BY <1>1, <1>5, UnflattenedStep
<1>7. OwnInv'
  BY <1>1, <1>2, <1>6, NoHandle, OwnQuiet DEF Becomes, IInv, Rest
<1> QED BY <1>6, <1>7 DEF Rest

\* unflatten ends with the new handle.
LEMMA UnflattenHandleStep ==
    ASSUME IInv, NEW o \in Objects, NEW g \in Handles, UnflattenHandle(o, g)
    PROVE  Rest'
<1> DEFINE w == call[o].width
           r == [obj[o] EXCEPT !.handle = g, !.width = w, !.mOwner = "ownHandle"]
<1>1. /\ Unflattening(o) /\ UnflattenEnds(o) /\ Unused(g)
      /\ native' = [native EXCEPT ![g] = "made"] /\ UNCHANGED lost
  BY DEF UnflattenHandle
<1>2. obj' = [obj EXCEPT ![o] = r]
  BY DEF UnflattenHandle, IInv, Typed
<1>3. /\ call[o].op = "unflatten" /\ obj[o] \in ObjRec
      /\ \A h \in Handles : ~Names(o, h) /\ ~Holds(o, h)
  BY <1>1, Unflattened
<1>4. w \in Nat /\ g # NULL
  BY <1>3, ObjTypes, CallShape, NullAssumption, WidthAssumption DEF IInv, Widths
<1> HIDE DEF w
<1>5. /\ r.handle = g /\ r.mOwner = "ownHandle" /\ r.width = w
      /\ r.mWrappedBuffer = obj[o].mWrappedBuffer /\ r.held = obj[o].held
  BY <1>3, ObjFields
<1> HIDE DEF r
<1>6. /\ Becomes(o, g, "ownHandle", w, obj[o].mWrappedBuffer, obj[o].held, NoCall, NoListOp)
      /\ LocalInv' /\ WrapInv' /\ FenceInv' /\ ListInv'
      /\ UNCHANGED <<device, fence>>
      /\ stale' = stale \ {o}
  BY <1>1, <1>2, <1>4, <1>5, UnflattenedStep
<1>7. OwnInv'
  <2>1. NoCall.op = "none"
    BY CallKinds
  <2>2. Holds(o, g)' /\ \A h \in Handles \ {g} : ~Names(o, h)'
    BY <1>6, <2>1 DEF Becomes, Holds, Owns, Names, Released
  <2> QED BY <1>1, <1>3, <1>6, <2>2, OwnTakes DEF Becomes, IInv, Rest
<1> QED BY <1>6, <1>7 DEF Rest

\* gralloc does not register the new handle: it is lost.
LEMMA UnflattenUnregisteredStep ==
    ASSUME IInv, NEW o \in Objects, NEW g \in Handles, UnflattenUnregistered(o, g)
    PROVE  Rest'
<1> DEFINE r == [Cleared(o) EXCEPT !.mOwner = "ownHandle"]
<1>1. /\ Unflattening(o) /\ UnflattenEnds(o) /\ Unused(g)
      /\ native' = [native EXCEPT ![g] = "made"] /\ lost' = lost \cup {g}
      /\ obj' = [obj EXCEPT ![o] = r]
  BY DEF UnflattenUnregistered
<1>2. /\ obj[o] \in ObjRec /\ \A h \in Handles : ~Names(o, h) /\ ~Holds(o, h)
  BY <1>1, Unflattened
<1>3. Cleared(o) \in ObjRec
  <2>1. 0 \in Widths
    BY WidthAssumption DEF Widths
  <2> QED BY <1>2, <2>1, ObjKinds DEF Cleared
<1>4. /\ Cleared(o).handle = NULL /\ Cleared(o).width = 0
      /\ Cleared(o).mWrappedBuffer = obj[o].mWrappedBuffer /\ Cleared(o).held = obj[o].held
  BY <1>2, ObjFields DEF Cleared
<1>5. /\ r.handle = NULL /\ r.mOwner = "ownHandle" /\ r.width = 0
      /\ r.mWrappedBuffer = obj[o].mWrappedBuffer /\ r.held = obj[o].held
  BY <1>3, <1>4, ObjFields
<1> HIDE DEF r
<1>6. /\ Becomes(o, NULL, "ownHandle", 0, obj[o].mWrappedBuffer, obj[o].held, NoCall, NoListOp)
      /\ LocalInv' /\ WrapInv' /\ FenceInv' /\ ListInv'
      /\ UNCHANGED <<device, fence>>
      /\ stale' = stale \ {o}
  BY <1>1, <1>5, UnflattenedStep
<1>7. OwnInv'
  <2>1. ASSUME NEW x \in Objects, NEW h \in Handles
        PROVE  /\ Names(x, h)' <=> Names(x, h)
               /\ Holds(x, h)' <=> Holds(x, h)
               /\ Holds(x, h) => obj'[x].mOwner = obj[x].mOwner
               /\ Names(x, h) /\ x \in stale => x \in stale'
    <3>1. CASE x = o
      BY <3>1, <1>2, <1>6, NoHandle DEF Becomes
    <3>2. CASE x # o
      BY <3>2, <1>6, ViewFrame DEF Becomes, Others
    <3> QED BY <3>1, <3>2
  <2>2. \A x \in Objects : obj'[x].mWrappedBuffer = obj[x].mWrappedBuffer
    BY <1>6 DEF Becomes, Others
  <2>3. \A h \in Handles : \/ native'[h] = native[h]
                           \/ Unused(h) /\ native'[h] = "made" /\ h \in lost'
    BY <1>1 DEF IInv, Typed
  <2> QED BY <1>1, <1>6, <2>1, <2>2, <2>3, OwnFrame DEF IInv, Rest
<1> QED BY <1>6, <1>7 DEF Rest

-----------------------------------------------------------------------------
(* lockAsync.                                                              *)

\* A lock call begins or ends: nothing else happens to the objects.
LEMMA LockStep ==
    ASSUME IInv, NEW o \in Objects, NEW c, call' = [call EXCEPT ![o] = c],
           call[o].op \in {"none", "lock"}, c.op \in {"none", "lock"},
           c.op = "none" => c = NoCall, Exists(o),
           UNCHANGED <<allocVars, obj, native, lost, stale, unsized>>, FenceInv'
    PROVE  Rest'
<1>1. UNCHANGED <<device, listOp, native, lost, stale, unsized>>
  BY DEF allocVars
<1>2. obj'[o] = obj[o] /\ call'[o] = c /\ listOp'[o] = listOp[o] /\ Others(o)
  BY <1>1, ReplacedCall DEF IInv
<1>3. Local(o)
  BY DEF IInv, Rest, LocalInv
<1>4. Local(o)'
  BY <1>1, <1>2, <1>3 DEF Local, Exists
<1>5. LocalInv'
  BY <1>1, <1>2, <1>4, LocalFrame DEF IInv, Rest
<1>6. WrapInv'
  <2>1. \A x \in Objects : obj[x].mWrappedBuffer \in Objects \cup {NULL}
    BY ObjTypes DEF IInv
  <2> QED BY <1>2, <2>1, WrapFrame DEF IInv, Rest, Exists
<1>7. ListInv'
  BY ListFrame DEF IInv, Rest
<1>8. OwnInv'
  <2>1. \A h \in Handles : (Names(o, h)' <=> Names(o, h)) /\ (Holds(o, h)' <=> Holds(o, h))
    BY <1>2 DEF Names, Holds, Owns, Released
  <2> QED BY <1>1, <1>2, <2>1, OwnQuiet DEF IInv, Rest
<1> QED BY <1>5, <1>6, <1>7, <1>8 DEF Rest

\* The mapper is passed a fence.
LEMMA LockAsyncStep ==
    ASSUME IInv, NEW o \in Objects, NEW right, NEW way, NEW signaled \in BOOLEAN,
           LockAsync(o, right, way, signaled)
    PROVE  Rest'
<1> DEFINE c == [op |-> "lock", way |-> way]
<1>1. /\ Exists(o) /\ call[o] = NoCall /\ \A x \in Objects : call[x].op # "lock"
      /\ fence' = [fence EXCEPT !.open = fence.open + 1, !.signaled = signaled]
      /\ call' = [call EXCEPT ![o] = c]
      /\ UNCHANGED <<allocVars, obj, native, lost, stale, unsized>>
  BY DEF LockAsync, Ready
<1>2. c.op = "lock"
  OBVIOUS
<1> HIDE DEF c
<1>3. fence.open = 0
  BY <1>1 DEF IInv, Rest, FenceInv
<1>4. fence'.open = 1
  BY <1>1, <1>3 DEF IInv, Typed
<1>5. \A p \in Objects : call'[p].op = "lock" <=> p = o
  BY <1>1, <1>2 DEF IInv, Typed
<1>6. FenceInv'
  BY <1>4, <1>5 DEF FenceInv
<1> QED BY <1>1, <1>2, <1>6, LockStep, CallKinds

\* The fence is closed.
LEMMA LockReturnsStep ==
    ASSUME IInv, NEW o \in Objects, call[o].op = "lock", LockReturns(o)
    PROVE  Rest'
<1>1. /\ fence'.open = fence.open - 1 /\ call' = [call EXCEPT ![o] = NoCall]
      /\ UNCHANGED <<allocVars, obj, native, lost, stale, unsized>>
  BY DEF LockReturns
<1>2. fence.open = 1 /\ \A p \in Objects : call[p].op = "lock" <=> p = o
  BY DEF IInv, Rest, FenceInv
<1>3. NoCall.op = "none"
  BY CallKinds
<1>4. \A p \in Objects : call'[p].op # "lock"
  BY <1>1, <1>2, <1>3 DEF IInv, Typed
<1>5. FenceInv'
  BY <1>1, <1>2, <1>4 DEF FenceInv
<1>6. Exists(o)
  BY <1>3 DEF IInv, Rest, LocalInv, Local
<1> QED BY <1>1, <1>3, <1>5, <1>6, LockStep


-----------------------------------------------------------------------------
(* The invariant, and the theorems.                                        *)

\* It holds in the first state.
LEMMA InvInit == Init => IInv
<1> SUFFICES ASSUME Init PROVE IInv
  OBVIOUS
<1>1. Typed
  BY TypeInit
<1>2. /\ \A o \in Objects : obj[o] = NoObject /\ call[o] = NoCall /\ listOp[o] = NoListOp
      /\ \A h \in Handles : device[h] = 0 /\ sAllocList[h] = 0 /\ native[h] = "free"
      /\ fence.open = 0
  BY DEF Init, AllocInit, Objects
<1>3. NoCall.op = "none" /\ NoListOp.op = "none"
  BY CallKinds, ListKinds
<1>4. \A o \in Objects :
          /\ obj[o].handle = NULL /\ obj[o].mOwner = "none" /\ obj[o].width = 0
          /\ obj[o].mWrappedBuffer = NULL /\ obj[o].held = FALSE
          /\ call[o].op = "none" /\ listOp[o].op = "none"
  BY <1>2, <1>3, ObjFields
<1>5. LocalInv
  BY <1>2, <1>4 DEF LocalInv, Local, Exists
<1>6. WrapInv
  BY <1>4 DEF WrapInv
<1>7. ListInv
  BY <1>2, <1>4 DEF ListInv, Due, RecordsAreCurrent, MissedOnlyByReuse
<1>8. FenceInv
  BY <1>2, <1>4 DEF FenceInv
<1>9. OwnInv
  <2>1. \A o \in Objects, h \in Handles : ~Names(o, h) /\ ~Holds(o, h)
    BY <1>4, NoHandle
  <2> QED BY <1>2, <2>1 DEF OwnInv, HoldInv, LostInv, ReachInv
<1> QED BY <1>1, <1>5, <1>6, <1>7, <1>8, <1>9 DEF IInv, Rest

\* Every step keeps it.
LEMMA InvStep == IInv /\ [Next]_vars => IInv'
<1> SUFFICES ASSUME IInv, [Next]_vars PROVE IInv'
  OBVIOUS
<1>1. Typed'
  BY TypeStep DEF IInv, Rest
<1>2. CASE UNCHANGED vars
  <2>1. UNCHANGED <<device, sAllocList, listOp, reused, obj, call, native, fence, lost, stale, unsized>>
    BY <1>2 DEF vars, allocVars
  <2>2. LocalInv' /\ WrapInv'
    BY <2>1 DEF IInv, Rest, LocalInv, Local, Exists, WrapInv
  <2>3. ListInv'
    BY <2>1, ListFrame DEF IInv, Rest, allocVars
  <2>4. FenceInv'
    BY <2>1 DEF IInv, Rest, FenceInv
  <2>5. OwnInv'
    <3>1. \A x \in Objects, h \in Handles : /\ Names(x, h)' <=> Names(x, h)
                                            /\ Holds(x, h)' <=> Holds(x, h)
      BY <2>1, ViewFrame
    <3> QED BY <2>1, <3>1, OwnFrame DEF IInv, Rest
  <2> QED BY <1>1, <2>2, <2>3, <2>4, <2>5 DEF IInv, Rest
<1>3. CASE Next
  <2>1. ASSUME Signal PROVE Rest'
    BY <2>1, SignalStep
  <2>2. ASSUME NEW h \in Handles, Import(h) \/ ClientCloses(h) PROVE Rest'
    BY <2>2, ClientStep
  <2>3. ASSUME NEW o \in Objects,
               \/ NewEmpty(o)
               \/ \E w \in Widths : NewSized(o, w)
               \/ \E w \in Widths, h \in Handles, k \in BOOLEAN : NewFromHandle(o, h, w, k)
               \/ \E b \in Objects, k \in BOOLEAN : NewWrapper(o, b, k)
               \/ DropReference(o)
               \/ Destroy(o)
               \/ AfterFree(o)
        PROVE  Rest'
    BY <2>3, NewStep, NewFromHandleStep, NewWrapperStep, DropStep, DestroyStep, AfterFreeStep
  <2>4. ASSUME NEW o \in Objects,
               \/ \E w \in Widths : Reallocate(o, w)
               \/ \E h \in Handles : InitSize(o, h)
               \/ InitSizeFails(o)
               \/ InitSizeEnds(o)
        PROVE  Rest'
    BY <2>4, ReallocateStep, InitSizeStep, InitSizeFailsStep, InitSizeEndsStep
  <2>5. ASSUME NEW o \in Objects,
               \/ UnflattenTooLarge(o)
               \/ \E v \in {"empty", "handle"}, w \in Widths : Unflatten(o, v, w)
               \/ UnflattenNone(o)
               \/ \E h \in Handles : UnflattenHandle(o, h)
               \/ \E h \in Handles : UnflattenUnregistered(o, h)
        PROVE  Rest'
    BY <2>5, UnflattenTooLargeStep, UnflattenStep, UnflattenNoneStep, UnflattenHandleStep,
       UnflattenUnregisteredStep
  <2>6. ASSUME NEW o \in Objects,
               \/ \E right \in Widths, way \in Ways, signaled \in BOOLEAN :
                     LockAsync(o, right, way, signaled)
               \/ call[o].op = "lock" /\ LockReturns(o)
        PROVE  Rest'
    BY <2>6, LockAsyncStep, LockReturnsStep
  <2> QED BY <1>1, <1>3, <2>1, <2>2, <2>3, <2>4, <2>5, <2>6, NextCases DEF IInv
<1> QED BY <1>2, <1>3

\* The inductive invariant always holds.
LEMMA Invariant == Spec => []IInv
BY InvInit, InvStep, PTL DEF Spec

\* Every variable keeps its type.
THEOREM TypeCorrect == Spec => []TypeOK
<1>1. IInv => TypeOK
  BY Types DEF IInv
<1> QED BY <1>1, Invariant, PTL

\* dump prints no record of a buffer that is gone, or that another one has
\* replaced at its address, unless a thread is about to correct it, however
\* many threads are between the device and sLock.
THEOREM ListIsCurrent == Spec => []RecordsAreCurrent
<1>1. IInv => RecordsAreCurrent
  BY DEF IInv, Rest, ListInv
<1> QED BY <1>1, Invariant, PTL

\* dump misses a buffer only when its address was given out again between a
\* free of the device and the removal of the record.
THEOREM ListMissesReused == Spec => []MissedOnlyByReuse
<1>1. IInv => MissedOnlyByReuse
  BY DEF IInv, Rest, ListInv
<1> QED BY <1>1, Invariant, PTL

\* free_handle releases every handle once, and the way it was made.
THEOREM ReleasesMatch == Spec => []ReleasedOnceAsMade
<1>1. ASSUME IInv PROVE ReleasedOnceAsMade
  <2> SUFFICES ASSUME NEW o \in Objects, NEW h \in Handles, Owns(o, h), ~Released(o)
               PROVE  /\ IF obj[o].mOwner = "ownData" THEN device[h] > 0
                                                      ELSE native[h] # "free"
                      /\ \A p \in Objects \ {o} : Owns(p, h) => Released(p)
    BY DEF ReleasedOnceAsMade
  <2> QED BY <1>1 DEF IInv, Rest, OwnInv, HoldInv, Holds
<1> QED BY <1>1, Invariant, PTL

\* The handle an object names is alive, through any chain of wrappers, unless
\* the buffer at the end of the chain was reallocated or unflattened.
THEOREM HandlesAlive == Spec => []NoDanglingHandle
<1>1. ASSUME IInv PROVE NoDanglingHandle
  <2> SUFFICES ASSUME NEW o \in Objects \ stale, obj[o].handle # NULL, ~Released(o)
               PROVE  Live(obj[o].handle)
    BY DEF NoDanglingHandle
  <2>1. obj[o].handle \in Handles
    BY <1>1, ObjTypes DEF IInv
  <2>2. Names(o, obj[o].handle)
    BY DEF Names
  <2> QED BY <1>1, <2>1, <2>2 DEF IInv, Rest, OwnInv, ReachInv
<1> QED BY <1>1, Invariant, PTL

\* Every buffer has an owner that will release it, but for the three refusals
\* that lose it.
THEOREM LossesKnown == Spec => []NothingElseLost
<1>1. IInv => NothingElseLost
  BY DEF IInv, Rest, OwnInv, LostInv, Holds, NothingElseLost
<1> QED BY <1>1, Invariant, PTL

\* An object with a size has a handle, but for a failed reallocation.
THEOREM SizesHaveHandles == Spec => []SizeHasHandle
<1>1. ASSUME IInv PROVE SizeHasHandle
  BY <1>1, CallKinds DEF IInv, Rest, LocalInv, Local, SizeHasHandle
<1> QED BY <1>1, Invariant, PTL

\* The mapper has as many fences open as it has calls in progress.
THEOREM FencesClosed == Spec => []FenceHandled
<1>1. ASSUME IInv PROVE FenceHandled
  <2> DEFINE L == {o \in Objects : call[o].op = "lock"}
  <2>1. CASE fence.open = 0 /\ \A o \in Objects : call[o].op # "lock"
    <3>1. L = {}
      BY <2>1
    <3> QED BY <2>1, <3>1, FS_EmptySet DEF FenceHandled
  <2>2. CASE /\ fence.open = 1
             /\ \E o \in Objects : \A p \in Objects : call[p].op = "lock" <=> p = o
    <3>1. PICK o \in Objects : L = {o}
      BY <2>2
    <3>2. Cardinality(L) = 1
      BY <3>1, FS_Singleton
    <3> QED BY <2>2, <3>2 DEF FenceHandled
  <2> QED BY <1>1, <2>1, <2>2 DEF IInv, Rest, FenceInv
<1> QED BY <1>1, Invariant, PTL
=============================================================================
