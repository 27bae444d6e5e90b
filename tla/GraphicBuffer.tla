---------------------------- MODULE GraphicBuffer ----------------------------
(***************************************************************************)
(* GraphicBuffer, shim/ui/GraphicBuffer.cpp, on top of the allocator and   *)
(* of GraphicBufferMapper.cpp.  An object holds one handle and remembers   *)
(* in mOwner how to let go of it.  The class has no lock: callers make one *)
(* call at a time on an object, and calls on different objects interleave  *)
(* at the allocator's steps and at sync_wait.                              *)
(***************************************************************************)
EXTENDS GraphicBufferAllocator, FiniteSets

CONSTANT NULL

Objects == Callers
Widths  == 0..MaxWidth

ASSUME NullAssumption == NULL \notin Handles /\ NULL \notin Objects

VARIABLES
    obj,      \* the objects: their fields and the callers' references
    call,     \* per object: the call in progress, when it has paused
    native,   \* per handle: who made it as a native_handle_t, if anybody
    fence,    \* the fences of lockAsync: how many are open, and the signal
    lost,     \* history: existing handles the code has let go of
    stale,    \* history: objects naming a handle they are not to rely on
    unsized   \* history: objects whose width a failed allocation left behind

vars == <<allocVars, obj, call, native, fence, lost, stale, unsized>>

NoObject == [handle |-> NULL, mOwner |-> "none", width |-> 0,
             mWrappedBuffer |-> NULL, held |-> FALSE]

Object(h, owner, w, b) ==
    [handle |-> h, mOwner |-> owner, width |-> w, mWrappedBuffer |-> b,
     held |-> TRUE]

NoCall == [op |-> "none"]

Exists(o) == obj[o].mOwner # "none"
Wrappers(o) == {x \in Objects : obj[x].mWrappedBuffer = o}
\* The objects that reach o along mWrappedBuffer.
Above(o) == {x \in Objects : \A S \in SUBSET Objects :
    Wrappers(o) \subseteq S /\ (\A y \in S : Wrappers(y) \subseteq S) => x \in S}
\* Objects that name handle h.
Naming(h) == {x \in Objects : obj[x].handle = h}
Owns(o, h) == obj[o].handle = h /\ obj[o].mOwner \in {"ownData", "ownHandle"}

\* A caller with a reference may call o.
Ready(o) == Exists(o) /\ obj[o].held /\ call[o] = NoCall

\* An address in use for nothing.
Unused(h) == device[h] = 0 /\ native[h] = "free"

Init ==
    /\ AllocInit
    /\ obj = [o \in Objects |-> NoObject]
    /\ call = [o \in Objects |-> NoCall]
    /\ native = [h \in Handles |-> "free"]
    /\ fence = [open |-> 0, signaled |-> FALSE]
    /\ lost = {}
    /\ stale = {}
    /\ unsized = {}

-----------------------------------------------------------------------------
(* Construction.                                                           *)

\* A handle the client may give away: it is the client's own to release.
Givable(h) == native[h] = "client" /\ h \notin lost
                /\ \A x \in Objects : ~Owns(x, h)

\* A client imports a handle from elsewhere, and closes it when it is its
\* own and no object uses it.
Import(h) ==
    /\ Unused(h)
    /\ native' = [native EXCEPT ![h] = "client"]
    /\ UNCHANGED <<allocVars, obj, call, fence, lost, stale, unsized>>

ClientCloses(h) ==
    /\ Givable(h)
    /\ Naming(h) = {}
    /\ native' = [native EXCEPT ![h] = "free"]
    /\ UNCHANGED <<allocVars, obj, call, fence, lost, stale, unsized>>

\* GraphicBuffer(), and the part of GraphicBuffer(w, h, ...) that comes
\* before initSize.
New(o) ==
    /\ ~Exists(o)
    /\ call[o] = NoCall
    /\ obj' = [obj EXCEPT ![o] = Object(NULL, "ownData", 0, NULL)]
    /\ UNCHANGED <<allocVars, native, fence, lost, stale, unsized>>

NewEmpty(o) == New(o) /\ UNCHANGED call

NewSized(o, w) ==
    /\ New(o)
    /\ call' = [call EXCEPT ![o] = [op |-> "initSize", width |-> w]]

Owner(keepOwnership) == IF keepOwnership THEN "ownHandle" ELSE "ownNone"

\* GraphicBuffer(w, h, ..., inHandle, keepOwnership).
NewFromHandle(o, h, w, keepOwnership) ==
    /\ ~Exists(o)
    /\ call[o] = NoCall
    /\ Givable(h)
    /\ obj' = [obj EXCEPT ![o] = Object(h, Owner(keepOwnership), w, NULL)]
    /\ stale' = IF keepOwnership THEN stale \cup Naming(h) ELSE stale
    /\ UNCHANGED <<allocVars, call, native, fence, lost, unsized>>

\* Mutant: the wrapper takes no reference on the wrapped buffer.
Wrapping_unreferenced(b, keepOwnership) ==
    Object(obj[b].handle, Owner(keepOwnership), obj[b].width, NULL)

\* The fields that GraphicBuffer(buffer, keepOwnership) copies.
Wrapping(b, keepOwnership) ==
    Object(obj[b].handle, Owner(keepOwnership), obj[b].width, b)

\* GraphicBuffer(buffer, keepOwnership).  keepOwnership is for a buffer
\* whose handle nobody else releases.
NewWrapper(o, b, keepOwnership) ==
    /\ ~Exists(o)
    /\ call[o] = NoCall
    /\ Ready(b)
    /\ keepOwnership => obj[b].handle \in Handles /\ Givable(obj[b].handle)
    /\ obj' = [obj EXCEPT ![o] = Wrapping(b, keepOwnership)]
    /\ stale' = stale \cup (IF b \in stale THEN {o} ELSE {})
                      \cup (IF keepOwnership THEN Naming(obj[b].handle) ELSE {})
    /\ unsized' = IF b \in unsized THEN unsized \cup {o} ELSE unsized
    /\ UNCHANGED <<allocVars, call, native, fence, lost>>

-----------------------------------------------------------------------------
(* Letting go of a handle.                                                 *)

\* free_handle for a handle the object does not own, or owns as a
\* native_handle_t: unregister, close, delete.
ReleaseNative(o) ==
    /\ obj[o].mOwner \in {"ownNone", "ownHandle"}
    /\ native' = IF obj[o].mOwner = "ownHandle"
                 THEN [native EXCEPT ![obj[o].handle] = "free"] ELSE native
    /\ UNCHANGED <<allocVars, lost>>

\* allocator.free that the device refuses; its result is ignored.
ReleaseRefused(o) ==
    /\ obj[o].mOwner = "ownData"
    /\ DeviceKeeps(o, obj[o].handle)
    /\ lost' = lost \cup {obj[o].handle}
    /\ UNCHANGED native

\* A handle is gone in one step, except one that the device frees.
ReleasedAtOnce(o) == ReleaseNative(o) \/ ReleaseRefused(o)

\* The first half of allocator.free; c is the call that goes on after it.
ReleaseBegins(o, c) ==
    /\ obj[o].mOwner = "ownData"
    /\ DeviceFree(o, obj[o].handle)
    /\ call' = [call EXCEPT ![o] = c]
    /\ UNCHANGED <<native, lost>>

\* The last reference of a caller.
DropReference(o) ==
    /\ Ready(o)
    /\ obj' = [obj EXCEPT ![o].held = FALSE]
    /\ UNCHANGED <<allocVars, call, native, fence, lost, stale, unsized>>

Unreferenced(o) ==
    /\ Exists(o) /\ ~obj[o].held
    /\ call[o] = NoCall
    /\ Wrappers(o) = {}

Gone(o) == /\ obj' = [obj EXCEPT ![o] = NoObject]
           /\ stale' = stale \ {o}
           /\ unsized' = unsized \ {o}

\* The destructor, and with it the reference on a wrapped buffer.
Destroy(o) ==
    /\ Unreferenced(o)
    /\ \/ /\ \/ obj[o].handle = NULL /\ UNCHANGED <<allocVars, native, lost>>
             \/ obj[o].handle # NULL /\ ReleasedAtOnce(o)
          /\ Gone(o)
          /\ UNCHANGED call
       \/ /\ obj[o].handle # NULL
          /\ ReleaseBegins(o, [op |-> "destroy"])
          /\ UNCHANGED <<obj, stale, unsized>>
    /\ UNCHANGED fence

\* The second half of allocator.free, and what its caller does up to the
\* next pause: the destructor ends, reallocate clears the handle, free_handle
\* drops mWrappedBuffer.
AfterFree(o) ==
    /\ ListRemove(o)
    /\ \/ /\ call[o].op = "destroy"
          /\ Gone(o)
          /\ call' = [call EXCEPT ![o] = NoCall]
       \/ /\ call[o].op = "initSize"
          /\ obj' = [obj EXCEPT ![o].handle = NULL]
          /\ UNCHANGED <<call, stale, unsized>>
       \/ /\ call[o].op = "unflatten"
          /\ obj' = [obj EXCEPT ![o].mWrappedBuffer = NULL]
          /\ UNCHANGED <<call, stale, unsized>>
    /\ UNCHANGED <<native, fence, lost>>

-----------------------------------------------------------------------------
(* reallocate and initSize.                                                *)

\* Mutant: reallocate does not free what the object has.
Reallocate_keeps(o, w) ==
    /\ Ready(o)
    /\ obj[o].mOwner = "ownData"
    /\ obj[o].handle = NULL \/ w # obj[o].width
    /\ obj' = [obj EXCEPT ![o].handle = NULL]
    /\ call' = [call EXCEPT ![o] = [op |-> "initSize", width |-> w]]
    /\ stale' = stale \cup Above(o)
    /\ UNCHANGED <<allocVars, native, fence, lost, unsized>>

\* reallocate: INVALID_OPERATION and an unchanged size do nothing.
Reallocate(o, w) ==
    /\ Ready(o)
    /\ obj[o].mOwner = "ownData"
    /\ obj[o].handle = NULL \/ w # obj[o].width
    /\ LET c == [op |-> "initSize", width |-> w]
       IN  \/ /\ obj[o].handle = NULL
              /\ call' = [call EXCEPT ![o] = c]
              /\ UNCHANGED <<allocVars, obj, native, lost>>
           \/ /\ obj[o].handle # NULL
              /\ ReleasedAtOnce(o)
              /\ obj' = [obj EXCEPT ![o].handle = NULL]
              /\ call' = [call EXCEPT ![o] = c]
           \/ /\ obj[o].handle # NULL
              /\ ReleaseBegins(o, c)
              /\ UNCHANGED obj
    /\ stale' = stale \cup Above(o)
    /\ UNCHANGED <<fence, unsized>>

\* initSize: the device writes the handle into the object, or fails.
InitSize(o, h) ==
    /\ call[o].op = "initSize"
    /\ obj[o].handle = NULL
    /\ Unused(h)
    /\ DeviceAlloc(o, h, call[o].width)
    /\ obj' = [obj EXCEPT ![o].handle = h]
    /\ UNCHANGED <<call, native, fence, lost, stale, unsized>>

InitSizeFails(o) ==
    /\ call[o].op = "initSize"
    /\ listOp[o] = NoListOp
    /\ obj[o].handle = NULL
    /\ call' = [call EXCEPT ![o] = NoCall]
    /\ unsized' = IF obj[o].width > 0 THEN unsized \cup {o} ELSE unsized
    /\ UNCHANGED <<allocVars, obj, native, fence, lost, stale>>

\* The rest of initSize: the size asked for, also when it is zero.
InitSizeEnds(o) ==
    /\ ListAdd(o)
    /\ obj' = [obj EXCEPT ![o].width = call[o].width]
    /\ call' = [call EXCEPT ![o] = NoCall]
    /\ unsized' = unsized \ {o}
    /\ UNCHANGED <<native, fence, lost, stale>>

-----------------------------------------------------------------------------
(* unflatten.                                                              *)

maxNumber == 4096

\* What a parcel holds for unflatten: its size in ints, whether it starts
\* with GBFR, the two counts of the handle and the descriptors with it.
\* The counts lie behind the eight ints the first check asks for: a shorter
\* parcel leaves them to whatever follows it.
Parcels == [size : {7, 8, 9, 10, 11}, magic : BOOLEAN,
            numFds : {0, 1, maxNumber - 1, maxNumber},
            numInts : {0, 1, maxNumber - 11, maxNumber - 10}, count : {0, 1}]

\* How far unflatten gets: refused with nothing changed, refused with the
\* object cleared, or accepted with no handle or with one.
Verdict(p) ==
    IF p.size < 8 \/ ~p.magic THEN "refused"
    ELSE IF p.numFds >= maxNumber \/ p.numInts >= maxNumber - 10 THEN "cleared"
    ELSE IF p.size < 10 + p.numInts \/ p.count < p.numFds THEN "refused"
    ELSE IF p.numFds = 0 /\ p.numInts = 0 THEN "empty" ELSE "handle"

Verdicts == {Verdict(p) : p \in Parcels} \ {"refused"}

\* Mutant: too large a count leaves the size the object had.
Cleared_keeps_size(o) == [obj[o] EXCEPT !.handle = NULL]

Cleared(o) == [obj[o] EXCEPT !.handle = NULL, !.width = 0]

\* Too large a count clears the object and releases nothing.
UnflattenTooLarge(o) ==
    /\ Ready(o)
    /\ "cleared" \in Verdicts
    /\ obj' = [obj EXCEPT ![o] = Cleared(o)]
    /\ lost' = lost \cup {h \in Handles : Owns(o, h)}
    /\ stale' = stale \ {o}
    /\ unsized' = unsized \ {o}
    /\ UNCHANGED <<allocVars, call, native, fence>>

\* A well-formed parcel, with or without a handle: the previous handle goes.
Unflatten(o, v, w) ==
    /\ Ready(o)
    /\ v = "empty" => w = 0
    /\ LET c == [op |-> "unflatten", verdict |-> v, width |-> w]
       IN  \/ /\ obj[o].handle = NULL
              /\ call' = [call EXCEPT ![o] = c]
              /\ UNCHANGED <<allocVars, obj, native, lost>>
           \/ /\ obj[o].handle # NULL
              /\ ReleasedAtOnce(o)
              /\ obj' = [obj EXCEPT ![o].mWrappedBuffer = NULL]
              /\ call' = [call EXCEPT ![o] = c]
           \/ /\ obj[o].handle # NULL
              /\ ReleaseBegins(o, c)
              /\ UNCHANGED obj
    /\ stale' = stale \cup Above(o)
    /\ UNCHANGED <<fence, unsized>>

Unflattening(o) == call[o].op = "unflatten" /\ listOp[o] = NoListOp

UnflattenEnds(o) ==
    /\ call' = [call EXCEPT ![o] = NoCall]
    /\ stale' = stale \ {o}
    /\ unsized' = unsized \ {o}
    /\ UNCHANGED <<allocVars, fence>>

\* The rest of unflatten without a handle: the parcel has none, or
\* native_handle_create fails (and then mOwner stays).
UnflattenNone(o) ==
    /\ Unflattening(o)
    /\ obj' = [obj EXCEPT ![o] =
            IF call[o].verdict = "empty"
            THEN [Cleared(o) EXCEPT !.mOwner = "ownHandle"] ELSE Cleared(o)]
    /\ UnflattenEnds(o)
    /\ UNCHANGED <<native, lost>>

\* Mutant: mOwner keeps saying how the previous handle was made.
UnflattenHandle_keeps_owner(o, h) ==
    /\ Unflattening(o)
    /\ call[o].verdict = "handle"
    /\ Unused(h)
    /\ native' = [native EXCEPT ![h] = "made"]
    /\ obj' = [obj EXCEPT ![o].handle = h, ![o].width = call[o].width]
    /\ UnflattenEnds(o)
    /\ UNCHANGED lost

\* The rest of unflatten with a new handle that gralloc registers.
UnflattenHandle(o, h) ==
    /\ Unflattening(o)
    /\ call[o].verdict = "handle"
    /\ Unused(h)
    /\ native' = [native EXCEPT ![h] = "made"]
    /\ obj' = [obj EXCEPT ![o].handle = h, ![o].width = call[o].width,
                          ![o].mOwner = "ownHandle"]
    /\ UnflattenEnds(o)
    /\ UNCHANGED lost

\* registerBuffer fails: the new handle is forgotten.
UnflattenUnregistered(o, h) ==
    /\ Unflattening(o)
    /\ call[o].verdict = "handle"
    /\ Unused(h)
    /\ native' = [native EXCEPT ![h] = "made"]
    /\ lost' = lost \cup {h}
    /\ obj' = [obj EXCEPT ![o] = [Cleared(o) EXCEPT !.mOwner = "ownHandle"]]
    /\ UnflattenEnds(o)

-----------------------------------------------------------------------------
(* lockAsync and lockAsyncYCbCr with a fence, through the mapper.  (Without *)
(* a fence they are lock and lockYCbCr and change nothing here.)           *)

\* What a gralloc module implements.  A process has one module; no property
\* relates two lock calls, so the module is chosen anew at every call.
Modules == [api_0_3 : BOOLEAN, lock_ycbcr : BOOLEAN, lockAsync_ycbcr : BOOLEAN]

\* The mapper's way through lockAsync or lockAsyncYCbCr.
Way(m, ycbcr) ==
    IF m.api_0_3 /\ (ycbcr => m.lockAsync_ycbcr) THEN "passed"
    ELSE IF ~ycbcr \/ m.lock_ycbcr THEN "waiting"
    ELSE "unsupported"

Ways == {Way(m, ycbcr) : m \in Modules, ycbcr \in BOOLEAN}

\* A rectangle outside the buffer is refused, and the fence stays with the
\* caller.  Otherwise it is the mapper's.
LockAsync(o, right, way, signaled) ==
    /\ Ready(o)
    /\ right <= obj[o].width
    /\ \A x \in Objects : call[x].op # "lock"   \* bound: one fence at a time
    /\ fence' = [fence EXCEPT !.open = @ + 1, !.signaled = signaled]
    /\ call' = [call EXCEPT ![o] = [op |-> "lock", way |-> way]]
    /\ UNCHANGED <<allocVars, obj, native, lost, stale, unsized>>

\* Whoever works on the buffer finishes.
Signal ==
    /\ \E o \in Objects : call[o].op = "lock"
    /\ ~fence.signaled
    /\ fence' = [fence EXCEPT !.signaled = TRUE]
    /\ UNCHANGED <<allocVars, obj, call, native, lost, stale, unsized>>

\* The fence is closed and the call returns, with the buffer locked or not.
LockReturns(o) ==
    /\ fence' = [open |-> fence.open - 1, signaled |-> FALSE]
    /\ call' = [call EXCEPT ![o] = NoCall]
    /\ UNCHANGED <<allocVars, obj, native, lost, stale, unsized>>

\* gralloc is passed the fence and closes it.
LockPassed(o) ==
    /\ call[o] = [op |-> "lock", way |-> "passed"]
    /\ LockReturns(o)

\* Mutant: the mapper returns -EINVAL before it closes the fence.
LockUnsupported_open(o) ==
    /\ call[o] = [op |-> "lock", way |-> "unsupported"]
    /\ fence' = [fence EXCEPT !.signaled = FALSE]
    /\ call' = [call EXCEPT ![o] = NoCall]
    /\ UNCHANGED <<allocVars, obj, native, lost, stale, unsized>>

\* No way to lock: the mapper closes the fence and returns -EINVAL.
LockUnsupported(o) ==
    /\ call[o] = [op |-> "lock", way |-> "unsupported"]
    /\ LockReturns(o)

\* sync_wait, which waits for ever, then close and gralloc's lock.
SyncWait(o) ==
    /\ call[o] = [op |-> "lock", way |-> "waiting"]
    /\ fence.signaled
    /\ LockReturns(o)

\* sync_wait that fails: its result is ignored, and the buffer is locked
\* ahead of its fence.
SyncWaitFails(o) ==
    /\ call[o] = [op |-> "lock", way |-> "waiting"]
    /\ LockReturns(o)

-----------------------------------------------------------------------------
\* The steps that finish a call on o.
Continue(o) ==
    \/ AfterFree(o) \/ InitSizeFails(o) \/ InitSizeEnds(o) \/ UnflattenNone(o)
    \/ LockPassed(o) \/ LockUnsupported(o) \/ SyncWait(o) \/ SyncWaitFails(o)
    \/ \E h \in Handles : InitSize(o, h) \/ UnflattenHandle(o, h)
                            \/ UnflattenUnregistered(o, h)

Next ==
    \/ Signal
    \/ \E h \in Handles : Import(h) \/ ClientCloses(h)
    \/ \E o \in Objects :
        \/ NewEmpty(o) \/ DropReference(o) \/ Destroy(o) \/ UnflattenTooLarge(o)
        \/ Continue(o)
        \/ \E w \in Widths :
            \/ NewSized(o, w) \/ Reallocate(o, w)
            \/ \E h \in Handles, k \in BOOLEAN : NewFromHandle(o, h, w, k)
            \/ \E v \in Verdicts \ {"cleared"} : Unflatten(o, v, w)
        \/ \E b \in Objects, k \in BOOLEAN : NewWrapper(o, b, k)
        \/ \E right \in Widths, way \in Ways, signaled \in BOOLEAN :
            LockAsync(o, right, way, signaled)

Spec == Init /\ [][Next]_vars

-----------------------------------------------------------------------------
(* Properties.                                                             *)

TypeOK ==
    /\ AllocTypeOK
    /\ obj \in [Objects ->
            [handle : Handles \cup {NULL},
             mOwner : {"none", "ownNone", "ownHandle", "ownData"},
             width : Widths, mWrappedBuffer : Objects \cup {NULL},
             held : BOOLEAN]]
    /\ call \in [Objects ->
            {NoCall} \cup [op : {"destroy"}]
              \cup [op : {"lock"}, way : Ways]
              \cup [op : {"initSize"}, width : Widths]
              \cup [op : {"unflatten"}, verdict : {"empty", "handle"},
                    width : Widths]]
    /\ native \in [Handles -> {"free", "client", "made"}]
    /\ fence \in [open : 0..1, signaled : BOOLEAN]
    /\ lost \subseteq Handles
    /\ stale \subseteq Objects
    /\ unsized \subseteq Objects

Live(h) == device[h] > 0 \/ native[h] # "free"

\* o has released the handle its field still names.
Released(o) == \/ call[o].op \in {"destroy", "unflatten"}
               \/ call[o].op = "initSize" /\ listOp[o].op = "remove"

\* A handle is released once and the way it was made: whoever owns it as
\* data has it from the device, whoever owns it as a handle has a
\* native_handle_t, and no two objects own the same one.
ReleasedOnceAsMade ==
    \A o \in Objects, h \in Handles :
        Owns(o, h) /\ ~Released(o) =>
            /\ IF obj[o].mOwner = "ownData" THEN device[h] > 0
                                            ELSE native[h] # "free"
            /\ \A p \in Objects \ {o} : Owns(p, h) => Released(p)

\* The handle of an object is alive, that of a wrapper too: the wrapped
\* buffer cannot be destroyed under it.  The exception is a wrapper (of a
\* wrapper) of a buffer that was reallocated or unflattened after it.
NoDanglingHandle ==
    \A o \in Objects \ stale :
        obj[o].handle # NULL /\ ~Released(o) => Live(obj[o].handle)

\* Every buffer made here has an owner that will release it, except after
\* the three refusals that lose it: the device's to free, unflatten's of too
\* large a count, and gralloc's to register.
NothingElseLost ==
    \A h \in Handles \ lost :
        device[h] > 0 \/ native[h] = "made" => \E o \in Objects : Owns(o, h)

\* A size without a handle, which would let lock through to gralloc with
\* NULL, is only what a failed reallocation leaves behind.
SizeHasHandle ==
    \A o \in Objects \ unsized :
        call[o] = NoCall /\ obj[o].width > 0 => obj[o].handle # NULL

\* The mapper closes the fence it was passed exactly once before it returns,
\* whichever way the gralloc module makes it take.
FenceHandled ==
    fence.open = Cardinality({o \in Objects : call[o].op = "lock"})
=============================================================================
