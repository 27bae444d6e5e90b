--------------------------- MODULE CameraMetadata ---------------------------
(***************************************************************************)
(* The CameraMetadata wrapper (src/shim/camera/CameraMetadata.cpp and .h): *)
(* C++ objects that each own at most one raw camera_metadata_t buffer.     *)
(* The module follows who owns which buffer through every call a client    *)
(* can make: construction, cloning, moving, locking, growing, parcelling.  *)
(*                                                                         *)
(* Content is abstracted to what the code computes with: a buffer is its   *)
(* entry count n, its data count d and the two capacities.  Tags are left  *)
(* out, so a lookup may find any entry or none.  The camera_metadata       *)
(* library is not in the repository: its operators are marked external.    *)
(***************************************************************************)
EXTENDS Integers

CONSTANTS
    Objs,           \* CameraMetadata objects
    Bufs,           \* addresses the library can hand out
    NULL,           \* the null pointer
    Free,           \* content of an address that is not allocated
    MaxEntries,     \* bound: entries in one buffer
    MaxData         \* bound: data units in one buffer

ASSUME CameraMetadataAssumption ==
    /\ NULL \notin Bufs
    /\ \A n \in 0 .. MaxEntries, d \in 0 .. MaxData,
          e \in 0 .. 2 * MaxEntries, c \in 0 .. 2 * MaxData :
             [n |-> n, d |-> d, ecap |-> e, dcap |-> c] # Free
    /\ MaxEntries \in Nat \ {0}
    /\ MaxData \in Nat

VARIABLES
    live,       \* the objects that are constructed and not yet destroyed
    mBuffer,    \* per object: the buffer it references, or NULL
    mLocked,    \* per object: set between getAndLock and unlock
    heap,       \* per address: the metadata it holds, or Free
    raw,        \* the buffers whose ownership is with the client
    stale,      \* which kinds of source the library has read after their
                \* free: see Kind
    res         \* status of the last call ("void" when it returns none)

vars == <<live, mBuffer, mLocked, heap, raw, stale, res>>

(***************************************************************************)
(* The library's view of a buffer.                                         *)
(***************************************************************************)
Meta == [n : 0 .. MaxEntries, d : 0 .. MaxData,
         ecap : 0 .. 2 * MaxEntries, dcap : 0 .. 2 * MaxData]

Metadata(n, d, ecap, dcap) == [n |-> n, d |-> d, ecap |-> ecap, dcap |-> dcap]

\* external: allocate_camera_metadata
Empty(ecap, dcap) == Metadata(0, 0, ecap, dcap)

\* external: clone_camera_metadata and allocate_copy_camera_metadata_checked
\* give the copy just the room its content takes.
Compact(m) == Metadata(m.n, m.d, m.n, m.d)

Status == {"void", "OK", "INVALID_OPERATION", "BAD_VALUE", "NO_MEMORY",
           "ERROR",     \* the library was given a NULL buffer, or garbage
           "NO_ROOM",   \* the library found the buffer too small
           "CRASH"}     \* the process is gone

Kinds == {"foreign", "start", "inside"}

TypeOK ==
    /\ live \subseteq Objs
    /\ mBuffer \in [Objs -> Bufs \cup {NULL}]
    /\ mLocked \in [Objs -> BOOLEAN]
    /\ heap \in [Bufs -> Meta \cup {Free}]
    /\ raw \subseteq Bufs
    /\ stale \subseteq Kinds
    /\ res \in Status

Unallocated == {b \in Bufs : heap[b] = Free}

\* The outcomes of an allocation: some address that is not in use, or NULL.
Allocations == Unallocated \cup {NULL}

\* The heap after the allocation x is given the content m.
With(x, m) == IF x = NULL THEN heap ELSE [heap EXCEPT ![x] = m]

\* The heap h after free_camera_metadata(b); clear() skips a NULL buffer.
Freed(h, b) == IF b = NULL THEN h ELSE [h EXCEPT ![b] = Free]

Return(r) == res' = r

\* A call on a locked object that the code turns away.
Refuse(o, r) ==
    /\ mLocked[o]
    /\ Return(r)
    /\ UNCHANGED <<live, mBuffer, mLocked, heap, raw, stale>>

Init ==
    /\ live = {}
    /\ mBuffer = [o \in Objs |-> NULL]
    /\ mLocked = [o \in Objs |-> FALSE]
    /\ heap = [b \in Bufs |-> Free]
    /\ raw = {}
    /\ stale = {}
    /\ res = "void"

\* external: a read through NULL, or of unmapped memory, ends the process; the
\* next one starts from nothing.
Die ==
    /\ live' = {}
    /\ mBuffer' = [o \in Objs |-> NULL]
    /\ mLocked' = [o \in Objs |-> FALSE]
    /\ heap' = [b \in Bufs |-> Free]
    /\ raw' = {}
    /\ stale' = {}
    /\ Return("CRASH")

-----------------------------------------------------------------------------
(* Construction and destruction *)

Construct(o, x) ==
    /\ o \notin live
    /\ live' = live \cup {o}
    /\ mBuffer' = [mBuffer EXCEPT ![o] = x]
    /\ Return("void")
    /\ UNCHANGED <<mLocked, stale>>

ConstructEmpty(o) ==
    Construct(o, NULL) /\ UNCHANGED <<heap, raw>>

ConstructSized(o, ecap, dcap) ==
    \E x \in Allocations :
        /\ Construct(o, x)
        /\ heap' = With(x, Empty(ecap, dcap))
        /\ UNCHANGED raw

\* The library clones a NULL buffer to NULL.
Clones(b) == IF b = NULL THEN {NULL} ELSE Allocations

ConstructCopy(o, other) ==
    /\ other \in live
    /\ \E x \in Clones(mBuffer[other]) :
        /\ Construct(o, x)
        /\ heap' = IF x = NULL THEN heap ELSE With(x, Compact(heap[mBuffer[other]]))
        /\ UNCHANGED raw

ConstructFrom(o, b) ==
    /\ Construct(o, b)
    /\ raw' = raw \ {b}
    /\ UNCHANGED heap

Destroy(o) ==
    /\ o \in live
    /\ live' = live \ {o}
    /\ mLocked' = [mLocked EXCEPT ![o] = FALSE]
    /\ heap' = Freed(heap, mBuffer[o])
    /\ mBuffer' = [mBuffer EXCEPT ![o] = NULL]
    /\ Return("void")
    /\ UNCHANGED <<raw, stale>>

-----------------------------------------------------------------------------
(* Locking *)

getAndLock(o) ==
    /\ o \in live
    /\ mLocked' = [mLocked EXCEPT ![o] = TRUE]
    /\ Return("void")
    /\ UNCHANGED <<live, mBuffer, heap, raw, stale>>

unlock(o, b) ==
    /\ o \in live
    /\ mLocked' = IF b = mBuffer[o] THEN [mLocked EXCEPT ![o] = FALSE] ELSE mLocked
    /\ Return(CASE ~mLocked[o] -> "INVALID_OPERATION"
                [] mLocked[o] /\ b # mBuffer[o] -> "BAD_VALUE"
                [] OTHER -> "OK")
    /\ UNCHANGED <<live, mBuffer, heap, raw, stale>>

-----------------------------------------------------------------------------
(* Ownership: assignment, release, clear, acquire, swap *)

\* operator=: the buffer is another object's or the client's; assigning the
\* object's own buffer changes nothing.
Assign(o, b) ==
    /\ o \in live
    /\ \/ Refuse(o, "void")
       \/ /\ ~mLocked[o] /\ b = mBuffer[o]
          /\ Return("void")
          /\ UNCHANGED <<live, mBuffer, mLocked, heap, raw, stale>>
       \/ /\ ~mLocked[o] /\ b # mBuffer[o]
          /\ \E x \in Clones(b) :
               /\ heap' = Freed(IF x = NULL THEN heap ELSE With(x, Compact(heap[b])),
                                mBuffer[o])
               /\ mBuffer' = [mBuffer EXCEPT ![o] = x]
          /\ Return("void")
          /\ UNCHANGED <<live, mLocked, raw, stale>>

\* Mutant: the object keeps its pointer.
release_keeps_pointer(o) ==
    /\ o \in live
    /\ \/ Refuse(o, "void")
       \/ /\ ~mLocked[o]
          /\ raw' = raw \cup ({mBuffer[o]} \ {NULL})
          /\ Return("void")
          /\ UNCHANGED <<live, mBuffer, mLocked, heap, stale>>

release(o) ==
    /\ o \in live
    /\ \/ Refuse(o, "void")
       \/ /\ ~mLocked[o]
          /\ raw' = raw \cup ({mBuffer[o]} \ {NULL})
          /\ mBuffer' = [mBuffer EXCEPT ![o] = NULL]
          /\ Return("void")
          /\ UNCHANGED <<live, mLocked, heap, stale>>

clear(o) ==
    /\ o \in live
    /\ \/ Refuse(o, "void")
       \/ /\ ~mLocked[o]
          /\ heap' = Freed(heap, mBuffer[o])
          /\ mBuffer' = [mBuffer EXCEPT ![o] = NULL]
          /\ Return("void")
          /\ UNCHANGED <<live, mLocked, raw, stale>>

\* acquire(camera_metadata_t*): the client gives b up by calling, also when
\* the object is locked and does not take it.
acquire(o, b) ==
    /\ o \in live
    /\ raw' = raw \ {b}
    /\ \/ mLocked[o] /\ UNCHANGED <<mBuffer, heap>>
       \/ /\ ~mLocked[o]
          /\ heap' = Freed(heap, mBuffer[o])
          /\ mBuffer' = [mBuffer EXCEPT ![o] = b]
    /\ Return("void")
    /\ UNCHANGED <<live, mLocked, stale>>

\* acquire(CameraMetadata&): other.release() first, which empties other or,
\* when other is locked, gives NULL; then clear() and the new buffer.
acquireOther(o, other) ==
    /\ {o, other} \subseteq live
    /\ \/ Refuse(o, "void")
       \/ /\ ~mLocked[o]
          /\ LET released == IF mLocked[other] THEN NULL ELSE mBuffer[other]
                 after    == IF mLocked[other] THEN mBuffer
                             ELSE [mBuffer EXCEPT ![other] = NULL]
             IN  /\ heap' = Freed(heap, after[o])
                 /\ mBuffer' = [after EXCEPT ![o] = released]
          /\ Return("void")
          /\ UNCHANGED <<live, mLocked, raw, stale>>

\* Mutant: only the first lock is looked at.
swap_one_lock(o, other) ==
    /\ {o, other} \subseteq live
    /\ \/ Refuse(o, "void")
       \/ /\ ~mLocked[o]
          /\ mBuffer' = [mBuffer EXCEPT ![o] = mBuffer[other], ![other] = mBuffer[o]]
          /\ Return("void")
          /\ UNCHANGED <<live, mLocked, heap, raw, stale>>

\* swap asks for both objects to be unlocked.
swap(o, other) ==
    /\ {o, other} \subseteq live
    /\ \/ Refuse(o, "void")
       \/ Refuse(other, "void")
       \/ /\ ~mLocked[o] /\ ~mLocked[other]
          /\ mBuffer' = [mBuffer EXCEPT ![o] = mBuffer[other], ![other] = mBuffer[o]]
          /\ Return("void")
          /\ UNCHANGED <<live, mLocked, heap, raw, stale>>

-----------------------------------------------------------------------------
(* Content: growing, appending, updating, erasing, sorting *)

\* Mutant: what is there is doubled, not what is needed.
NewCap_of_count(count, extra, cap) == IF count + extra > cap THEN 2 * count ELSE cap

\* The capacity the code asks for: what is needed doubled, or what there is.
NewCap(count, extra, cap) == IF count + extra > cap THEN 2 * (count + extra) ELSE cap

\* Mutant: the old buffer is never freed.
resizeIfNeeded_keeps_old(b, extraEntries, extraData) ==
    LET m == IF b = NULL THEN Empty(0, 0) ELSE heap[b]
    IN  {[ok |-> x # NULL, buf |-> x,
          heap |-> With(x, Metadata(m.n, m.d, NewCap(m.n, extraEntries, m.ecap),
                                              NewCap(m.d, extraData, m.dcap)))]
           : x \in Allocations}

\* The outcomes of resizeIfNeeded on buffer b: the status, the value it
\* leaves in mBuffer and the heap.  When the larger buffer cannot be
\* allocated mBuffer is already overwritten: the old buffer is not freed.
resizeIfNeeded(b, extraEntries, extraData) ==
    IF b = NULL
    THEN {[ok |-> x # NULL, buf |-> x,
           heap |-> With(x, Empty(2 * extraEntries, 2 * extraData))] : x \in Allocations}
    ELSE LET m    == heap[b]
             ecap == NewCap(m.n, extraEntries, m.ecap)
             dcap == NewCap(m.d, extraData, m.dcap)
         IN  IF ecap > m.ecap \/ dcap > m.dcap
             THEN {[ok |-> x # NULL, buf |-> x,
                    heap |-> IF x = NULL THEN heap
                             ELSE Freed(With(x, Metadata(m.n, m.d, ecap, dcap)), b)]
                     : x \in Allocations}
             ELSE {[ok |-> TRUE, buf |-> b, heap |-> heap]}

\* external: the library writes content of n entries and d data units into m,
\* or refuses when there is no room.
HasRoom(m, n, d) == n <= m.ecap /\ d <= m.dcap
Store(h, b, n, d) ==
    IF HasRoom(h[b], n, d)
    THEN heap' = [h EXCEPT ![b] = Metadata(n, d, h[b].ecap, h[b].dcap)] /\ Return("OK")
    ELSE heap' = h /\ Return("NO_ROOM")

\* Bound on the content an operation on m may produce.
Bounded(n, d) == n <= MaxEntries /\ d <= MaxData

\* The buffers somebody still owns: the sources a client may read from.
Owned == raw \cup ({mBuffer[o] : o \in live} \ {NULL})

CountOf(b) == IF b = NULL THEN 0 ELSE heap[b].n
DataOf(b) == IF b = NULL THEN 0 ELSE heap[b].d

\* Where the source of an append or an update on o lies: in a buffer that is
\* not o's own, at the first byte of o's own buffer, or further inside it.
Kind(o, b, start) ==
    CASE b # mBuffer[o] -> "foreign"
      [] b = mBuffer[o] /\ start -> "start"
      [] OTHER -> "inside"

\* The library reads the buffer b after a resize of o that left the heap h.
Read(o, b, start, h) ==
    stale' = IF h[b] = Free THEN stale \cup {Kind(o, b, start)} ELSE stale

\* external: appending from memory that is free adds whatever fits by the
\* counts found there, or is refused.
StoreGarbage(h, b) ==
    \/ heap' = h /\ Return("ERROR")
    \/ \E n \in h[b].n .. MaxEntries, d \in h[b].d .. MaxData :
          HasRoom(h[b], n, d) /\ Store(h, b, n, d)

\* append from the buffer b of any object, also of o itself, or of the
\* client.  Unlike entryCount, append asks the library for the counts of a
\* NULL buffer too.  The status of resizeIfNeeded is not looked at: the
\* library then gets a NULL buffer.  A resize frees b when b is o's own.
append(o, b) ==
    /\ o \in live
    /\ b \in Owned \cup {NULL}
    /\ \/ Refuse(o, "INVALID_OPERATION")
       \/ ~mLocked[o] /\ b = NULL /\ Die
       \/ /\ ~mLocked[o] /\ b # NULL
          /\ Bounded(CountOf(mBuffer[o]) + heap[b].n, DataOf(mBuffer[o]) + heap[b].d)
          /\ \E r \in resizeIfNeeded(mBuffer[o], heap[b].n, heap[b].d) :
               \/ /\ mBuffer' = [mBuffer EXCEPT ![o] = r.buf]
                  /\ Read(o, b, TRUE, r.heap)
                  /\ \/ r.buf = NULL /\ heap' = r.heap /\ Return("ERROR")
                     \/ /\ r.buf # NULL /\ r.heap[b] # Free
                        /\ Store(r.heap, r.buf,
                                 r.heap[r.buf].n + heap[b].n, r.heap[r.buf].d + heap[b].d)
                     \/ /\ r.buf # NULL /\ r.heap[b] = Free
                        /\ StoreGarbage(r.heap, r.buf)
                  /\ UNCHANGED <<live, mLocked, raw>>
               \/ r.heap[b] = Free /\ Die

\* The entry is new, or it replaces one that took old data units.
StoreEntry(r, size) ==
    LET m == r.heap[r.buf] IN
    \/ Store(r.heap, r.buf, m.n + 1, m.d + size)
    \/ m.n > 0 /\ \E old \in 0 .. m.d : Store(r.heap, r.buf, m.n, m.d - old + size)

\* The part of updateImpl after the check of the address.
ResizeAndStore(o, src, start, size) ==
    \E r \in resizeIfNeeded(mBuffer[o], 1, size) :
       \/ /\ mBuffer' = [mBuffer EXCEPT ![o] = r.buf]
          /\ \/ ~r.ok /\ heap' = r.heap /\ Return("NO_MEMORY") /\ UNCHANGED stale
             \/ /\ r.ok /\ StoreEntry(r, size)
                /\ IF src = NULL THEN UNCHANGED stale ELSE Read(o, src, start, r.heap)
          /\ UNCHANGED <<live, mLocked, raw>>
       \/ src # NULL /\ r.heap[src] = Free /\ Die

\* Mutant: no check where the data lies.
updateImpl_unchecked(o, src, start, size) ==
    ~mLocked[o] /\ ResizeAndStore(o, src, start, size)

\* updateImpl for an entry of the given data size (0: it fits the entry).
\* The data lies outside every buffer (src = NULL), at the first byte of the
\* buffer src (start) or further inside it.  Data inside the object's own
\* buffer is refused, but the comparison lets its first byte pass.
updateImpl(o, src, start, size) ==
    \/ /\ ~mLocked[o] /\ src # NULL /\ src = mBuffer[o] /\ ~start
       /\ Return("INVALID_OPERATION")
       /\ UNCHANGED <<live, mBuffer, mLocked, heap, raw, stale>>
    \/ /\ ~mLocked[o] /\ (src = NULL \/ src # mBuffer[o] \/ start)
       /\ ResizeAndStore(o, src, start, size)

\* The update overloads: the lock, then the type of the tag, then updateImpl.
update(o, src, start, size) ==
    /\ o \in live
    /\ src # NULL => src \in Owned
    /\ Bounded(CountOf(mBuffer[o]) + 1, DataOf(mBuffer[o]) + size)
    /\ \/ Refuse(o, "INVALID_OPERATION")
       \/ /\ ~mLocked[o]                \* checkType fails
          /\ Return("INVALID_OPERATION")
          /\ UNCHANGED <<live, mBuffer, mLocked, heap, raw, stale>>
       \/ updateImpl(o, src, start, size)

erase(o) ==
    /\ o \in live
    /\ \/ Refuse(o, "INVALID_OPERATION")
       \/ /\ ~mLocked[o]
          /\ \/ Return(IF mBuffer[o] = NULL THEN "ERROR" ELSE "OK") /\ UNCHANGED heap
             \/ /\ CountOf(mBuffer[o]) > 0
                /\ \E old \in 0 .. DataOf(mBuffer[o]) :
                     Store(heap, mBuffer[o], CountOf(mBuffer[o]) - 1, DataOf(mBuffer[o]) - old)
          /\ UNCHANGED <<live, mBuffer, mLocked, raw, stale>>

sort(o) ==
    /\ o \in live
    /\ \/ Refuse(o, "INVALID_OPERATION")
       \/ /\ ~mLocked[o]
          /\ Return(IF mBuffer[o] = NULL THEN "ERROR" ELSE "OK")
          /\ UNCHANGED <<live, mBuffer, mLocked, heap, raw, stale>>

-----------------------------------------------------------------------------
(* Parcels: what reading one leaves with the object or with the client.    *)
(* The layout of a parcel is the subject of MetadataParcel.                *)

\* The metadata that a parcel may carry.
Sent == {Metadata(n, d, n, d) : n \in 0 .. MaxEntries, d \in 0 .. MaxData}

\* The outcomes of the static readFromParcel: an error, no metadata, or a
\* fresh copy of what was sent.
ParcelReads ==
    {[ok |-> FALSE, buf |-> NULL, heap |-> heap], [ok |-> TRUE, buf |-> NULL, heap |-> heap]}
    \cup {[ok |-> TRUE, buf |-> x, heap |-> With(x, m)] : x \in Unallocated, m \in Sent}

readFromParcel(o) ==
    /\ o \in live
    /\ \/ Refuse(o, "INVALID_OPERATION")
       \/ /\ ~mLocked[o]
          /\ \E r \in ParcelReads :
               \/ /\ ~r.ok
                  /\ Return("BAD_VALUE")
                  /\ UNCHANGED <<mBuffer, heap>>
               \/ /\ r.ok
                  /\ heap' = Freed(r.heap, mBuffer[o])
                  /\ mBuffer' = [mBuffer EXCEPT ![o] = r.buf]
                  /\ Return("OK")
          /\ UNCHANGED <<live, mLocked, raw, stale>>

\* The static readFromParcel: the caller becomes the owner, or, with no out
\* argument, the copy is freed again.
readRawFromParcel ==
    /\ \E r \in ParcelReads, out \in BOOLEAN :
         /\ heap' = IF out THEN r.heap ELSE Freed(r.heap, r.buf)
         /\ raw' = IF out THEN raw \cup ({r.buf} \ {NULL}) ELSE raw
         /\ Return(IF r.ok THEN "OK" ELSE "BAD_VALUE")
    /\ UNCHANGED <<live, mBuffer, mLocked, stale>>

\* external: the client frees a buffer it owns.
FreeRaw(b) ==
    /\ b \in raw
    /\ raw' = raw \ {b}
    /\ heap' = Freed(heap, b)
    /\ Return("void")
    /\ UNCHANGED <<live, mBuffer, mLocked, stale>>

-----------------------------------------------------------------------------
Next ==
    \/ \E o \in Objs :
        \/ ConstructEmpty(o)
        \/ \E e \in 0 .. 1, d \in 0 .. 1 : d <= MaxData /\ ConstructSized(o, e, d)
        \/ \E other \in Objs : ConstructCopy(o, other)
        \/ \E b \in raw \cup {NULL} : ConstructFrom(o, b)
        \/ Destroy(o)
        \/ getAndLock(o)
        \/ \E b \in Bufs \cup {NULL} : unlock(o, b)
        \/ \E other \in live : Assign(o, mBuffer[other])
        \/ \E b \in raw \cup {NULL} : Assign(o, b)
        \/ release(o)
        \/ clear(o)
        \/ \E b \in raw \cup {NULL} : acquire(o, b)
        \/ \E other \in Objs : acquireOther(o, other)
        \/ \E other \in Objs : swap(o, other)
        \/ \E b \in Bufs \cup {NULL} : append(o, b)
        \/ \E src \in Bufs \cup {NULL}, start \in BOOLEAN, size \in 0 .. MaxData :
              update(o, src, start, size)
        \/ erase(o)
        \/ sort(o)
        \/ readFromParcel(o)
    \/ readRawFromParcel
    \/ \E b \in Bufs : FreeRaw(b)

Spec == Init /\ [][Next]_vars

-----------------------------------------------------------------------------
(* Properties *)

Owners(b) == {o \in live : mBuffer[o] = b}

\* No buffer has two owners and no owner a dangling pointer: whatever calls
\* clients make, a buffer that an object references is allocated, no second
\* object references it and the client does not own it too, so that the
\* destructors and free_camera_metadata free every buffer at most once.
OneOwner ==
    /\ \A o, p \in live : (mBuffer[o] = mBuffer[p] /\ mBuffer[o] # NULL) => o = p
    /\ \A o \in live : mBuffer[o] # NULL => (mBuffer[o] \notin raw /\ heap[mBuffer[o]] # Free)
    /\ \A b \in raw : heap[b] # Free

\* The pointer given out by getAndLock stays valid: until unlock (or the
\* destructor) no call, of this or of any other object, replaces, frees or
\* changes the buffer of a locked object (CameraMetadata.h:52-58).
LockedFrozen ==
    [][\A o \in live :
         (mLocked[o] /\ o \in live' /\ mLocked'[o]) =>
            /\ mBuffer'[o] = mBuffer[o]
            /\ mBuffer[o] # NULL => heap'[mBuffer[o]] = heap[mBuffer[o]]]_vars

\* The library reads a source that the resize just before has freed in one
\* case only: the source is the object's own buffer given by its first byte,
\* which append does not check and the comparison in updateImpl lets pass.
\* No data further inside the own buffer and no other buffer is read freed.
NoReadAfterFree == stale \subseteq {"start"}

\* resizeIfNeeded makes enough room: the library never refuses an entry or
\* an append of allocated metadata because the buffer is too small.
NeverFull == res # "NO_ROOM"

\* The allocated buffers that nobody will free.
Leaked == {b \in Bufs : heap[b] # Free /\ Owners(b) = {} /\ b \notin raw}

\* No call loses a buffer, whatever it replaces, refuses or fails at, but in
\* two places: a resize that cannot allocate leaves its object with nothing
\* and the old buffer with nobody, and a buffer handed to a locked object is
\* taken by nobody.
LeaksOnlyThere ==
    [][\A b \in Leaked' \ Leaked :
         \/ /\ res' \in {"NO_MEMORY", "ERROR"}
            /\ \E o \in live : mBuffer[o] = b /\ mBuffer'[o] = NULL
         \/ b \in raw /\ UNCHANGED <<mBuffer, heap>> /\ \E o \in live : mLocked[o]]_vars
=============================================================================
