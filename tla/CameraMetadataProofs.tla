------------------------ MODULE CameraMetadataProofs ------------------------
(***************************************************************************)
(* Proof that CameraMetadata keeps one owner per buffer, always makes room *)
(* before it stores, lets the library read no freed buffer but an object's *)
(* own that it was given by its first byte, leaves the buffers of locked   *)
(* objects alone and loses buffers in two places only, for every number of *)
(* objects and addresses, with failing allocations and with clients that   *)
(* hand buffers to locked objects; at the end, the parcel layout.          *)
(***************************************************************************)
EXTENDS CameraMetadata, MetadataParcel, TLAPS

\* Metadata whose content fits its capacities, and heaps of such metadata.
Good == {m \in Meta : m.n <= m.ecap /\ m.d <= m.dcap}
Heaps == [Bufs -> Good \cup {Free}]

IInv ==
    /\ TypeOK
    /\ heap \in Heaps
    /\ OneOwner
    /\ NoReadAfterFree
    /\ NeverFull

\* What LockedFrozen asks of a step.
Frozen ==
    \A o \in live :
        (mLocked[o] /\ o \in live' /\ mLocked'[o]) =>
            /\ mBuffer'[o] = mBuffer[o]
            /\ mBuffer[o] # NULL => heap'[mBuffer[o]] = heap[mBuffer[o]]

\* What LeaksOnlyThere asks of a step.
LeakKnown ==
    \A b \in Leaked' \ Leaked :
        \/ /\ res' \in {"NO_MEMORY", "ERROR"}
           /\ \E o \in live : mBuffer[o] = b /\ mBuffer'[o] = NULL
        \/ b \in raw /\ UNCHANGED <<mBuffer, heap>> /\ \E o \in live : mLocked[o]

\* What is shown of every step.
Kept == IInv' /\ Frozen /\ LeakKnown

-----------------------------------------------------------------------------
(* The library's records and the heap, as facts about single addresses *)

\* Counts within the bounds and the capacities make good metadata.
LEMMA GoodMetadata ==
    \A n \in 0 .. MaxEntries, d \in 0 .. MaxData,
       e \in 0 .. 2 * MaxEntries, c \in 0 .. 2 * MaxData :
        n <= e /\ d <= c => Metadata(n, d, e, c) \in Good
BY DEF Metadata, Good, Meta

\* The fields of good metadata, and that it is not the mark of a free address.
LEMMA GoodFields ==
    \A m \in Good :
        /\ m # Free
        /\ m.n \in 0 .. MaxEntries /\ m.d \in 0 .. MaxData
        /\ m.ecap \in 0 .. 2 * MaxEntries /\ m.dcap \in 0 .. 2 * MaxData
        /\ m.n <= m.ecap /\ m.d <= m.dcap
<1> SUFFICES ASSUME NEW m \in Good
             PROVE  /\ m # Free
                    /\ m.n \in 0 .. MaxEntries /\ m.d \in 0 .. MaxData
                    /\ m.ecap \in 0 .. 2 * MaxEntries /\ m.dcap \in 0 .. 2 * MaxData
                    /\ m.n <= m.ecap /\ m.d <= m.dcap
  OBVIOUS
<1>1. m = [n |-> m.n, d |-> m.d, ecap |-> m.ecap, dcap |-> m.dcap]
  BY DEF Good, Meta
<1>2. /\ m.n \in 0 .. MaxEntries /\ m.d \in 0 .. MaxData
      /\ m.ecap \in 0 .. 2 * MaxEntries /\ m.dcap \in 0 .. 2 * MaxData
      /\ m.n <= m.ecap /\ m.d <= m.dcap
  BY DEF Good, Meta
<1>3. m # Free
  BY <1>1, <1>2, CameraMetadataAssumption
<1> QED
  BY <1>2, <1>3

\* The fields of metadata that was just built.
LEMMA MetadataFields ==
    \A n, d, e, c :
        LET m == Metadata(n, d, e, c)
        IN  m.n = n /\ m.d = d /\ m.ecap = e /\ m.dcap = c
BY DEF Metadata

\* A copy keeps the content and has just the room for it.
LEMMA CompactGood == \A m \in Good : Compact(m) \in Good
<1> SUFFICES ASSUME NEW m \in Good PROVE Compact(m) \in Good
  OBVIOUS
<1>1. /\ m.n \in 0 .. MaxEntries /\ m.d \in 0 .. MaxData
  BY GoodFields
<1>2. m.n \in 0 .. 2 * MaxEntries /\ m.d \in 0 .. 2 * MaxData /\ m.n <= m.n /\ m.d <= m.d
  BY <1>1, CameraMetadataAssumption
<1> QED
  BY <1>1, <1>2, GoodMetadata DEF Compact

\* What With does to each address.
LEMMA WithHeap ==
    ASSUME heap \in Heaps
    PROVE  \A x \in Bufs \cup {NULL}, m \in Good :
              /\ With(x, m) \in Heaps
              /\ \A b \in Bufs : With(x, m)[b] = IF b = x THEN m ELSE heap[b]
BY CameraMetadataAssumption DEF With, Heaps

\* What Freed does to each address.
LEMMA FreedHeap ==
    \A h \in Heaps, x \in Bufs \cup {NULL} :
        /\ Freed(h, x) \in Heaps
        /\ \A b \in Bufs : Freed(h, x)[b] = IF b = x THEN Free ELSE h[b]
BY CameraMetadataAssumption DEF Freed, Heaps

\* Heaps of good metadata are what the type invariant asks for.
LEMMA HeapsType == Heaps \subseteq [Bufs -> Meta \cup {Free}]
BY DEF Heaps, Good

\* An allocation gives NULL or an address that was not in use.
LEMMA AllocationFresh ==
    \A x \in Allocations : x \in Bufs \cup {NULL} /\ (x # NULL => heap[x] = Free)
BY CameraMetadataAssumption DEF Allocations, Unallocated

\* resizeIfNeeded leaves the object with no buffer, with its own, or with a
\* fresh one in whose place the old one is freed, touches no other address,
\* keeps the content and makes room.
LEMMA ResizeMakesRoom ==
    ASSUME heap \in Heaps, NEW b \in Bufs \cup {NULL}, b # NULL => heap[b] # Free,
           NEW e \in Nat, NEW d \in Nat, Bounded(CountOf(b) + e, DataOf(b) + d),
           NEW r \in resizeIfNeeded(b, e, d)
    PROVE  /\ r.buf \in Bufs \cup {NULL}
           /\ r.ok <=> r.buf # NULL
           /\ r.heap \in Heaps
           /\ \A a \in Bufs : (a # b /\ a # r.buf) => r.heap[a] = heap[a]
           /\ r.buf # NULL =>
                /\ r.buf = b \/ heap[r.buf] = Free
                /\ r.heap[r.buf] \in Good
                /\ r.heap[r.buf].n = CountOf(b) /\ r.heap[r.buf].d = DataOf(b)
                /\ CountOf(b) + e <= r.heap[r.buf].ecap
                /\ DataOf(b) + d <= r.heap[r.buf].dcap
                /\ b # NULL /\ b # r.buf => r.heap[b] = Free
<1>1. CASE b = NULL
  <2>1. PICK x \in Allocations : r = [ok |-> x # NULL, buf |-> x,
                                      heap |-> With(x, Empty(2 * e, 2 * d))]
    BY <1>1 DEF resizeIfNeeded
  <2>2. e <= MaxEntries /\ d <= MaxData
    BY <1>1 DEF Bounded, CountOf, DataOf
  <2>3. Empty(2 * e, 2 * d) \in Good
    <3>1. 0 \in 0 .. MaxEntries /\ 0 \in 0 .. MaxData /\ 2 * e \in 0 .. 2 * MaxEntries
          /\ 2 * d \in 0 .. 2 * MaxData /\ 0 <= 2 * e /\ 0 <= 2 * d
      BY <2>2, CameraMetadataAssumption
    <3> QED
      BY <3>1, GoodMetadata DEF Empty
  <2>4. /\ Empty(2 * e, 2 * d).n = 0 /\ Empty(2 * e, 2 * d).d = 0
        /\ Empty(2 * e, 2 * d).ecap = 2 * e /\ Empty(2 * e, 2 * d).dcap = 2 * d
    BY MetadataFields DEF Empty
  <2>5. x \in Bufs \cup {NULL} /\ (x # NULL => heap[x] = Free)
    BY AllocationFresh
  <2>6. /\ With(x, Empty(2 * e, 2 * d)) \in Heaps
        /\ \A a \in Bufs : With(x, Empty(2 * e, 2 * d))[a]
                             = IF a = x THEN Empty(2 * e, 2 * d) ELSE heap[a]
    BY <2>3, <2>5, WithHeap
  <2> HIDE DEF Empty
  <2>7. r.buf = x /\ r.heap = With(x, Empty(2 * e, 2 * d)) /\ (r.ok <=> x # NULL)
    BY <2>1
  <2>8. CountOf(b) = 0 /\ DataOf(b) = 0
    BY <1>1 DEF CountOf, DataOf
  <2> QED
    BY <1>1, <2>3, <2>4, <2>5, <2>6, <2>7, <2>8
<1>2. CASE b # NULL
  <2> DEFINE m    == heap[b]
             ecap == NewCap(m.n, e, m.ecap)
             dcap == NewCap(m.d, d, m.dcap)
  <2>1. m \in Good /\ CountOf(b) = m.n /\ DataOf(b) = m.d
    BY <1>2 DEF Heaps, CountOf, DataOf
  <2>2. /\ m.n \in 0 .. MaxEntries /\ m.d \in 0 .. MaxData
        /\ m.ecap \in 0 .. 2 * MaxEntries /\ m.dcap \in 0 .. 2 * MaxData
        /\ m.n <= m.ecap /\ m.d <= m.dcap
    BY <2>1, GoodFields
  <2>3. /\ ecap \in 0 .. 2 * MaxEntries /\ dcap \in 0 .. 2 * MaxData
        /\ m.n + e <= ecap /\ m.d + d <= dcap
        /\ m.ecap <= ecap /\ m.dcap <= dcap
    BY <2>1, <2>2, CameraMetadataAssumption DEF NewCap, Bounded
  <2>4. CASE ecap > m.ecap \/ dcap > m.dcap
    <3> DEFINE new == Metadata(m.n, m.d, ecap, dcap)
    <3>1. PICK x \in Allocations :
             r = [ok |-> x # NULL, buf |-> x,
                  heap |-> IF x = NULL THEN heap ELSE Freed(With(x, new), b)]
      BY <1>2, <2>4 DEF resizeIfNeeded
    <3>2. new \in Good
      <4>1. m.n <= ecap /\ m.d <= dcap
        BY <2>2, <2>3
      <4> QED
        BY <4>1, <2>2, <2>3, GoodMetadata
    <3>3. new.n = m.n /\ new.d = m.d /\ new.ecap = ecap /\ new.dcap = dcap
      BY MetadataFields
    <3>4. x \in Bufs \cup {NULL} /\ (x # NULL => heap[x] = Free)
      BY AllocationFresh
    <3> HIDE DEF new, ecap, dcap
    <3>5. /\ With(x, new) \in Heaps
          /\ \A a \in Bufs : With(x, new)[a] = IF a = x THEN new ELSE heap[a]
      BY <3>2, <3>4, WithHeap
    <3>6. /\ Freed(With(x, new), b) \in Heaps
          /\ \A a \in Bufs : Freed(With(x, new), b)[a] = IF a = b THEN Free ELSE With(x, new)[a]
      BY <3>5, FreedHeap
    <3>7. r.buf = x /\ (r.ok <=> x # NULL)
          /\ r.heap = IF x = NULL THEN heap ELSE Freed(With(x, new), b)
      BY <3>1
    <3> HIDE DEF m
    <3>8. CASE x = NULL
      BY <3>7, <3>8
    <3>9. CASE x # NULL
      <4>1. x \in Bufs /\ b \in Bufs /\ x # b
        BY <3>9, <3>4, <1>2
      <4>2. r.heap[x] = new
        BY <4>1, <3>5, <3>6, <3>7, <3>9
      <4>3. \A a \in Bufs : (a # b /\ a # r.buf) => r.heap[a] = heap[a]
        BY <4>1, <3>5, <3>6, <3>7, <3>9
      <4>4. r.heap[b] = Free
        BY <4>1, <3>6, <3>7, <3>9
      <4> QED
        BY <4>1, <4>2, <4>3, <4>4, <3>2, <3>3, <3>4, <3>6, <3>7, <3>9, <2>1, <2>3
    <3> QED
      BY <3>8, <3>9
  <2>5. CASE ~(ecap > m.ecap \/ dcap > m.dcap)
    <3>1. r = [ok |-> TRUE, buf |-> b, heap |-> heap]
      BY <1>2, <2>5 DEF resizeIfNeeded
    <3>2. r.ok = TRUE /\ r.buf = b /\ r.heap = heap
      BY <3>1
    <3>3. m.n + e <= m.ecap /\ m.d + d <= m.dcap
      BY <2>2, <2>3, <2>5
    <3> QED
      BY <1>2, <2>1, <3>2, <3>3
  <2> QED
    BY <2>4, <2>5
<1> QED
  BY <1>1, <1>2

\* Storing content that fits reports OK and changes one address.
LEMMA StoreFits ==
    ASSUME NEW h \in Heaps, NEW b \in Bufs, h[b] \in Good,
           NEW n \in 0 .. MaxEntries, NEW d \in 0 .. MaxData,
           n <= h[b].ecap, d <= h[b].dcap, Store(h, b, n, d)
    PROVE  /\ heap' \in Heaps
           /\ heap'[b] # Free
           /\ \A a \in Bufs : a # b => heap'[a] = h[a]
           /\ res' = "OK"
<1>1. heap' = [h EXCEPT ![b] = Metadata(n, d, h[b].ecap, h[b].dcap)] /\ res' = "OK"
  BY DEF Store, HasRoom, Return
<1>2. Metadata(n, d, h[b].ecap, h[b].dcap) \in Good
  BY GoodMetadata, GoodFields
<1> QED
  BY <1>1, <1>2, GoodFields DEF Heaps

\* An object o gives up its buffer, which is freed or kept as x, and gets x:
\* nothing, its own buffer, a fresh one or one that the client hands over.
LEMMA ReplaceOwner ==
    ASSUME TypeOK, OneOwner, NEW o \in live, NEW x \in Bufs \cup {NULL},
           live' = live, mBuffer' = [mBuffer EXCEPT ![o] = x], raw' = raw \ {x},
           x # NULL => /\ heap'[x] # Free
                       /\ x = mBuffer[o] \/ x \in raw \/ heap[x] = Free,
           \A b \in Bufs : (b # mBuffer[o] /\ b # x) => heap'[b] = heap[b]
    PROVE  OneOwner'
BY CameraMetadataAssumption DEF TypeOK, OneOwner

-----------------------------------------------------------------------------
(* Putting the parts of IInv' together *)

Statuses == Status \ {"NO_ROOM"}

\* What is left to show of a step once its heap and owners are understood.
LEMMA Assemble ==
    ASSUME live' \subseteq Objs, mBuffer' \in [Objs -> Bufs \cup {NULL}],
           mLocked' \in [Objs -> BOOLEAN], heap' \in Heaps, raw' \subseteq Bufs,
           stale' \subseteq {"start"}, res' \in Statuses, OneOwner'
    PROVE  IInv'
<1>1. heap' \in [Bufs -> Meta \cup {Free}]
  BY HeapsType
<1>2. TypeOK'
  BY <1>1 DEF TypeOK, Statuses, Kinds
<1> QED
  BY <1>2 DEF IInv, NoReadAfterFree, NeverFull, Statuses

\* A process that dies leaves nothing to be wrong.
LEMMA DieStep ==
    ASSUME IInv, Die
    PROVE  Kept
<1>1. /\ live' = {} /\ mBuffer' = [o \in Objs |-> NULL] /\ raw' = {} /\ stale' = {}
      /\ mLocked' = [o \in Objs |-> FALSE] /\ heap' = [b \in Bufs |-> Free]
      /\ res' = "CRASH"
  BY DEF Die, Return
<1>2. OneOwner'
  BY <1>1 DEF OneOwner
<1>3. heap' \in Heaps /\ res' \in Statuses
  BY <1>1 DEF Heaps, Statuses, Status
<1>4. IInv'
  BY <1>1, <1>2, <1>3, Assemble
<1>5. Frozen
  BY <1>1 DEF Frozen
<1>6. LeakKnown
  BY <1>1 DEF LeakKnown, Leaked
<1> QED
  BY <1>4, <1>5, <1>6 DEF Kept

\* Steps that leave buffers and owners alone.
LEMMA Untouched ==
    ASSUME IInv, UNCHANGED <<live, mBuffer, heap, raw, stale>>,
           mLocked' \in [Objs -> BOOLEAN], res' \in Statuses
    PROVE  Kept
<1>1. OneOwner'
  BY DEF IInv, OneOwner
<1>2. IInv'
  BY <1>1, Assemble DEF IInv, TypeOK, NoReadAfterFree
<1>3. Frozen
  BY DEF Frozen
<1>4. LeakKnown
  BY DEF LeakKnown, Leaked, Owners
<1> QED
  BY <1>2, <1>3, <1>4 DEF Kept

\* A call that the lock turns away.
LEMMA RefusedKeeps ==
    ASSUME IInv, NEW o \in Objs, NEW r \in Statuses, Refuse(o, r)
    PROVE  Kept
<1>1. UNCHANGED <<live, mBuffer, heap, raw, stale>> /\ mLocked' = mLocked /\ res' = r
  BY DEF Refuse, Return
<1> QED
  BY <1>1, Untouched DEF IInv, TypeOK

\* The fate of the buffer that o had when it gets x: there was none, it is x,
\* it is freed, or a failed resize has lost it.
Settled(o, x) ==
    \/ mBuffer[o] = NULL \/ mBuffer[o] = x
    \/ heap'[mBuffer[o]] = Free
    \/ x = NULL /\ res' \in {"NO_MEMORY", "ERROR"}

\* An unlocked object gets the buffer x in the place of the one it had.
LEMMA Replaced ==
    ASSUME IInv, NEW o \in live, NEW x \in Bufs \cup {NULL}, ~mLocked[o],
           UNCHANGED <<live, mLocked>>, mBuffer' = [mBuffer EXCEPT ![o] = x],
           raw' = raw \ {x}, heap' \in Heaps, stale' \subseteq {"start"}, res' \in Statuses,
           x # NULL => /\ heap'[x] # Free
                       /\ x = mBuffer[o] \/ x \in raw \/ heap[x] = Free,
           \A b \in Bufs : (b # mBuffer[o] /\ b # x) => heap'[b] = heap[b],
           Settled(o, x)
    PROVE  Kept
<1>0. o \in Objs /\ mBuffer \in [Objs -> Bufs \cup {NULL}] /\ live \subseteq Objs
  BY DEF IInv, TypeOK
<1>1. OneOwner'
  BY ReplaceOwner DEF IInv
<1>2. mBuffer' \in [Objs -> Bufs \cup {NULL}] /\ live' \subseteq Objs /\ raw' \subseteq Bufs
  BY DEF IInv, TypeOK
<1>3. mLocked' \in [Objs -> BOOLEAN]
  BY DEF IInv, TypeOK
<1>4. IInv'
  BY <1>1, <1>2, <1>3, Assemble
<1>5. Frozen
  <2> SUFFICES ASSUME NEW p \in live, mLocked[p]
               PROVE  /\ mBuffer'[p] = mBuffer[p]
                      /\ mBuffer[p] # NULL => heap'[mBuffer[p]] = heap[mBuffer[p]]
    BY DEF Frozen
  <2>1. p # o /\ p \in Objs
    BY <1>0
  <2>2. mBuffer[p] # NULL => /\ mBuffer[p] \in Bufs /\ mBuffer[p] # mBuffer[o]
                             /\ mBuffer[p] \notin raw /\ heap[mBuffer[p]] # Free
    BY <1>0, <2>1 DEF IInv, OneOwner
  <2>3. mBuffer[p] # NULL => mBuffer[p] # x
    BY <2>2
  <2> QED
    BY <1>0, <2>1, <2>2, <2>3
<1>6. LeakKnown
  <2> SUFFICES ASSUME NEW b \in Bufs, b \in Leaked', b \notin Leaked
               PROVE  /\ res' \in {"NO_MEMORY", "ERROR"}
                      /\ \E p \in live : mBuffer[p] = b /\ mBuffer'[p] = NULL
    BY DEF LeakKnown, Leaked
  <2>1. heap'[b] # Free /\ b \notin raw' /\ \A p \in live : mBuffer'[p] # b
    BY DEF Leaked, Owners
  <2>2. b # x
    BY <1>0, <2>1
  <2>3. b # mBuffer[o] => /\ heap[b] # Free /\ b \notin raw
                          /\ \A p \in live : mBuffer[p] # b
    BY <1>0, <2>1, <2>2
  <2>4. b = mBuffer[o]
    BY <2>3 DEF Leaked, Owners
  <2>5. x = NULL /\ res' \in {"NO_MEMORY", "ERROR"}
    BY <2>1, <2>2, <2>4, CameraMetadataAssumption DEF Settled
  <2> QED
    BY <1>0, <2>4, <2>5
<1> QED
  BY <1>4, <1>5, <1>6 DEF Kept

\* A fresh buffer is not the client's.
LEMMA FreshNotRaw ==
    ASSUME IInv, NEW x \in Bufs \cup {NULL}, x # NULL => heap[x] = Free
    PROVE  raw = raw \ {x}
BY CameraMetadataAssumption DEF IInv, OneOwner, TypeOK

-----------------------------------------------------------------------------
(* Construction and destruction *)

\* A constructor that starts with nothing, a fresh buffer or the client's.
LEMMA Constructed ==
    ASSUME IInv, NEW o \in Objs, NEW x \in Bufs \cup {NULL}, Construct(o, x),
           raw' = raw \ {x}, heap' \in Heaps,
           x # NULL => heap'[x] # Free /\ (x \in raw \/ heap[x] = Free),
           \A b \in Bufs : b # x => heap'[b] = heap[b]
    PROVE  Kept
<1>1. OneOwner'
  BY CameraMetadataAssumption DEF IInv, TypeOK, OneOwner, Construct
<1>2. live' \subseteq Objs /\ mBuffer' \in [Objs -> Bufs \cup {NULL}] /\ raw' \subseteq Bufs
  BY DEF IInv, TypeOK, Construct
<1>3. mLocked' \in [Objs -> BOOLEAN] /\ stale' \subseteq {"start"} /\ res' \in Statuses
  BY DEF IInv, TypeOK, NoReadAfterFree, Construct, Return, Statuses, Status
<1>4. IInv'
  BY <1>1, <1>2, <1>3, Assemble
<1>5. /\ o \notin live /\ live' = live \cup {o} /\ live \subseteq Objs
      /\ mBuffer' = [mBuffer EXCEPT ![o] = x] /\ mBuffer \in [Objs -> Bufs \cup {NULL}]
  BY DEF Construct, IInv, TypeOK
<1>6. Frozen
  <2> SUFFICES ASSUME NEW p \in live
               PROVE  /\ mBuffer'[p] = mBuffer[p]
                      /\ mBuffer[p] # NULL => heap'[mBuffer[p]] = heap[mBuffer[p]]
    BY DEF Frozen
  <2>1. mBuffer[p] # NULL => mBuffer[p] \in Bufs /\ mBuffer[p] # x
    BY <1>5 DEF IInv, OneOwner
  <2> QED
    BY <1>5, <2>1
<1>7. LeakKnown
  <2> SUFFICES ASSUME NEW b \in Bufs, b \in Leaked', b \notin Leaked PROVE FALSE
    BY DEF LeakKnown, Leaked
  <2>1. heap'[b] # Free /\ b \notin raw' /\ \A p \in live' : mBuffer'[p] # b
    BY DEF Leaked, Owners
  <2>2. b # x
    BY <1>5, <2>1
  <2>3. heap[b] # Free /\ b \notin raw /\ \A p \in live : mBuffer[p] # b
    BY <1>5, <2>1, <2>2
  <2> QED
    BY <2>3 DEF Leaked, Owners
<1> QED
  BY <1>4, <1>6, <1>7 DEF Kept

\* Every constructor satisfies Kept.
LEMMA ConstructStep ==
    ASSUME IInv, NEW o \in Objs,
           \/ ConstructEmpty(o)
           \/ \E e \in 0 .. 1, d \in 0 .. 1 : d <= MaxData /\ ConstructSized(o, e, d)
           \/ \E other \in Objs : ConstructCopy(o, other)
           \/ \E b \in raw \cup {NULL} : ConstructFrom(o, b)
    PROVE  Kept
<1>1. CASE ConstructEmpty(o)
  <2>1. raw = raw \ {NULL}
    BY FreshNotRaw
  <2> QED
    BY <1>1, <2>1, Constructed DEF ConstructEmpty, IInv
<1>2. CASE \E e \in 0 .. 1, d \in 0 .. 1 : d <= MaxData /\ ConstructSized(o, e, d)
  <2>1. PICK e \in 0 .. 1, d \in 0 .. 1 : d <= MaxData /\ ConstructSized(o, e, d)
    BY <1>2
  <2>2. PICK x \in Allocations : Construct(o, x) /\ heap' = With(x, Empty(e, d)) /\ raw' = raw
    BY <2>1 DEF ConstructSized
  <2>3. Empty(e, d) \in Good
    <3>1. /\ 0 \in 0 .. MaxEntries /\ 0 \in 0 .. MaxData /\ 0 <= e /\ 0 <= d
          /\ e \in 0 .. 2 * MaxEntries /\ d \in 0 .. 2 * MaxData
      BY <2>1, CameraMetadataAssumption
    <3> QED
      BY <3>1, GoodMetadata DEF Empty
  <2>4. x \in Bufs \cup {NULL} /\ (x # NULL => heap[x] = Free)
    BY AllocationFresh
  <2>5. /\ heap' \in Heaps
        /\ \A b \in Bufs : heap'[b] = IF b = x THEN Empty(e, d) ELSE heap[b]
    BY <2>2, <2>3, <2>4, WithHeap DEF IInv
  <2>6. raw' = raw \ {x}
    BY <2>2, <2>4, FreshNotRaw
  <2>7. x # NULL => heap'[x] # Free
    BY <2>3, <2>4, <2>5, GoodFields
  <2> QED
    BY <2>2, <2>4, <2>5, <2>6, <2>7, Constructed
<1>3. CASE \E other \in Objs : ConstructCopy(o, other)
  <2>1. PICK other \in Objs : ConstructCopy(o, other)
    BY <1>3
  <2> DEFINE src == mBuffer[other]
  <2>2. PICK x \in Clones(src) :
           /\ Construct(o, x) /\ raw' = raw
           /\ heap' = IF x = NULL THEN heap ELSE With(x, Compact(heap[src]))
    BY <2>1 DEF ConstructCopy
  <2>3. x \in Bufs \cup {NULL} /\ (x # NULL => heap[x] = Free /\ src # NULL)
    BY AllocationFresh DEF Clones
  <2>4. raw' = raw \ {x}
    BY <2>2, <2>3, FreshNotRaw
  <2>5. CASE x = NULL
    BY <2>2, <2>3, <2>4, <2>5, CameraMetadataAssumption, Constructed DEF IInv
  <2>6. CASE x # NULL
    <3>1. heap[src] \in Good
      BY <2>1, <2>3, <2>6 DEF ConstructCopy, IInv, OneOwner, TypeOK, Heaps
    <3>2. Compact(heap[src]) \in Good
      BY <3>1, CompactGood
    <3>3. /\ heap' \in Heaps
          /\ \A b \in Bufs : heap'[b] = IF b = x THEN Compact(heap[src]) ELSE heap[b]
      BY <2>2, <2>3, <2>6, <3>2, WithHeap DEF IInv
    <3>4. heap'[x] # Free
      BY <2>3, <2>6, <3>2, <3>3, GoodFields
    <3> QED
      BY <2>2, <2>3, <2>4, <2>6, <3>3, <3>4, Constructed
  <2> QED
    BY <2>5, <2>6
<1>4. CASE \E b \in raw \cup {NULL} : ConstructFrom(o, b)
  <2>1. PICK b \in raw \cup {NULL} : ConstructFrom(o, b)
    BY <1>4
  <2>2. b \in Bufs \cup {NULL} /\ (b # NULL => heap[b] # Free /\ b \in raw)
    BY DEF IInv, TypeOK, OneOwner
  <2> QED
    BY <2>1, <2>2, Constructed DEF ConstructFrom, IInv
<1> QED
  BY <1>1, <1>2, <1>3, <1>4

\* The destructor satisfies Kept.
LEMMA DestroyStep ==
    ASSUME IInv, NEW o \in Objs, Destroy(o)
    PROVE  Kept
<1>1. /\ heap' \in Heaps
      /\ \A b \in Bufs : heap'[b] = IF b = mBuffer[o] THEN Free ELSE heap[b]
  BY FreedHeap DEF Destroy, IInv, TypeOK
<1>2. OneOwner'
  BY <1>1, CameraMetadataAssumption DEF Destroy, IInv, TypeOK, OneOwner
<1>3. live' \subseteq Objs /\ mBuffer' \in [Objs -> Bufs \cup {NULL}] /\ raw' \subseteq Bufs
  BY DEF IInv, TypeOK, Destroy
<1>4. mLocked' \in [Objs -> BOOLEAN] /\ stale' \subseteq {"start"} /\ res' \in Statuses
  BY DEF IInv, TypeOK, NoReadAfterFree, Destroy, Return, Statuses, Status
<1>5. IInv'
  BY <1>1, <1>2, <1>3, <1>4, Assemble
<1>6. /\ o \in live /\ live' = live \ {o} /\ live \subseteq Objs /\ raw' = raw
      /\ mBuffer' = [mBuffer EXCEPT ![o] = NULL] /\ mBuffer \in [Objs -> Bufs \cup {NULL}]
  BY DEF Destroy, IInv, TypeOK
<1>7. Frozen
  <2> SUFFICES ASSUME NEW p \in live, p # o
               PROVE  /\ mBuffer'[p] = mBuffer[p]
                      /\ mBuffer[p] # NULL => heap'[mBuffer[p]] = heap[mBuffer[p]]
    BY <1>6 DEF Frozen
  <2>1. mBuffer[p] # NULL => mBuffer[p] \in Bufs /\ mBuffer[p] # mBuffer[o]
    BY <1>6 DEF IInv, OneOwner
  <2> QED
    BY <1>1, <1>6, <2>1
<1>8. LeakKnown
  <2> SUFFICES ASSUME NEW b \in Bufs, b \in Leaked', b \notin Leaked PROVE FALSE
    BY DEF LeakKnown, Leaked
  <2>1. heap'[b] # Free /\ b \notin raw' /\ \A p \in live' : mBuffer'[p] # b
    BY DEF Leaked, Owners
  <2>2. b # mBuffer[o]
    BY <1>1, <2>1
  <2>3. heap[b] # Free /\ b \notin raw /\ \A p \in live : mBuffer[p] # b
    BY <1>1, <1>6, <2>1, <2>2
  <2> QED
    BY <2>3 DEF Leaked, Owners
<1> QED
  BY <1>5, <1>7, <1>8 DEF Kept

-----------------------------------------------------------------------------
(* Locking, sorting *)

\* getAndLock, unlock and sort satisfy Kept.
LEMMA LockStep ==
    ASSUME IInv, NEW o \in Objs,
           \/ getAndLock(o)
           \/ \E b \in Bufs \cup {NULL} : unlock(o, b)
           \/ sort(o)
    PROVE  Kept
<1>1. CASE getAndLock(o)
  <2>1. mLocked' \in [Objs -> BOOLEAN]
    BY <1>1 DEF getAndLock, IInv, TypeOK
  <2> QED
    BY <1>1, <2>1, Untouched DEF getAndLock, Return, Statuses, Status
<1>2. CASE \E b \in Bufs \cup {NULL} : unlock(o, b)
  <2>1. PICK b \in Bufs \cup {NULL} : unlock(o, b)
    BY <1>2
  <2>2. mLocked' \in [Objs -> BOOLEAN]
    BY <2>1 DEF unlock, IInv, TypeOK
  <2>3. res' \in Statuses
    BY <2>1 DEF unlock, Return, Statuses, Status
  <2> QED
    BY <2>1, <2>2, <2>3, Untouched DEF unlock
<1>3. CASE sort(o)
  <2>1. CASE Refuse(o, "INVALID_OPERATION")
    BY <2>1, RefusedKeeps DEF Statuses, Status
  <2>2. CASE ~mLocked[o]
    <3>1. mLocked' \in [Objs -> BOOLEAN]
      BY <1>3 DEF sort, Refuse, IInv, TypeOK
    <3>2. res' \in Statuses
      BY <1>3 DEF sort, Refuse, Return, Statuses, Status
    <3> QED
      BY <1>3, <3>1, <3>2, Untouched DEF sort, Refuse
  <2> QED
    BY <1>3, <2>1, <2>2 DEF sort
<1> QED
  BY <1>1, <1>2, <1>3

-----------------------------------------------------------------------------
(* Ownership *)

\* operator= is safe: the clone is made before the old buffer goes.
LEMMA AssignStep ==
    ASSUME IInv, NEW o \in Objs, NEW b \in Bufs \cup {NULL},
           b # NULL => heap[b] # Free, Assign(o, b)
    PROVE  Kept
<1>0. o \in live /\ mBuffer[o] \in Bufs \cup {NULL}
  BY DEF Assign, IInv, TypeOK
<1>1. CASE Refuse(o, "void")
  BY <1>1, RefusedKeeps DEF Statuses, Status
<1>2. CASE ~mLocked[o] /\ b = mBuffer[o]
  <2>1. UNCHANGED <<live, mBuffer, heap, raw, stale>> /\ mLocked' = mLocked /\ res' = "void"
    BY <1>2 DEF Assign, Refuse, Return
  <2> QED
    BY <2>1, Untouched DEF IInv, TypeOK, Statuses, Status
<1>3. CASE ~mLocked[o] /\ b # mBuffer[o]
  <2>1. PICK x \in Clones(b) :
           /\ heap' = Freed(IF x = NULL THEN heap ELSE With(x, Compact(heap[b])), mBuffer[o])
           /\ mBuffer' = [mBuffer EXCEPT ![o] = x]
    BY <1>3 DEF Assign, Refuse
  <2>2. UNCHANGED <<live, mLocked, raw, stale>> /\ res' = "void"
    BY <1>3 DEF Assign, Refuse, Return
  <2>3. x \in Bufs \cup {NULL} /\ (x # NULL => heap[x] = Free /\ b # NULL)
    BY AllocationFresh DEF Clones
  <2>4. raw' = raw \ {x}
    BY <2>2, <2>3, FreshNotRaw
  <2> DEFINE h == IF x = NULL THEN heap ELSE With(x, Compact(heap[b]))
  <2>5. /\ h \in Heaps
        /\ x # NULL => h[x] # Free
        /\ \A a \in Bufs : a # x => h[a] = heap[a]
    <3>1. CASE x = NULL
      BY <3>1 DEF IInv
    <3>2. CASE x # NULL
      <4>1. heap[b] \in Good
        BY <2>3, <3>2 DEF IInv, Heaps
      <4>2. Compact(heap[b]) \in Good
        BY <4>1, CompactGood
      <4>3. /\ With(x, Compact(heap[b])) \in Heaps
            /\ \A a \in Bufs : With(x, Compact(heap[b]))[a]
                                 = IF a = x THEN Compact(heap[b]) ELSE heap[a]
        BY <4>2, <2>3, WithHeap DEF IInv
      <4>4. Compact(heap[b]) # Free
        BY <4>2, GoodFields
      <4> QED
        BY <4>3, <4>4, <3>2, <2>3
    <3> QED
      BY <3>1, <3>2
  <2> HIDE DEF h
  <2>6. /\ heap' \in Heaps
        /\ \A a \in Bufs : heap'[a] = IF a = mBuffer[o] THEN Free ELSE h[a]
    <3>1. heap' = Freed(h, mBuffer[o])
      BY <2>1 DEF h
    <3> QED
      BY <3>1, <2>5, <1>0, FreedHeap
  <2>7. x # NULL => x # mBuffer[o]
    BY <2>3, <1>0 DEF IInv, OneOwner
  <2>8. stale' \subseteq {"start"} /\ res' \in Statuses
    BY <2>2 DEF IInv, NoReadAfterFree, TypeOK, Statuses, Status
  <2>9. x # NULL => heap'[x] # Free
    BY <2>3, <2>5, <2>6, <2>7
  <2>10. \A a \in Bufs : (a # mBuffer[o] /\ a # x) => heap'[a] = heap[a]
    BY <2>5, <2>6
  <2>11. heap' \in Heaps /\ mBuffer' = [mBuffer EXCEPT ![o] = x] /\ UNCHANGED <<live, mLocked>>
    BY <2>1, <2>2, <2>6
  <2>12. Settled(o, x)
    BY <2>6, <1>0 DEF Settled
  <2> QED
    BY <1>0, <1>3, <2>3, <2>4, <2>8, <2>9, <2>10, <2>11, <2>12, Replaced
<1> QED
  BY <1>1, <1>2, <1>3 DEF Assign

\* release satisfies Kept: the buffer becomes the client's.
LEMMA ReleaseStep ==
    ASSUME IInv, NEW o \in Objs, release(o)
    PROVE  Kept
<1>1. CASE Refuse(o, "void")
  BY <1>1, RefusedKeeps DEF Statuses, Status
<1>2. CASE ~mLocked[o]
  <2>1. /\ raw' = raw \cup ({mBuffer[o]} \ {NULL}) /\ mBuffer' = [mBuffer EXCEPT ![o] = NULL]
        /\ res' = "void" /\ UNCHANGED <<live, mLocked, heap, stale>> /\ o \in live
    BY <1>2 DEF release, Refuse, Return
  <2>2. OneOwner'
    BY <2>1, CameraMetadataAssumption DEF IInv, TypeOK, OneOwner
  <2>3. /\ live' \subseteq Objs /\ mBuffer' \in [Objs -> Bufs \cup {NULL}]
        /\ raw' \subseteq Bufs /\ heap' \in Heaps
    BY <2>1 DEF IInv, TypeOK
  <2>4. mLocked' \in [Objs -> BOOLEAN] /\ stale' \subseteq {"start"} /\ res' \in Statuses
    BY <2>1 DEF IInv, TypeOK, NoReadAfterFree, Statuses, Status
  <2>5. IInv'
    BY <2>2, <2>3, <2>4, Assemble
  <2>6. Frozen
    BY <1>2, <2>1 DEF Frozen, IInv, TypeOK
  <2>7. LeakKnown
    <3> SUFFICES ASSUME NEW b \in Bufs, b \in Leaked', b \notin Leaked PROVE FALSE
      BY DEF LeakKnown, Leaked
    <3>1. heap'[b] # Free /\ b \notin raw' /\ \A p \in live' : mBuffer'[p] # b
      BY DEF Leaked, Owners
    <3>2. heap[b] # Free /\ b \notin raw /\ b # mBuffer[o]
      BY <2>1, <3>1, CameraMetadataAssumption
    <3>3. \A p \in live : mBuffer[p] # b
      BY <2>1, <3>1, <3>2 DEF IInv, TypeOK
    <3> QED
      BY <3>2, <3>3 DEF Leaked, Owners
  <2> QED
    BY <2>5, <2>6, <2>7 DEF Kept
<1> QED
  BY <1>1, <1>2 DEF release

\* clear satisfies Kept.
LEMMA ClearStep ==
    ASSUME IInv, NEW o \in Objs, clear(o)
    PROVE  Kept
<1>1. CASE Refuse(o, "void")
  BY <1>1, RefusedKeeps DEF Statuses, Status
<1>2. CASE ~mLocked[o]
  <2>1. /\ heap' = Freed(heap, mBuffer[o]) /\ mBuffer' = [mBuffer EXCEPT ![o] = NULL]
        /\ res' = "void" /\ UNCHANGED <<live, mLocked, raw, stale>> /\ o \in live
    BY <1>2 DEF clear, Refuse, Return
  <2>2. /\ heap' \in Heaps
        /\ \A b \in Bufs : heap'[b] = IF b = mBuffer[o] THEN Free ELSE heap[b]
    BY <2>1, FreedHeap DEF IInv, TypeOK
  <2>3. raw' = raw \ {NULL}
    BY <2>1, FreshNotRaw
  <2>4. stale' \subseteq {"start"} /\ res' \in Statuses
    BY <2>1 DEF IInv, NoReadAfterFree, TypeOK, Statuses, Status
  <2>5. Settled(o, NULL)
    BY <2>2 DEF Settled, IInv, TypeOK
  <2> QED
    BY <1>2, <2>1, <2>2, <2>3, <2>4, <2>5, Replaced
<1> QED
  BY <1>1, <1>2 DEF clear

\* acquire(camera_metadata_t*) satisfies Kept.
LEMMA AcquireStep ==
    ASSUME IInv, NEW o \in Objs, NEW b \in raw \cup {NULL}, acquire(o, b)
    PROVE  Kept
<1>0. b \in Bufs \cup {NULL} /\ (b # NULL => heap[b] # Free /\ b \in raw)
  BY DEF IInv, TypeOK, OneOwner
<1>1. stale' \subseteq {"start"} /\ res' \in Statuses
  BY DEF acquire, IInv, NoReadAfterFree, TypeOK, Statuses, Status, Return
<1>2. o \in live /\ raw' = raw \ {b} /\ UNCHANGED <<live, mLocked>>
  BY DEF acquire
<1>3. CASE mLocked[o]
  <2>1. UNCHANGED <<mBuffer, heap>>
    BY <1>3 DEF acquire
  <2>2. OneOwner'
    BY <1>2, <2>1 DEF IInv, OneOwner
  <2>3. /\ live' \subseteq Objs /\ mBuffer' \in [Objs -> Bufs \cup {NULL}]
        /\ raw' \subseteq Bufs /\ heap' \in Heaps
    BY <1>2, <2>1 DEF IInv, TypeOK
  <2>4. mLocked' \in [Objs -> BOOLEAN]
    BY <1>2 DEF IInv, TypeOK
  <2>5. IInv'
    BY <1>1, <2>2, <2>3, <2>4, Assemble
  <2>6. Frozen
    BY <2>1 DEF Frozen
  <2>7. LeakKnown
    <3> SUFFICES ASSUME NEW a \in Bufs, a \in Leaked', a \notin Leaked PROVE a \in raw
      BY <1>2, <1>3, <2>1 DEF LeakKnown, Leaked
    <3> QED
      BY <1>2, <2>1 DEF Leaked, Owners
  <2> QED
    BY <2>5, <2>6, <2>7 DEF Kept
<1>4. CASE ~mLocked[o]
  <2>1. heap' = Freed(heap, mBuffer[o]) /\ mBuffer' = [mBuffer EXCEPT ![o] = b]
    BY <1>4 DEF acquire
  <2>2. /\ heap' \in Heaps
        /\ \A a \in Bufs : heap'[a] = IF a = mBuffer[o] THEN Free ELSE heap[a]
    BY <2>1, FreedHeap DEF IInv, TypeOK
  <2>3. b # NULL => b # mBuffer[o]
    BY <1>0, <1>2 DEF IInv, OneOwner
  <2>4. Settled(o, b)
    BY <2>2 DEF Settled, IInv, TypeOK
  <2> QED
    BY <1>0, <1>1, <1>2, <1>4, <2>1, <2>2, <2>3, <2>4, Replaced
<1> QED
  BY <1>3, <1>4

\* acquire(CameraMetadata&) satisfies Kept, the two objects equal or not.
LEMMA AcquireOtherStep ==
    ASSUME IInv, NEW o \in Objs, NEW other \in Objs, acquireOther(o, other)
    PROVE  Kept
<1>1. CASE Refuse(o, "void")
  BY <1>1, RefusedKeeps DEF Statuses, Status
<1>2. CASE ~mLocked[o]
  <2> DEFINE released == IF mLocked[other] THEN NULL ELSE mBuffer[other]
             after    == IF mLocked[other] THEN mBuffer
                         ELSE [mBuffer EXCEPT ![other] = NULL]
  <2>1. /\ heap' = Freed(heap, after[o]) /\ mBuffer' = [after EXCEPT ![o] = released]
        /\ res' = "void" /\ UNCHANGED <<live, mLocked, raw, stale>>
        /\ o \in live /\ other \in live
    BY <1>2 DEF acquireOther, Refuse, Return
  <2>2. after \in [Objs -> Bufs \cup {NULL}] /\ released \in Bufs \cup {NULL}
    BY DEF IInv, TypeOK
  <2>3. /\ heap' \in Heaps
        /\ \A a \in Bufs : heap'[a] = IF a = after[o] THEN Free ELSE heap[a]
    <3>1. after[o] \in Bufs \cup {NULL}
      BY <2>2
    <3> HIDE DEF after
    <3> QED
      BY <2>1, <3>1, FreedHeap DEF IInv
  <2>4. OneOwner'
    <3>1. CASE mLocked[other]
      BY <3>1, <2>1, <2>3, CameraMetadataAssumption DEF IInv, TypeOK, OneOwner
    <3>2. CASE ~mLocked[other]
      BY <3>2, <2>1, <2>3, CameraMetadataAssumption DEF IInv, TypeOK, OneOwner
    <3> QED
      BY <3>1, <3>2
  <2>5. mBuffer' \in [Objs -> Bufs \cup {NULL}]
    <3> HIDE DEF after, released
    <3> QED
      BY <2>1, <2>2
  <2>6. live' \subseteq Objs /\ raw' \subseteq Bufs
    BY <2>1 DEF IInv, TypeOK
  <2>7. mLocked' \in [Objs -> BOOLEAN] /\ stale' \subseteq {"start"} /\ res' \in Statuses
    BY <2>1 DEF IInv, TypeOK, NoReadAfterFree, Statuses, Status
  <2>8. IInv'
    BY <2>3, <2>4, <2>5, <2>6, <2>7, Assemble
  <2>9. Frozen
    <3> SUFFICES ASSUME NEW p \in live, mLocked[p]
                 PROVE  /\ mBuffer'[p] = mBuffer[p]
                        /\ mBuffer[p] # NULL => heap'[mBuffer[p]] = heap[mBuffer[p]]
      BY DEF Frozen
    <3>1. p # o /\ p \in Objs /\ after[p] = mBuffer[p]
      BY <1>2 DEF IInv, TypeOK
    <3>2. mBuffer[p] # NULL => mBuffer[p] \in Bufs /\ mBuffer[p] # after[o]
      BY <2>1, <3>1, CameraMetadataAssumption DEF IInv, TypeOK, OneOwner
    <3> HIDE DEF after, released
    <3> QED
      BY <2>1, <2>2, <2>3, <3>1, <3>2
  <2>10. LeakKnown
    <3> SUFFICES ASSUME NEW b \in Bufs, b \in Leaked', b \notin Leaked PROVE FALSE
      BY DEF LeakKnown, Leaked
    <3>1. heap'[b] # Free /\ b \notin raw' /\ \A p \in live' : mBuffer'[p] # b
      BY DEF Leaked, Owners
    <3>2. heap[b] # Free /\ b \notin raw /\ b # after[o]
      BY <2>1, <2>3, <3>1
    <3>3. \A p \in live : mBuffer[p] # b
      BY <2>1, <3>1, <3>2, CameraMetadataAssumption DEF IInv, TypeOK
    <3> QED
      BY <3>2, <3>3 DEF Leaked, Owners
  <2> QED
    BY <2>8, <2>9, <2>10 DEF Kept
<1> QED
  BY <1>1, <1>2 DEF acquireOther

\* swap satisfies Kept.
LEMMA SwapStep ==
    ASSUME IInv, NEW o \in Objs, NEW other \in Objs, swap(o, other)
    PROVE  Kept
<1>1. CASE Refuse(o, "void") \/ Refuse(other, "void")
  BY <1>1, RefusedKeeps DEF Statuses, Status
<1>2. CASE ~mLocked[o] /\ ~mLocked[other]
  <2>1. /\ mBuffer' = [mBuffer EXCEPT ![o] = mBuffer[other], ![other] = mBuffer[o]]
        /\ res' = "void" /\ UNCHANGED <<live, mLocked, heap, raw, stale>>
        /\ o \in live /\ other \in live
    BY <1>2 DEF swap, Refuse, Return
  <2>2. OneOwner'
    BY <2>1 DEF IInv, TypeOK, OneOwner
  <2>3. /\ live' \subseteq Objs /\ mBuffer' \in [Objs -> Bufs \cup {NULL}]
        /\ raw' \subseteq Bufs /\ heap' \in Heaps
    BY <2>1 DEF IInv, TypeOK
  <2>4. mLocked' \in [Objs -> BOOLEAN] /\ stale' \subseteq {"start"} /\ res' \in Statuses
    BY <2>1 DEF IInv, TypeOK, NoReadAfterFree, Statuses, Status
  <2>5. IInv'
    BY <2>2, <2>3, <2>4, Assemble
  <2>6. Frozen
    BY <1>2, <2>1 DEF Frozen, IInv, TypeOK
  <2>7. LeakKnown
    <3> SUFFICES ASSUME NEW b \in Bufs, b \in Leaked', b \notin Leaked PROVE FALSE
      BY DEF LeakKnown, Leaked
    <3>1. heap[b] # Free /\ b \notin raw /\ \A p \in live : mBuffer'[p] # b
      BY <2>1 DEF Leaked, Owners
    <3>2. \A p \in live : mBuffer[p] # b
      BY <2>1, <3>1 DEF IInv, TypeOK
    <3> QED
      BY <3>1, <3>2 DEF Leaked, Owners
  <2> QED
    BY <2>5, <2>6, <2>7 DEF Kept
<1> QED
  BY <1>1, <1>2 DEF swap

-----------------------------------------------------------------------------
(* Content *)

\* The resize of o frees at most o's own buffer, so that a source which it
\* has freed can only be of a kind that its caller lets pass.
LEMMA ReadKind ==
    ASSUME NEW o, NEW b \in Bufs, NEW start \in BOOLEAN, NEW h,
           stale \subseteq {"start"}, Read(o, b, start, h),
           h[b] = Free => b = mBuffer[o] /\ start
    PROVE  stale' \subseteq {"start"}
<1>1. CASE h[b] = Free
  <2>1. Kind(o, b, start) = "start"
    BY <1>1 DEF Kind
  <2> QED
    BY <1>1, <2>1 DEF Read
<1>2. CASE h[b] # Free
  BY <1>2 DEF Read
<1> QED
  BY <1>1, <1>2

\* Appending from free memory leaves a heap of good metadata all the same.
LEMMA GarbageFits ==
    ASSUME NEW h \in Heaps, NEW b \in Bufs, h[b] \in Good, StoreGarbage(h, b)
    PROVE  /\ heap' \in Heaps
           /\ heap'[b] # Free
           /\ \A a \in Bufs : a # b => heap'[a] = h[a]
           /\ res' \in {"OK", "ERROR"}
<1>1. CASE heap' = h /\ Return("ERROR")
  BY <1>1, GoodFields DEF Return
<1>2. CASE \E n \in h[b].n .. MaxEntries, d \in h[b].d .. MaxData :
              HasRoom(h[b], n, d) /\ Store(h, b, n, d)
  <2>1. PICK n \in h[b].n .. MaxEntries, d \in h[b].d .. MaxData :
              HasRoom(h[b], n, d) /\ Store(h, b, n, d)
    BY <1>2
  <2>2. n \in 0 .. MaxEntries /\ d \in 0 .. MaxData /\ n <= h[b].ecap /\ d <= h[b].dcap
    <3>1. h[b].n \in Nat /\ h[b].d \in Nat
      BY GoodFields, CameraMetadataAssumption
    <3> QED
      BY <2>1, <3>1, CameraMetadataAssumption DEF HasRoom
  <2> QED
    BY <2>1, <2>2, StoreFits
<1> QED
  BY <1>1, <1>2 DEF StoreGarbage

\* append from a buffer satisfies Kept: the resize frees only the object's
\* own buffer, which the library then reads from its start.
LEMMA AppendBuffer ==
    ASSUME IInv, NEW o \in Objs, NEW b \in Bufs, append(o, b)
    PROVE  Kept
<1> DEFINE own == mBuffer[o]
           e   == heap[b].n
           d   == heap[b].d
<1>0. /\ o \in live /\ own \in Bufs \cup {NULL} /\ (own # NULL => heap[own] # Free)
      /\ heap[b] # Free /\ b # NULL
  BY CameraMetadataAssumption DEF append, Owned, IInv, TypeOK, OneOwner
<1>1. CASE Refuse(o, "INVALID_OPERATION")
  BY <1>1, RefusedKeeps DEF Statuses, Status
<1>2. CASE Die
  BY <1>2, DieStep
<1>3. CASE ~mLocked[o] /\ ~Die
  <2>1. e \in Nat /\ d \in Nat /\ Bounded(CountOf(own) + e, DataOf(own) + d)
    <3>1. heap[b] \in Good
      BY <1>0 DEF IInv, Heaps
    <3>2. heap[b].n \in Nat /\ heap[b].d \in Nat
      BY <3>1, GoodFields, CameraMetadataAssumption
    <3>3. Bounded(CountOf(mBuffer[o]) + heap[b].n, DataOf(mBuffer[o]) + heap[b].d)
      BY <1>0, <1>3 DEF append, Refuse
    <3> QED
      BY <3>2, <3>3
  <2>2. PICK r \in resizeIfNeeded(own, e, d) :
           /\ mBuffer' = [mBuffer EXCEPT ![o] = r.buf]
           /\ Read(o, b, TRUE, r.heap)
           /\ \/ r.buf = NULL /\ heap' = r.heap /\ Return("ERROR")
              \/ /\ r.buf # NULL /\ r.heap[b] # Free
                 /\ Store(r.heap, r.buf, r.heap[r.buf].n + e, r.heap[r.buf].d + d)
              \/ /\ r.buf # NULL /\ r.heap[b] = Free
                 /\ StoreGarbage(r.heap, r.buf)
           /\ UNCHANGED <<live, mLocked, raw>>
    BY <1>0, <1>3 DEF append, Refuse
  <2>3. UNCHANGED <<live, mLocked, raw>>
    BY <2>2
  <2> HIDE DEF e, d, own
  <2>4. /\ r.buf \in Bufs \cup {NULL}
        /\ r.heap \in Heaps
        /\ \A a \in Bufs : (a # own /\ a # r.buf) => r.heap[a] = heap[a]
        /\ r.buf # NULL =>
             /\ r.buf = own \/ heap[r.buf] = Free
             /\ r.heap[r.buf] \in Good
             /\ r.heap[r.buf].n = CountOf(own) /\ r.heap[r.buf].d = DataOf(own)
             /\ CountOf(own) + e <= r.heap[r.buf].ecap
             /\ DataOf(own) + d <= r.heap[r.buf].dcap
             /\ own # NULL /\ own # r.buf => r.heap[own] = Free
    BY <1>0, <2>1, ResizeMakesRoom DEF IInv
  <2>5. stale' \subseteq {"start"}
    <3>1. r.heap[b] = Free => b = mBuffer[o]
      <4>1. CASE b = r.buf
        BY <4>1, <1>0, <2>4, GoodFields DEF own
      <4>2. CASE b # r.buf
        BY <4>2, <1>0, <2>4 DEF own
      <4> QED
        BY <4>1, <4>2
    <3>2. stale \subseteq {"start"}
      BY DEF IInv, NoReadAfterFree
    <3> QED
      BY <2>2, <3>1, <3>2, ReadKind
  <2>6. /\ heap' \in Heaps /\ res' \in Statuses
        /\ r.buf # NULL => heap'[r.buf] # Free
        /\ \A a \in Bufs : (a # own /\ a # r.buf) => heap'[a] = heap[a]
        /\ r.buf = NULL => res' = "ERROR"
        /\ r.buf # NULL /\ own # NULL /\ own # r.buf => heap'[own] = Free
    <3>1. CASE r.buf = NULL
      BY <3>1, <2>2, <2>4 DEF Return, Statuses, Status
    <3>2. CASE r.buf # NULL
      <4>1. r.buf \in Bufs /\ r.heap[r.buf].n \in Nat /\ r.heap[r.buf].d \in Nat
        BY <3>2, <2>4, GoodFields
      <4>2. /\ r.heap[r.buf].n + e \in 0 .. MaxEntries
            /\ r.heap[r.buf].d + d \in 0 .. MaxData
            /\ r.heap[r.buf].n + e <= r.heap[r.buf].ecap
            /\ r.heap[r.buf].d + d <= r.heap[r.buf].dcap
        BY <3>2, <4>1, <2>1, <2>4, CameraMetadataAssumption DEF Bounded
      <4>3. /\ heap' \in Heaps /\ heap'[r.buf] # Free /\ res' \in {"OK", "ERROR"}
            /\ \A a \in Bufs : a # r.buf => heap'[a] = r.heap[a]
        <5>1. CASE Store(r.heap, r.buf, r.heap[r.buf].n + e, r.heap[r.buf].d + d)
          BY <5>1, <3>2, <4>1, <4>2, <2>4, StoreFits
        <5>2. CASE StoreGarbage(r.heap, r.buf)
          BY <5>2, <3>2, <4>1, <2>4, GarbageFits
        <5> QED
          BY <5>1, <5>2, <3>2, <2>2
      <4> QED
        BY <1>0, <3>2, <4>3, <2>4 DEF Statuses, Status
    <3> QED
      BY <3>1, <3>2
  <2>7. raw' = raw \ {r.buf}
    <3>1. CASE r.buf # NULL /\ r.buf = own
      BY <3>1, <2>3, <1>0 DEF own, IInv, OneOwner
    <3>2. CASE r.buf = NULL \/ heap[r.buf] = Free
      BY <3>2, <2>3, <2>4, FreshNotRaw
    <3> QED
      BY <3>1, <3>2, <2>4
  <2>8. Settled(o, r.buf)
    BY <2>6 DEF Settled, own
  <2> QED
    BY <1>0, <1>3, <2>2, <2>3, <2>4, <2>5, <2>6, <2>7, <2>8, Replaced DEF own
<1> QED
  BY <1>1, <1>2, <1>3 DEF append, Refuse

\* append satisfies Kept.
LEMMA AppendStep ==
    ASSUME IInv, NEW o \in Objs, NEW b \in Bufs \cup {NULL}, append(o, b)
    PROVE  Kept
<1>1. CASE b \in Bufs
  BY <1>1, AppendBuffer
<1>2. CASE b = NULL
  <2>1. Refuse(o, "INVALID_OPERATION") \/ Die
    BY <1>2 DEF append
  <2> QED
    BY <2>1, RefusedKeeps, DieStep DEF Statuses, Status
<1> QED
  BY <1>1, <1>2

\* updateImpl satisfies Kept: data inside the object's own buffer is refused,
\* but at its first byte.
LEMMA UpdateImplStep ==
    ASSUME IInv, NEW o \in live, NEW src \in Bufs \cup {NULL}, NEW len \in 0 .. MaxData,
           src # NULL => heap[src] # Free,
           Bounded(CountOf(mBuffer[o]) + 1, DataOf(mBuffer[o]) + len),
           NEW start \in BOOLEAN, updateImpl(o, src, start, len)
    PROVE  Kept
<1> DEFINE own == mBuffer[o]
<1>0. own \in Bufs \cup {NULL} /\ (own # NULL => heap[own] # Free) /\ len \in Nat
      /\ 1 \in Nat /\ len <= MaxData
  BY CameraMetadataAssumption DEF IInv, TypeOK, OneOwner
<1>1. CASE ~mLocked[o] /\ src # NULL /\ src = own /\ ~start
  <2>1. UNCHANGED <<live, mBuffer, heap, raw, stale>> /\ mLocked' = mLocked
        /\ res' = "INVALID_OPERATION"
    BY <1>1 DEF updateImpl, Return
  <2> QED
    BY <2>1, Untouched DEF IInv, TypeOK, Statuses, Status
<1>2. CASE Die
  BY <1>2, DieStep
<1>3. CASE ~mLocked[o] /\ (src = NULL \/ src # own \/ start) /\ ~Die
  <2>1. PICK r \in resizeIfNeeded(own, 1, len) :
           /\ mBuffer' = [mBuffer EXCEPT ![o] = r.buf]
           /\ \/ ~r.ok /\ heap' = r.heap /\ Return("NO_MEMORY") /\ UNCHANGED stale
              \/ /\ r.ok /\ StoreEntry(r, len)
                 /\ IF src = NULL THEN UNCHANGED stale ELSE Read(o, src, start, r.heap)
           /\ UNCHANGED <<live, mLocked, raw>>
    BY <1>3 DEF updateImpl, ResizeAndStore
  <2>2. UNCHANGED <<live, mLocked, raw>>
    BY <2>1
  <2>3. Bounded(CountOf(own) + 1, DataOf(own) + len)
    OBVIOUS
  <2> HIDE DEF own
  <2>4. /\ r.buf \in Bufs \cup {NULL}
        /\ r.ok <=> r.buf # NULL
        /\ r.heap \in Heaps
        /\ \A a \in Bufs : (a # own /\ a # r.buf) => r.heap[a] = heap[a]
        /\ r.buf # NULL =>
             /\ r.buf = own \/ heap[r.buf] = Free
             /\ r.heap[r.buf] \in Good
             /\ r.heap[r.buf].n = CountOf(own) /\ r.heap[r.buf].d = DataOf(own)
             /\ CountOf(own) + 1 <= r.heap[r.buf].ecap
             /\ DataOf(own) + len <= r.heap[r.buf].dcap
             /\ own # NULL /\ own # r.buf => r.heap[own] = Free
    BY <1>0, <2>3, ResizeMakesRoom DEF IInv
  <2>5. stale' \subseteq {"start"}
    <3>0. stale \subseteq {"start"}
      BY DEF IInv, NoReadAfterFree
    <3>1. CASE src = NULL \/ ~r.ok
      BY <3>0, <3>1, <2>1
    <3>2. CASE src # NULL /\ r.ok
      <4>1. src \in Bufs /\ heap[src] # Free /\ (src # mBuffer[o] \/ start)
        BY <3>2, <1>3 DEF own
      <4>2. r.heap[src] = Free => src = mBuffer[o] /\ start
        <5>1. CASE src = r.buf
          BY <5>1, <2>4, <3>2, GoodFields
        <5>2. CASE src # r.buf
          BY <4>1, <5>2, <2>4 DEF own
        <5> QED
          BY <5>1, <5>2
      <4>3. Read(o, src, start, r.heap)
        BY <3>2, <2>1
      <4> QED
        BY <3>0, <4>1, <4>2, <4>3, ReadKind
    <3> QED
      BY <3>1, <3>2
  <2>6. /\ heap' \in Heaps /\ res' \in Statuses
        /\ r.buf # NULL => heap'[r.buf] # Free
        /\ \A a \in Bufs : (a # own /\ a # r.buf) => heap'[a] = heap[a]
        /\ r.buf = NULL => res' = "NO_MEMORY"
        /\ r.buf # NULL /\ own # NULL /\ own # r.buf => heap'[own] = Free
    <3>1. CASE r.buf = NULL
      BY <3>1, <2>1, <2>4 DEF Return, Statuses, Status
    <3>2. CASE r.buf # NULL
      <4> DEFINE m == r.heap[r.buf]
      <4>1. r.buf \in Bufs /\ m \in Good /\ m.n \in Nat /\ m.d \in Nat
        BY <3>2, <2>4, GoodFields
      <4>2. PICK n \in 0 .. MaxEntries, d \in 0 .. MaxData :
               /\ n <= m.ecap /\ d <= m.dcap
               /\ Store(r.heap, r.buf, n, d)
        <5>1. m.n + 1 \in 0 .. MaxEntries /\ m.d + len \in 0 .. MaxData
              /\ m.n + 1 <= m.ecap /\ m.d + len <= m.dcap
          BY <3>2, <4>1, <2>3, <2>4, <1>0, CameraMetadataAssumption DEF Bounded
        <5>2. CASE Store(r.heap, r.buf, m.n + 1, m.d + len)
          BY <5>1, <5>2
        <5>3. CASE \E old \in 0 .. m.d : Store(r.heap, r.buf, m.n, m.d - old + len)
          <6>1. PICK old \in 0 .. m.d : Store(r.heap, r.buf, m.n, m.d - old + len)
            BY <5>3
          <6>2. m.n \in 0 .. MaxEntries /\ m.d - old + len \in 0 .. MaxData
                /\ m.n <= m.ecap /\ m.d - old + len <= m.dcap
            <7>1. m.ecap \in Nat /\ m.dcap \in Nat
              BY <4>1, GoodFields
            <7> HIDE DEF m
            <7> QED
              BY <5>1, <4>1, <1>0, <7>1, CameraMetadataAssumption
          <6> QED
            BY <6>1, <6>2
        <5> QED
          BY <5>2, <5>3, <3>2, <2>1, <2>4 DEF StoreEntry
      <4>3. /\ heap' \in Heaps /\ heap'[r.buf] # Free /\ res' = "OK"
            /\ \A a \in Bufs : a # r.buf => heap'[a] = r.heap[a]
        BY <4>1, <4>2, <2>4, StoreFits
      <4> QED
        BY <1>0, <3>2, <4>3, <2>4 DEF Statuses, Status
    <3> QED
      BY <3>1, <3>2
  <2>7. raw' = raw \ {r.buf}
    <3>1. CASE r.buf # NULL /\ r.buf = own
      BY <3>1, <2>2, <1>0 DEF own, IInv, OneOwner
    <3>2. CASE r.buf = NULL \/ heap[r.buf] = Free
      BY <3>2, <2>2, <2>4, FreshNotRaw
    <3> QED
      BY <3>1, <3>2, <2>4
  <2>8. Settled(o, r.buf)
    BY <2>6 DEF Settled, own
  <2> QED
    BY <1>0, <1>3, <2>1, <2>2, <2>4, <2>5, <2>6, <2>7, <2>8, Replaced DEF own
<1> QED
  BY <1>1, <1>2, <1>3 DEF updateImpl

\* The update overloads satisfy Kept.
LEMMA UpdateStep ==
    ASSUME IInv, NEW o \in Objs, NEW src \in Bufs \cup {NULL}, NEW len \in 0 .. MaxData,
           NEW start \in BOOLEAN, update(o, src, start, len)
    PROVE  Kept
<1>1. CASE Refuse(o, "INVALID_OPERATION")
  BY <1>1, RefusedKeeps DEF Statuses, Status
<1>2. CASE /\ ~mLocked[o]
           /\ Return("INVALID_OPERATION")
           /\ UNCHANGED <<live, mBuffer, mLocked, heap, raw, stale>>
  BY <1>2, Untouched DEF IInv, TypeOK, Return, Statuses, Status
<1>3. CASE updateImpl(o, src, start, len)
  <2>1. o \in live /\ (src # NULL => heap[src] # Free)
    BY DEF update, Owned, IInv, TypeOK, OneOwner
  <2>2. Bounded(CountOf(mBuffer[o]) + 1, DataOf(mBuffer[o]) + len)
    BY DEF update
  <2> QED
    BY <1>3, <2>1, <2>2, UpdateImplStep
<1> QED
  BY <1>1, <1>2, <1>3 DEF update

\* erase satisfies Kept.
LEMMA EraseStep ==
    ASSUME IInv, NEW o \in Objs, erase(o)
    PROVE  Kept
<1> DEFINE own == mBuffer[o]
<1>1. CASE Refuse(o, "INVALID_OPERATION")
  BY <1>1, RefusedKeeps DEF Statuses, Status
<1>2. CASE ~mLocked[o]
  <2>0. o \in live /\ own \in Bufs \cup {NULL} /\ (own # NULL => heap[own] # Free)
    BY DEF erase, IInv, TypeOK, OneOwner
  <2>1. UNCHANGED <<live, mBuffer, mLocked, raw, stale>>
    BY <1>2 DEF erase, Refuse
  <2>2. CASE Return(IF own = NULL THEN "ERROR" ELSE "OK") /\ UNCHANGED heap
    BY <2>1, <2>2, Untouched DEF IInv, TypeOK, Return, Statuses, Status
  <2>3. CASE /\ CountOf(own) > 0
             /\ \E old \in 0 .. DataOf(own) :
                  Store(heap, own, CountOf(own) - 1, DataOf(own) - old)
    <3>1. PICK old \in 0 .. DataOf(own) : Store(heap, own, CountOf(own) - 1, DataOf(own) - old)
      BY <2>3
    <3>2. own \in Bufs /\ heap[own] \in Good
          /\ CountOf(own) = heap[own].n /\ DataOf(own) = heap[own].d
      BY <2>0, <2>3 DEF CountOf, DataOf, IInv, Heaps
    <3>3. /\ heap[own].n \in 0 .. MaxEntries /\ heap[own].d \in 0 .. MaxData
          /\ heap[own].ecap \in 0 .. 2 * MaxEntries /\ heap[own].dcap \in 0 .. 2 * MaxData
          /\ heap[own].n <= heap[own].ecap /\ heap[own].d <= heap[own].dcap
      BY <3>2, GoodFields
    <3>4. /\ CountOf(own) - 1 \in 0 .. MaxEntries /\ DataOf(own) - old \in 0 .. MaxData
          /\ CountOf(own) - 1 <= heap[own].ecap /\ DataOf(own) - old <= heap[own].dcap
      BY <2>3, <3>2, <3>3, CameraMetadataAssumption
    <3>5. /\ heap' \in Heaps /\ heap'[own] # Free /\ res' = "OK"
          /\ \A a \in Bufs : a # own => heap'[a] = heap[a]
      <4> HIDE DEF own
      <4> QED
        BY <3>1, <3>2, <3>4, StoreFits DEF IInv
    <3>6. OneOwner'
      BY <2>1, <3>5 DEF IInv, OneOwner, TypeOK
    <3>7. /\ live' \subseteq Objs /\ mBuffer' \in [Objs -> Bufs \cup {NULL}] /\ raw' \subseteq Bufs
      BY <2>1 DEF IInv, TypeOK
    <3>8. mLocked' \in [Objs -> BOOLEAN] /\ stale' \subseteq {"start"}
      BY <2>1 DEF IInv, TypeOK, NoReadAfterFree
    <3>9. IInv'
      BY <3>5, <3>6, <3>7, <3>8, Assemble DEF Statuses, Status
    <3>10. Frozen
      <4> SUFFICES ASSUME NEW p \in live, mLocked[p]
                   PROVE  mBuffer[p] # NULL => heap'[mBuffer[p]] = heap[mBuffer[p]]
        BY <2>1 DEF Frozen
      <4>1. mBuffer[p] # NULL => mBuffer[p] \in Bufs /\ mBuffer[p] # own
        BY <1>2, <2>0 DEF IInv, TypeOK, OneOwner
      <4> QED
        BY <3>5, <4>1
    <3>11. LeakKnown
      <4> SUFFICES ASSUME NEW b \in Bufs, b \in Leaked', b \notin Leaked PROVE FALSE
        BY DEF LeakKnown, Leaked
      <4>1. heap'[b] # Free /\ b \notin raw /\ \A p \in live : mBuffer[p] # b
        BY <2>1 DEF Leaked, Owners
      <4>2. heap[b] # Free
        BY <2>0, <3>5, <4>1
      <4> QED
        BY <4>1, <4>2 DEF Leaked, Owners
    <3> QED
      BY <3>9, <3>10, <3>11 DEF Kept
  <2> QED
    BY <1>2, <2>2, <2>3 DEF erase, Refuse
<1> QED
  BY <1>1, <1>2 DEF erase

-----------------------------------------------------------------------------
(* Parcels and the client *)

\* Reading a parcel gives nothing or a fresh buffer with good metadata.
LEMMA ParcelFresh ==
    ASSUME IInv, NEW r \in ParcelReads
    PROVE  /\ r.buf \in Bufs \cup {NULL}
           /\ r.heap \in Heaps
           /\ r.buf # NULL => heap[r.buf] = Free /\ r.heap[r.buf] # Free
           /\ \A b \in Bufs : b # r.buf => r.heap[b] = heap[b]
<1>1. CASE r \in {[ok |-> FALSE, buf |-> NULL, heap |-> heap],
                  [ok |-> TRUE, buf |-> NULL, heap |-> heap]}
  <2>1. r.buf = NULL /\ r.heap = heap
    BY <1>1
  <2> QED
    BY <2>1 DEF IInv
<1>2. CASE r \in {[ok |-> TRUE, buf |-> x, heap |-> With(x, m)] : x \in Unallocated, m \in Sent}
  <2>1. PICK x \in Unallocated, m \in Sent : r = [ok |-> TRUE, buf |-> x, heap |-> With(x, m)]
    BY <1>2
  <2>2. PICK n \in 0 .. MaxEntries, d \in 0 .. MaxData : m = Metadata(n, d, n, d)
    BY DEF Sent
  <2>3. n \in 0 .. 2 * MaxEntries /\ d \in 0 .. 2 * MaxData /\ n <= n /\ d <= d
    BY CameraMetadataAssumption
  <2>4. m \in Good /\ m # Free
    BY <2>2, <2>3, GoodMetadata, GoodFields
  <2>5. x \in Bufs /\ x # NULL /\ heap[x] = Free
    BY CameraMetadataAssumption DEF Unallocated
  <2>6. /\ With(x, m) \in Heaps
        /\ \A b \in Bufs : With(x, m)[b] = IF b = x THEN m ELSE heap[b]
    BY <2>4, <2>5, WithHeap DEF IInv
  <2>7. r.buf = x /\ r.heap = With(x, m)
    BY <2>1
  <2> QED
    BY <2>4, <2>5, <2>6, <2>7
<1> QED
  BY <1>1, <1>2 DEF ParcelReads

\* readFromParcel on an object satisfies Kept.
LEMMA ReadStep ==
    ASSUME IInv, NEW o \in Objs, readFromParcel(o)
    PROVE  Kept
<1>1. CASE Refuse(o, "INVALID_OPERATION")
  BY <1>1, RefusedKeeps DEF Statuses, Status
<1>2. CASE ~mLocked[o]
  <2>1. PICK r \in ParcelReads :
          \/ ~r.ok /\ Return("BAD_VALUE") /\ UNCHANGED <<mBuffer, heap>>
          \/ /\ r.ok /\ heap' = Freed(r.heap, mBuffer[o])
             /\ mBuffer' = [mBuffer EXCEPT ![o] = r.buf] /\ Return("OK")
    BY <1>2 DEF readFromParcel, Refuse
  <2>2. UNCHANGED <<live, mLocked, raw, stale>> /\ o \in live
    BY <1>2 DEF readFromParcel, Refuse
  <2>3. CASE ~r.ok /\ Return("BAD_VALUE") /\ UNCHANGED <<mBuffer, heap>>
    BY <2>2, <2>3, Untouched DEF IInv, TypeOK, Return, Statuses, Status
  <2>4. CASE /\ heap' = Freed(r.heap, mBuffer[o])
             /\ mBuffer' = [mBuffer EXCEPT ![o] = r.buf] /\ Return("OK")
    <3>1. /\ r.buf \in Bufs \cup {NULL} /\ r.heap \in Heaps
          /\ r.buf # NULL => heap[r.buf] = Free /\ r.heap[r.buf] # Free
          /\ \A b \in Bufs : b # r.buf => r.heap[b] = heap[b]
      BY ParcelFresh
    <3>2. mBuffer[o] \in Bufs \cup {NULL} /\ (mBuffer[o] # NULL => heap[mBuffer[o]] # Free)
      BY <2>2 DEF IInv, TypeOK, OneOwner
    <3>3. /\ heap' \in Heaps
          /\ \A b \in Bufs : heap'[b] = IF b = mBuffer[o] THEN Free ELSE r.heap[b]
      BY <2>4, <3>1, <3>2, FreedHeap
    <3>4. r.buf # NULL => heap'[r.buf] # Free
      BY <3>1, <3>2, <3>3
    <3>5. \A b \in Bufs : (b # mBuffer[o] /\ b # r.buf) => heap'[b] = heap[b]
      BY <3>1, <3>3
    <3>6. raw' = raw \ {r.buf}
      BY <2>2, <3>1, FreshNotRaw
    <3>7. stale' \subseteq {"start"} /\ res' \in Statuses
      BY <2>2, <2>4 DEF IInv, NoReadAfterFree, TypeOK, Return, Statuses, Status
    <3>8. Settled(o, r.buf)
      BY <3>2, <3>3 DEF Settled
    <3> QED
      BY <1>2, <2>2, <2>4, <3>1, <3>3, <3>4, <3>5, <3>6, <3>7, <3>8, Replaced
  <2> QED
    BY <2>1, <2>3, <2>4
<1> QED
  BY <1>1, <1>2 DEF readFromParcel

\* The static readFromParcel satisfies Kept.
LEMMA ReadRawStep ==
    ASSUME IInv, readRawFromParcel
    PROVE  Kept
<1>1. PICK r \in ParcelReads, taken \in BOOLEAN :
         /\ heap' = IF taken THEN r.heap ELSE Freed(r.heap, r.buf)
         /\ raw' = IF taken THEN raw \cup ({r.buf} \ {NULL}) ELSE raw
         /\ Return(IF r.ok THEN "OK" ELSE "BAD_VALUE")
  BY DEF readRawFromParcel
<1>2. UNCHANGED <<live, mBuffer, mLocked, stale>>
  BY DEF readRawFromParcel
<1>3. /\ r.buf \in Bufs \cup {NULL} /\ r.heap \in Heaps
      /\ r.buf # NULL => heap[r.buf] = Free /\ r.heap[r.buf] # Free
      /\ \A b \in Bufs : b # r.buf => r.heap[b] = heap[b]
  BY ParcelFresh
<1>4. /\ Freed(r.heap, r.buf) \in Heaps
      /\ \A b \in Bufs : b # r.buf => Freed(r.heap, r.buf)[b] = heap[b]
  BY <1>3, FreedHeap
<1>5. heap' \in Heaps /\ \A b \in Bufs : b # r.buf => heap'[b] = heap[b]
  BY <1>1, <1>3, <1>4
<1>6. OneOwner'
  <2>1. CASE taken
    <3>1. heap' = r.heap /\ raw' = raw \cup ({r.buf} \ {NULL})
      BY <2>1, <1>1
    <3>2. \A b \in raw' : heap'[b] # Free
      <4>1. \A b \in raw : b \in Bufs /\ heap[b] # Free /\ b # r.buf
        BY <1>3, CameraMetadataAssumption DEF IInv, TypeOK, OneOwner
      <4>2. r.buf # NULL => heap'[r.buf] # Free
        BY <3>1, <1>3
      <4> QED
        BY <3>1, <4>1, <4>2, <1>5
    <3>3. \A o \in live : mBuffer[o] # NULL => mBuffer[o] # r.buf /\ mBuffer[o] \in Bufs
      BY <1>3, CameraMetadataAssumption DEF IInv, TypeOK, OneOwner
    <3> QED
      BY <3>1, <3>2, <3>3, <1>2, <1>5 DEF IInv, OneOwner
  <2>2. CASE ~taken
    <3>1. raw' = raw
      BY <2>2, <1>1
    <3>2. \A o \in live : mBuffer[o] # NULL => mBuffer[o] # r.buf /\ mBuffer[o] \in Bufs
      BY <1>3, CameraMetadataAssumption DEF IInv, TypeOK, OneOwner
    <3>3. \A b \in raw : b # r.buf /\ b \in Bufs
      BY <1>3, CameraMetadataAssumption DEF IInv, TypeOK, OneOwner
    <3> QED
      BY <3>1, <3>2, <3>3, <1>2, <1>5 DEF IInv, OneOwner
  <2> QED
    BY <2>1, <2>2
<1>7. /\ live' \subseteq Objs /\ mBuffer' \in [Objs -> Bufs \cup {NULL}] /\ raw' \subseteq Bufs
  BY <1>1, <1>2, <1>3 DEF IInv, TypeOK
<1>8. mLocked' \in [Objs -> BOOLEAN] /\ stale' \subseteq {"start"} /\ res' \in Statuses
  BY <1>1, <1>2 DEF IInv, TypeOK, NoReadAfterFree, Return, Statuses, Status
<1>9. IInv'
  BY <1>5, <1>6, <1>7, <1>8, Assemble
<1>10. Frozen
  <2> SUFFICES ASSUME NEW p \in live, mBuffer[p] # NULL
               PROVE  heap'[mBuffer[p]] = heap[mBuffer[p]]
    BY <1>2 DEF Frozen
  <2>1. mBuffer[p] \in Bufs /\ mBuffer[p] # r.buf
    BY <1>3 DEF IInv, TypeOK, OneOwner
  <2> QED
    BY <1>5, <2>1
<1>11. LeakKnown
  <2> SUFFICES ASSUME NEW b \in Bufs, b \in Leaked', b \notin Leaked PROVE FALSE
    BY DEF LeakKnown, Leaked
  <2>1. heap'[b] # Free /\ b \notin raw' /\ \A p \in live : mBuffer[p] # b
    BY <1>2 DEF Leaked, Owners
  <2>2. b # r.buf
    <3>1. CASE taken
      BY <3>1, <1>1, <2>1, CameraMetadataAssumption
    <3>2. CASE ~taken
      BY <3>2, <1>1, <1>3, <2>1, FreedHeap
    <3> QED
      BY <3>1, <3>2
  <2>3. heap[b] # Free /\ b \notin raw
    BY <1>1, <1>5, <2>1, <2>2
  <2> QED
    BY <2>1, <2>3 DEF Leaked, Owners
<1> QED
  BY <1>9, <1>10, <1>11 DEF Kept

\* A client that frees its own buffer satisfies Kept.
LEMMA FreeRawStep ==
    ASSUME IInv, NEW b \in Bufs, FreeRaw(b)
    PROVE  Kept
<1>1. b \in raw /\ raw' = raw \ {b} /\ heap' = Freed(heap, b) /\ res' = "void"
      /\ UNCHANGED <<live, mBuffer, mLocked, stale>>
  BY DEF FreeRaw, Return
<1>2. heap' \in Heaps /\ \A a \in Bufs : heap'[a] = IF a = b THEN Free ELSE heap[a]
  BY <1>1, FreedHeap DEF IInv
<1>3. OneOwner'
  BY <1>1, <1>2 DEF IInv, TypeOK, OneOwner
<1>4. /\ live' \subseteq Objs /\ mBuffer' \in [Objs -> Bufs \cup {NULL}] /\ raw' \subseteq Bufs
  BY <1>1 DEF IInv, TypeOK
<1>5. mLocked' \in [Objs -> BOOLEAN] /\ stale' \subseteq {"start"} /\ res' \in Statuses
  BY <1>1 DEF IInv, TypeOK, NoReadAfterFree, Statuses, Status
<1>6. IInv'
  BY <1>2, <1>3, <1>4, <1>5, Assemble
<1>7. Frozen
  BY <1>1, <1>2 DEF Frozen, IInv, TypeOK, OneOwner
<1>8. LeakKnown
  BY <1>1, <1>2 DEF LeakKnown, Leaked, Owners
<1> QED
  BY <1>6, <1>7, <1>8 DEF Kept

-----------------------------------------------------------------------------
(* The invariant *)

\* IInv holds at first.
LEMMA InitIInv == Init => IInv
<1> SUFFICES ASSUME Init PROVE IInv
  OBVIOUS
<1>1. heap \in Heaps
  BY DEF Init, Heaps
<1>2. TypeOK
  BY <1>1, HeapsType DEF Init, TypeOK, Status
<1> QED
  BY <1>1, <1>2 DEF Init, IInv, OneOwner, NoReadAfterFree, NeverFull

\* Every step preserves IInv, leaves locked objects alone and loses no buffer
\* but in the two known places.
LEMMA EveryStep == IInv /\ [Next]_vars => Kept
<1> SUFFICES ASSUME IInv, [Next]_vars PROVE Kept
  OBVIOUS
<1>1. ASSUME NEW o \in Objs,
             \/ ConstructEmpty(o)
             \/ \E e \in 0 .. 1, d \in 0 .. 1 : d <= MaxData /\ ConstructSized(o, e, d)
             \/ \E other \in Objs : ConstructCopy(o, other)
             \/ \E b \in raw \cup {NULL} : ConstructFrom(o, b)
      PROVE  Kept
  BY <1>1, ConstructStep
<1>2. ASSUME NEW o \in Objs, Destroy(o) PROVE Kept
  BY <1>2, DestroyStep
<1>3. ASSUME NEW o \in Objs,
             \/ getAndLock(o)
             \/ \E b \in Bufs \cup {NULL} : unlock(o, b)
             \/ sort(o)
      PROVE  Kept
  BY <1>3, LockStep
<1>4. ASSUME NEW o \in Objs, \E other \in live : Assign(o, mBuffer[other]) PROVE Kept
  <2>1. PICK other \in live : Assign(o, mBuffer[other])
    BY <1>4
  <2>2. PICK b \in Bufs \cup {NULL} : b = mBuffer[other]
    BY DEF IInv, TypeOK
  <2>3. b # NULL => heap[b] # Free
    BY <2>2 DEF IInv, OneOwner
  <2> QED
    BY <2>1, <2>2, <2>3, AssignStep
<1>5. ASSUME NEW o \in Objs, \E b \in raw \cup {NULL} : Assign(o, b) PROVE Kept
  <2>1. PICK b \in raw \cup {NULL} : Assign(o, b)
    BY <1>5
  <2>2. b \in Bufs \cup {NULL} /\ (b # NULL => heap[b] # Free)
    BY DEF IInv, TypeOK, OneOwner
  <2> QED
    BY <2>1, <2>2, AssignStep
<1>6. ASSUME NEW o \in Objs,
             \/ release(o)
             \/ clear(o)
             \/ \E b \in raw \cup {NULL} : acquire(o, b)
             \/ \E other \in Objs : acquireOther(o, other)
             \/ \E other \in Objs : swap(o, other)
      PROVE  Kept
  BY <1>6, ReleaseStep, ClearStep, AcquireStep, AcquireOtherStep, SwapStep
<1>7. ASSUME NEW o \in Objs,
             \/ \E b \in Bufs \cup {NULL} : append(o, b)
             \/ \E src \in Bufs \cup {NULL}, start \in BOOLEAN, len \in 0 .. MaxData :
                   update(o, src, start, len)
             \/ erase(o)
             \/ readFromParcel(o)
      PROVE  Kept
  BY <1>7, AppendStep, UpdateStep, EraseStep, ReadStep
<1>8. CASE readRawFromParcel
  BY <1>8, ReadRawStep
<1>9. ASSUME NEW b \in Bufs, FreeRaw(b) PROVE Kept
  BY <1>9, FreeRawStep
<1>10. CASE UNCHANGED vars
  <2>1. UNCHANGED <<live, mBuffer, heap, raw, stale>> /\ mLocked' = mLocked /\ res' = res
    BY <1>10 DEF vars
  <2>2. res' \in Statuses
    BY <2>1 DEF IInv, TypeOK, NeverFull, Statuses
  <2>3. mLocked' \in [Objs -> BOOLEAN]
    BY <2>1 DEF IInv, TypeOK
  <2> QED
    BY <2>1, <2>2, <2>3, Untouched
<1> QED
  BY <1>1, <1>2, <1>3, <1>4, <1>5, <1>6, <1>7, <1>8, <1>9, <1>10 DEF Next

\* The invariant holds in every state.
LEMMA Invariant == Spec => []IInv
<1>1. IInv /\ [Next]_vars => IInv'
  BY EveryStep DEF Kept
<1> QED BY InitIInv, <1>1, PTL DEF Spec

\* Whatever sequence of calls clients make, also with allocations that fail
\* and with buffers handed to locked objects: every buffer has one owner and
\* no pointer dangles.
THEOREM OwnershipCorrect == Spec => []OneOwner
<1>1. IInv => OneOwner
  BY DEF IInv
<1> QED BY Invariant, <1>1, PTL

\* A buffer that a resize has freed is read again only when an object was
\* given its own buffer by the first byte; every other source of an append or
\* an update is alive when the library reads it.
THEOREM SourcesAlive == Spec => []NoReadAfterFree
<1>1. IInv => NoReadAfterFree
  BY DEF IInv
<1> QED BY Invariant, <1>1, PTL

\* The library never runs out of room in a buffer that resizeIfNeeded has
\* prepared, whatever the counts and capacities.
THEOREM RoomIsMade == Spec => []NeverFull
<1>1. IInv => NeverFull
  BY DEF IInv
<1> QED BY Invariant, <1>1, PTL

\* The pointer that getAndLock gave out stays valid: no call of any object
\* replaces, frees or changes the buffer of an object that stays locked.
THEOREM LockHolds == Spec => LockedFrozen
<1>1. IInv /\ [Next]_vars => [Frozen]_vars
  BY EveryStep DEF Kept
<1>2. Spec => [][Frozen]_vars
  BY Invariant, <1>1, PTL DEF Spec
<1> QED
  BY <1>2 DEF LockedFrozen, Frozen

\* No call loses a buffer but a resize that cannot allocate and a buffer
\* handed to a locked object.
THEOREM LeaksAreKnown == Spec => LeaksOnlyThere
<1>1. IInv /\ [Next]_vars => [LeakKnown]_vars
  BY EveryStep DEF Kept
<1>2. Spec => [][LeakKnown]_vars
  BY Invariant, <1>1, PTL DEF Spec
<1> QED
  BY <1>2 DEF LeaksOnlyThere, LeakKnown

-----------------------------------------------------------------------------
(***************************************************************************)
(* The parcel layout, the module MetadataParcel, for every alignment,      *)
(* metadata size, address of the blob and width of size_t, and for every   *)
(* size, offset and blob length that another sender may put in a parcel.   *)
(***************************************************************************)

Writing == {"writeSize", "writeBlob", "writeOffset"}
Reading == {"readSize", "readBlob", "readOffset", "copy", "done"}

\* The counters of the parcel are integers and pc is a call or the end.
Numbers ==
    /\ pc \in Writing \cup Reading
    /\ sent \in 1 .. MaxSize \cup {None}
    /\ size \in Int32s \cup {None}
    /\ blobLen \in Nat \cup {None}
    /\ offset \in Int32s \cup Nat \cup {None}

\* How far the writer has come.
WriterProgress ==
    /\ pc \in Writing => ~foreign /\ wres = "none"
    /\ pc \in {"writeSize", "writeBlob"} => blobLen = None
    /\ pc \in {"writeBlob", "writeOffset"} =>
          sent # None /\ size # None /\ SizeT(size) = sent + Alignment
    /\ pc = "writeOffset" => offset \in 0 .. Alignment - 1
    /\ (~foreign /\ pc \in Reading /\ wres = "OK") =>
          SizeT(size) = IF sent = None THEN 0 ELSE sent + Alignment

\* What a blob of this writer looks like, as long as its offset is known.
LaidOut ==
    (~foreign /\ blobLen # None) =>
        /\ sent # None
        /\ SizeT(size) = sent + Alignment
        /\ blobLen = sent + Alignment
        /\ offset = None => wres = "ERROR"
        /\ offset # None =>
              /\ SizeT(offset) \in 0 .. Alignment - 1
              /\ blob = Layout(sent, SizeT(offset))

\* What the checks of the reader have established.
ReaderProgress ==
    /\ (~foreign /\ pc \in {"readSize", "readBlob", "readOffset", "copy"}) => wres = "OK"
    /\ pc \in {"readSize", "readBlob", "readOffset", "copy"} => size # None
    /\ pc \in {"readBlob", "readOffset", "copy"} => SizeT(size) > Alignment
    /\ pc \in {"readOffset", "copy"} => blobLen # None /\ blobLen >= SizeT(size)
    /\ pc = "copy" => offset # None /\ SizeT(offset) \in 0 .. Alignment - 1

\* What the reader has given its caller.
Delivered ==
    /\ pc # "done" => rres = "none"
    /\ rres # "OK" => out = NoBytes
    /\ (~foreign /\ rres = "OK") => out = IF sent = None THEN NoBytes ELSE Bytes(sent)

ParcelInv == Numbers /\ WriterProgress /\ LaidOut /\ ReaderProgress /\ Delivered

\* A size or an offset of this writer survives the cast to int32 and back.
LEMMA CastBack ==
    ASSUME NEW v \in 0 .. MaxSize + Alignment
    PROVE  Int32(v) \in Int32s /\ SizeT(Int32(v)) = v
BY ParcelAssumption DEF Int32, SizeT, Int32s

\* The cast of an int32 gives a natural number.
LEMMA CastNat ==
    \A v \in Int32s \cup Nat : SizeT(v) \in Nat
BY ParcelAssumption DEF SizeT, Int32s

\* Rounding an address up to the alignment takes less than one alignment.
LEMMA PaddingBound ==
    ASSUME NEW addr \in Nat
    PROVE  Padding(addr) \in Nat /\ Padding(addr) < Alignment
<1> DEFINE r == (addr + Alignment - 1) % Alignment
<1>1. addr + Alignment - 1 \in Nat
  BY ParcelAssumption
<1>2. r \in 0 .. Alignment - 1
  BY <1>1, ParcelAssumption
<1>3. Padding(addr) = Alignment - 1 - r
  BY <1>1, <1>2, ParcelAssumption DEF Padding, AlignTo
<1> QED
  BY <1>2, <1>3, ParcelAssumption

\* The reader's slice of a blob laid out by the writer is the metadata.
LEMMA SliceOfLayout ==
    ASSUME NEW n \in Nat, NEW pad \in Nat, pad < Alignment
    PROVE  [i \in 0 .. n - 1 |-> Layout(n, pad)[pad + i]] = Bytes(n)
<1>1. ASSUME NEW i \in 0 .. n - 1
      PROVE  Layout(n, pad)[pad + i] = i + 1
  <2>1. pad + i \in 0 .. n + Alignment - 1 /\ pad + i \in pad .. pad + n - 1
    BY ParcelAssumption
  <2> QED
    BY <2>1, ParcelAssumption DEF Layout
<1> QED
  BY <1>1 DEF Bytes

\* ParcelInv holds at first.
LEMMA InitParcelInv == ParcelInit => ParcelInv
<1> USE DEF ParcelInv, Numbers, WriterProgress, LaidOut, ReaderProgress, Delivered,
            Writing, Reading, None
<1>1. WriterInit => ParcelInv
  BY ParcelAssumption DEF WriterInit, Blank
<1>2. ForeignInit => ParcelInv
  BY ParcelAssumption DEF ForeignInit, Int32s
<1> QED
  BY <1>1, <1>2 DEF ParcelInit

\* Every call of writeToParcel on the parcel preserves ParcelInv.
LEMMA WriteParcelInv ==
    ASSUME ParcelInv, writeNull \/ writeSize \/ writeBlob \/ writeBlobFails \/ writeOffset
    PROVE  ParcelInv'
<1> USE ParcelAssumption
    DEF ParcelInv, Numbers, WriterProgress, LaidOut, ReaderProgress, Delivered,
        Writing, Reading, None
<1>1. CASE writeNull
  <2>1. 0 \in Int32s /\ SizeT(0) = 0
    BY DEF Int32s, SizeT
  <2> QED
    BY <1>1, <2>1 DEF writeNull
<1>2. CASE writeSize
  <2>1. sent + Alignment \in 0 .. MaxSize + Alignment
    BY <1>2 DEF writeSize
  <2>2. Int32(sent + Alignment) \in Int32s /\ SizeT(Int32(sent + Alignment)) = sent + Alignment
    BY <2>1, CastBack
  <2>3. Int32(sent + Alignment) # None
    BY <2>2 DEF Int32s
  <2> HIDE DEF None
  <2> QED
    BY <1>2, <2>2, <2>3 DEF writeSize
<1>3. CASE writeBlob
  <2>1. PICK addr \in 0 .. MaxAddr : PlaceBlob(addr)
    BY <1>3 DEF writeBlob
  <2>2. Padding(addr) \in 0 .. Alignment - 1 /\ Padding(addr) \in Nat
    BY PaddingBound
  <2>3. SizeT(Padding(addr)) = Padding(addr)
    BY <2>2 DEF SizeT
  <2> QED
    BY <1>3, <2>1, <2>2, <2>3 DEF writeBlob, PlaceBlob
<1>4. CASE writeBlobFails
  BY <1>4 DEF writeBlobFails
<1>5. CASE writeOffset
  <2>1. offset \in 0 .. MaxSize + Alignment
    BY <1>5 DEF writeOffset
  <2>2. Int32(offset) \in Int32s /\ SizeT(Int32(offset)) = offset /\ SizeT(offset) = offset
    BY <2>1, CastBack DEF SizeT
  <2>3. Int32(offset) # None
    BY <2>2 DEF Int32s
  <2> HIDE DEF None
  <2> QED
    BY <1>5, <2>2, <2>3 DEF writeOffset
<1> QED
  BY <1>1, <1>2, <1>3, <1>4, <1>5

\* Every call of readFromParcel on the parcel preserves ParcelInv.
LEMMA ReadParcelInv ==
    ASSUME ParcelInv, readSize \/ readBlob \/ readOffset \/ copyMetadata \/ copyFails
    PROVE  ParcelInv'
<1> USE ParcelAssumption
    DEF ParcelInv, Numbers, WriterProgress, LaidOut, ReaderProgress, Delivered,
        Writing, Reading
<1>1. CASE readSize
  <2>1. SizeT(size) \in Nat
    BY <1>1, CastNat DEF readSize
  <2>2. sent # None => sent + Alignment # 0
    OBVIOUS
  <2> QED
    BY <1>1, <2>1, <2>2 DEF readSize, CheckSize, ReadOn, ReturnFromRead
<1>2. CASE readBlob
  BY <1>2 DEF readBlob, ReadOn, ReturnFromRead
<1>3. CASE readOffset
  <2>1. offset # None => SizeT(offset) \in Nat
    BY CastNat
  <2> QED
    BY <1>3, <2>1 DEF readOffset, CheckOffset, ReadOn, ReturnFromRead
<1>4. CASE copyMetadata
  <2>1. ~foreign => sent # None /\ MetadataSize = sent
    BY <1>4 DEF copyMetadata, MetadataSize
  <2> QED
    BY <1>4, <2>1 DEF copyMetadata
<1>5. CASE copyFails
  BY <1>5 DEF copyFails, ReturnFromRead
<1> QED
  BY <1>1, <1>2, <1>3, <1>4, <1>5

\* Every step preserves ParcelInv.
LEMMA NextParcelInv == ParcelInv /\ [ParcelNext]_parcelVars => ParcelInv'
<1> SUFFICES ASSUME ParcelInv, [ParcelNext]_parcelVars PROVE ParcelInv'
  OBVIOUS
<1>1. CASE Done \/ UNCHANGED parcelVars
  BY <1>1 DEF Done, parcelVars, ParcelInv, Numbers, WriterProgress, LaidOut, ReaderProgress,
              Delivered
<1> QED
  BY <1>1, WriteParcelInv, ReadParcelInv DEF ParcelNext

\* ParcelInv is enough for both properties.
LEMMA ParcelInvImplies == ParcelInv => InBounds /\ ParcelAgrees
<1> SUFFICES ASSUME ParcelInv PROVE InBounds /\ ParcelAgrees
  OBVIOUS
<1> USE ParcelAssumption DEF ParcelInv, Numbers, WriterProgress, LaidOut, ReaderProgress,
                             Delivered, Writing, Reading
<1>1. InBounds
  <2> SUFFICES ASSUME pc = "copy" PROVE InBounds
    BY DEF InBounds
  <2>1. SizeT(size) \in Nat
    BY CastNat
  <2> QED
    BY <2>1 DEF InBounds, MetadataSize
<1>2. ParcelAgrees
  <2> SUFFICES ASSUME ~foreign, wres = "OK", blobLen # None
               PROVE  /\ SizeT(size) > Alignment /\ SizeT(size) <= blobLen
                      /\ SizeT(offset) < Alignment
                      /\ MetadataSize = sent /\ Slice = Bytes(sent)
    BY DEF ParcelAgrees
  <2>1. /\ sent \in Nat /\ sent > 0 /\ SizeT(offset) \in Nat /\ SizeT(offset) < Alignment
        /\ SizeT(size) = sent + Alignment /\ blobLen = sent + Alignment
        /\ blob = Layout(sent, SizeT(offset))
    OBVIOUS
  <2>2. MetadataSize = sent
    BY <2>1 DEF MetadataSize
  <2>3. Slice = Bytes(sent)
    <3>1. \A pad \in Nat : pad < Alignment =>
             [i \in 0 .. sent - 1 |-> Layout(sent, pad)[pad + i]] = Bytes(sent)
      BY <2>1, SliceOfLayout
    <3>2. Slice = [i \in 0 .. sent - 1 |-> Layout(sent, SizeT(offset))[SizeT(offset) + i]]
      BY <2>1, <2>2 DEF Slice
    <3> QED
      BY <2>1, <3>1, <3>2
  <2> QED
    BY <2>1, <2>2, <2>3
<1> QED
  BY <1>1, <1>2

\* The invariant holds in every state.
LEMMA ParcelInvariant == ParcelSpec => []ParcelInv
BY InitParcelInv, NextParcelInv, PTL DEF ParcelSpec

\* readFromParcel never hands the library a range outside the blob it has
\* read, for every int32 that somebody else may have written as the size or
\* the offset and every length of the blob.
THEOREM ReaderInBounds == ParcelSpec => []InBounds
BY ParcelInvariant, ParcelInvImplies, PTL

\* A parcel that writeToParcel wrote in full is read back as what was sent,
\* for every size and every address of the blob, and no other parcel of
\* writeToParcel is read back with OK.
THEOREM ParcelCorrect == ParcelSpec => []ParcelAgrees
BY ParcelInvariant, ParcelInvImplies, PTL
=============================================================================
