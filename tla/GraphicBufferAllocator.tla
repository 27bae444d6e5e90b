----------------------- MODULE GraphicBufferAllocator -----------------------
(***************************************************************************)
(* GraphicBufferAllocator, shim/ui/GraphicBufferAllocator.cpp: the gralloc *)
(* device allocates and frees, sAllocList records what is allocated.  The  *)
(* device call and the update of the list are two steps, and only the      *)
(* second holds sLock, so calls of other threads come in between.          *)
(***************************************************************************)
EXTENDS Integers

CONSTANTS
    Callers,    \* who may be inside alloc or free at the same time
    Handles,    \* the addresses a buffer_handle_t may have
    MaxWidth    \* bound: the widths callers ask for

ASSUME WidthAssumption == MaxWidth \in Nat \ {0}

VARIABLES
    device,      \* per handle: the width the device allocated, 0 for none
    sAllocList,  \* per handle: the width in its record, 0 for no record
    listOp,      \* per caller: the list update it has still to make
    reused       \* history: handles given out while their removal was due

allocVars == <<device, sAllocList, listOp, reused>>

ListOp(op, h, w) == [op |-> op, handle |-> h, width |-> w]

\* The list update d has to make concerns handle h.
Due(d, op, h) == listOp[d].op = op /\ listOp[d].handle = h

NoListOp == [op |-> "none"]

AllocInit ==
    /\ device = [h \in Handles |-> 0]
    /\ sAllocList = [h \in Handles |-> 0]
    /\ listOp = [c \in Callers |-> NoListOp]
    /\ reused = {}

\* An N x 0 or 0 x N buffer is allocated as 1 x 1.
AllocWidth(w) == IF w = 0 THEN 1 ELSE w

\* alloc up to the lock: the device hands out handle h.
DeviceAlloc(c, h, w) ==
    /\ listOp[c] = NoListOp
    /\ device[h] = 0
    /\ device' = [device EXCEPT ![h] = AllocWidth(w)]
    /\ listOp' = [listOp EXCEPT ![c] = ListOp("add", h, AllocWidth(w))]
    /\ reused' = IF \E d \in Callers : Due(d, "remove", h)
                 THEN reused \cup {h} ELSE reused \ {h}
    /\ UNCHANGED sAllocList

\* free up to the lock: the device takes handle h back.
DeviceFree(c, h) ==
    /\ listOp[c] = NoListOp
    /\ device' = [device EXCEPT ![h] = 0]
    /\ listOp' = [listOp EXCEPT ![c] = ListOp("remove", h, 0)]
    /\ reused' = reused \ {h}
    /\ UNCHANGED sAllocList

\* Mutant: the record is removed whatever the device said.
DeviceKeeps_removed(c, h) ==
    /\ listOp[c] = NoListOp
    /\ listOp' = [listOp EXCEPT ![c] = ListOp("remove", h, 0)]
    /\ UNCHANGED <<device, sAllocList, reused>>

\* free when the device refuses: the record stays.
DeviceKeeps(c, h) ==
    /\ listOp[c] = NoListOp
    /\ UNCHANGED allocVars

\* The rest of alloc: add replaces a record of the same handle.
ListAdd(c) ==
    /\ listOp[c].op = "add"
    /\ sAllocList' = [sAllocList EXCEPT ![listOp[c].handle] = listOp[c].width]
    /\ listOp' = [listOp EXCEPT ![c] = NoListOp]
    /\ UNCHANGED <<device, reused>>

\* Mutant: free forgets the record.
ListRemove_forgets(c) ==
    /\ listOp[c].op = "remove"
    /\ listOp' = [listOp EXCEPT ![c] = NoListOp]
    /\ UNCHANGED <<device, sAllocList, reused>>

\* The rest of free.
ListRemove(c) ==
    /\ listOp[c].op = "remove"
    /\ sAllocList' = [sAllocList EXCEPT ![listOp[c].handle] = 0]
    /\ listOp' = [listOp EXCEPT ![c] = NoListOp]
    /\ UNCHANGED <<device, reused>>

-----------------------------------------------------------------------------
(* Properties.                                                             *)

AllocTypeOK ==
    /\ device \in [Handles -> 0..MaxWidth]
    /\ sAllocList \in [Handles -> 0..MaxWidth]
    /\ listOp \in [Callers ->
            {NoListOp} \cup [op : {"add", "remove"}, handle : Handles,
                             width : 0..MaxWidth]]
    /\ reused \subseteq Handles

\* What dump prints is right or about to be: a record that does not describe
\* the buffer the device has at that address (it was freed, or freed and
\* given out again) belongs to a handle whose removal or addition is due.
RecordsAreCurrent ==
    \A h \in Handles :
        sAllocList[h] \notin {0, device[h]} =>
            \E c \in Callers : Due(c, "remove", h) \/ Due(c, "add", h)

\* dump misses an allocated buffer, whose allocation is over, only when the
\* device gave its handle out between another thread's free and that
\* thread's removal of the old record, which then took the new one.
MissedOnlyByReuse ==
    \A h \in Handles :
        device[h] > 0 /\ sAllocList[h] = 0 =>
            h \in reused \/ \E c \in Callers : Due(c, "add", h)
=============================================================================
