--------------------------- MODULE SensorManager ----------------------------
(***************************************************************************)
(* The client-side sensor manager, shim/gui/SensorManager.cpp: a cached    *)
(* connection to the sensor service and the sensor list fetched over it,   *)
(* behind mLock, dropped by a binder death notice on another thread.       *)
(*                                                                         *)
(* Incarnations of the service are numbered from 1; 0 is "none" (a NULL    *)
(* mSensorServer, no service registered, a list never fetched).  A list is *)
(* represented by the incarnation it was fetched from.                     *)
(***************************************************************************)
EXTENDS Integers

CONSTANTS
    Callers,          \* threads that call the manager
    Nobody,           \* owner of a free mLock
    Ops,              \* the calls they make
    LinkMayFail,      \* whether linkToDeath of a dead binder may be refused
    MaxIncarnation    \* bound on the number of service restarts

AllOps == {"list", "default", "queue"}
Tries == 4            \* getService attempts of assertStateLocked

ASSUME CallersAssumption == Nobody \notin Callers
ASSUME OpsAssumption == Ops \subseteq AllOps
ASSUME LinkAssumption == LinkMayFail \in BOOLEAN
ASSUME IncarnationAssumption == MaxIncarnation \in Nat

Incarnation == 0..MaxIncarnation

VARIABLES
    service,         \* the incarnation that runs, 0 when it is down
    started,         \* how many incarnations there have been
    mLock,           \* the caller that holds mLock
    mSensorServer,   \* the incarnation the cached proxy is for
    mSensors,        \* the incarnation mSensors was fetched from, 0 if empty
    mSensorList,     \* whether mSensorList is allocated
    observed,        \* the incarnation mDeathObserver is linked to
    notices,         \* death notices the binder threads have not delivered
    pc,              \* per caller: where its call is
    op,              \* per caller: which call it is in
    try              \* per caller: getService attempts made

cache == <<mSensorServer, mSensors, mSensorList>>
world == <<service, started>>
vars == <<world, mLock, cache, observed, notices, pc, op, try>>

Goto(c, l) == pc' = [pc EXCEPT ![c] = l]

-----------------------------------------------------------------------------
\* The manager has been constructed while the service was down.
Init ==
    /\ service = 0 /\ started = 0
    /\ mLock = Nobody
    /\ mSensorServer = 0 /\ mSensors = 0 /\ mSensorList = FALSE
    /\ observed = 0 /\ notices = {}
    /\ pc = [c \in Callers |-> "idle"]
    /\ op = [c \in Callers |-> "none"]
    /\ try = [c \in Callers |-> 0]

\* The service and its process, from how the manager uses them.
ServiceStarts ==
    /\ service = 0
    /\ started < MaxIncarnation
    /\ started' = started + 1
    /\ service' = started + 1
    /\ UNCHANGED <<mLock, cache, observed, notices, pc, op, try>>

\* The kernel queues a notice for every link to the dead process.
ServiceDies ==
    /\ service # 0
    /\ service' = 0
    /\ notices' = IF observed = service THEN notices \cup {service} ELSE notices
    /\ UNCHANGED <<started, mLock, cache, observed, pc, op, try>>

\* Mutant: the list is freed and the connection kept.
sensorManagerDied_keeps_server(i) ==
    /\ i \in notices
    /\ mLock = Nobody
    /\ notices' = notices \ {i}
    /\ IF observed = i
       THEN mSensors' = 0 /\ mSensorList' = FALSE /\ UNCHANGED mSensorServer
       ELSE UNCHANGED cache
    /\ UNCHANGED <<world, mLock, observed, pc, op, try>>

\* Mutant: the death notice does not take mLock.
sensorManagerDied_unlocked(i) ==
    /\ i \in notices
    /\ notices' = notices \ {i}
    /\ IF observed = i
       THEN mSensorServer' = 0 /\ mSensors' = 0 /\ mSensorList' = FALSE
       ELSE UNCHANGED cache
    /\ UNCHANGED <<world, mLock, observed, pc, op, try>>

\* DeathObserver::binderDied and sensorManagerDied, on a binder thread.  The
\* link holds its observer weakly: one replaced meanwhile is not called.
sensorManagerDied(i) ==
    /\ i \in notices
    /\ mLock = Nobody
    /\ notices' = notices \ {i}
    /\ IF observed = i
       THEN mSensorServer' = 0 /\ mSensors' = 0 /\ mSensorList' = FALSE
       ELSE UNCHANGED cache
    /\ UNCHANGED <<world, mLock, observed, pc, op, try>>

\* getSensorList, getDefaultSensor or createEventQueue has got mLock.
Call(c, o) ==
    /\ pc[c] = "idle"
    /\ mLock = Nobody
    /\ mLock' = c
    /\ op' = [op EXCEPT ![c] = o]
    /\ try' = [try EXCEPT ![c] = 0]
    /\ Goto(c, "assert")
    /\ UNCHANGED <<world, cache, observed, notices>>

\* The end of a call: its Autolock goes out of scope.
Return(c) ==
    /\ Goto(c, "idle")
    /\ op' = [op EXCEPT ![c] = "none"]
    /\ try' = [try EXCEPT ![c] = 0]
    /\ mLock' = IF mLock = c THEN Nobody ELSE mLock

\* assertStateLocked with a cached connection.
Connected(c) ==
    /\ pc[c] = "assert"
    /\ mSensorServer # 0
    /\ Goto(c, "use")
    /\ UNCHANGED <<world, mLock, cache, observed, notices, op, try>>

\* assertStateLocked without one: up to Tries attempts, the caller sleeping
\* between them with mLock held.
getService(c) ==
    /\ pc[c] = "assert"
    /\ mSensorServer = 0
    /\ service # 0
    /\ mSensorServer' = service
    /\ Goto(c, "link")
    /\ UNCHANGED <<world, mLock, mSensors, mSensorList, observed, notices, op, try>>

\* Mutant: attempts are not counted.
NameNotFound_forever(c) ==
    /\ pc[c] = "assert"
    /\ mSensorServer = 0
    /\ service = 0
    /\ UNCHANGED vars

NameNotFound(c) ==
    /\ pc[c] = "assert"
    /\ mSensorServer = 0
    /\ service = 0
    /\ try[c] < Tries - 1
    /\ try' = [try EXCEPT ![c] = @ + 1]
    /\ UNCHANGED <<world, mLock, cache, observed, notices, pc, op>>

\* The last attempt fails: every call gives up.
GiveUp(c) ==
    /\ pc[c] = "assert"
    /\ mSensorServer = 0
    /\ service = 0
    /\ try[c] = Tries - 1
    /\ Return(c)
    /\ UNCHANGED <<world, cache, observed, notices>>

\* Mutant: the observer of an earlier connection is not linked again.
linkToDeath_once(c) ==
    /\ pc[c] = "link"
    /\ observed' = IF observed = 0 THEN mSensorServer ELSE observed
    /\ notices' = IF service = mSensorServer \/ observed # 0 THEN notices
                  ELSE notices \cup {mSensorServer}
    /\ Goto(c, "fetch")
    /\ UNCHANGED <<world, mLock, cache, op, try>>

\* linkToDeath, whose result is ignored.  For a process that died already
\* the kernel answers with a notice at once, or the proxy, told of the death
\* before, refuses.
linkToDeath(c) ==
    /\ pc[c] = "link"
    /\ \/ /\ observed' = mSensorServer
          /\ notices' = IF service = mSensorServer THEN notices
                        ELSE notices \cup {mSensorServer}
       \/ /\ LinkMayFail
          /\ service # mSensorServer
          /\ observed' = 0
          /\ UNCHANGED notices
    /\ Goto(c, "fetch")
    /\ UNCHANGED <<world, mLock, cache, op, try>>

\* mSensorServer->getSensorList and the pointer array over it.  A dead
\* service answers with an empty vector; a NULL mSensorServer is fatal.
FetchSensors(c) ==
    /\ pc[c] = "fetch"
    /\ IF mSensorServer = 0
       THEN Goto(c, "crashed") /\ UNCHANGED <<mSensors, mSensorList>>
       ELSE /\ Goto(c, "use")
            /\ mSensors' = IF service = mSensorServer THEN service ELSE 0
            /\ mSensorList' = TRUE
    /\ UNCHANGED <<world, mLock, mSensorServer, observed, notices, op, try>>

\* getSensorList and getDefaultSensor answer from the cache; the constructor
\* is done.
UseCache(c) ==
    /\ pc[c] = "use"
    /\ op[c] # "queue"
    /\ Return(c)
    /\ UNCHANGED <<world, cache, observed, notices>>

\* createEventQueue: a connection ends the loop.
NewConnection(c) ==
    /\ pc[c] = "use"
    /\ op[c] = "queue"
    /\ service = mSensorServer
    /\ Return(c)
    /\ UNCHANGED <<world, cache, observed, notices>>

\* Mutant: the caller drops the dead connection itself.
NullConnection_drops_server(c) ==
    /\ pc[c] = "use"
    /\ op[c] = "queue"
    /\ service # mSensorServer
    /\ Goto(c, "assert")
    /\ mSensorServer' = 0 /\ mSensors' = 0 /\ mSensorList' = FALSE
    /\ try' = [try EXCEPT ![c] = 0]
    /\ UNCHANGED <<world, mLock, observed, notices, op>>

\* createEventQueue: no connection, the service died; back to the top of the
\* loop without releasing mLock.
NullConnection(c) ==
    /\ pc[c] = "use"
    /\ op[c] = "queue"
    /\ service # mSensorServer
    /\ Goto(c, "assert")
    /\ try' = [try EXCEPT ![c] = 0]
    /\ UNCHANGED <<world, mLock, cache, observed, notices, op>>

Step(c) ==
    \/ Connected(c) \/ getService(c) \/ NameNotFound(c) \/ GiveUp(c)
    \/ linkToDeath(c) \/ FetchSensors(c) \/ UseCache(c)
    \/ NewConnection(c) \/ NullConnection(c)

Next ==
    \/ ServiceStarts \/ ServiceDies
    \/ \E i \in Incarnation : sensorManagerDied(i)
    \/ \E c \in Callers : Step(c) \/ \E o \in Ops : Call(c, o)

\* A caller that is inside a call keeps running.
Fairness == \A c \in Callers : WF_vars(Step(c))

Spec == Init /\ [][Next]_vars /\ Fairness

-----------------------------------------------------------------------------
(* The constructor runs assertStateLocked without mLock; the singleton     *)
(* lets nobody else call the manager before it is done.                    *)

Constructor(c) == pc[c] # "idle" /\ op[c] = "ctor"

CtorInit ==
    \E c \in Callers :
        /\ service = 0 /\ started = 0
        /\ mLock = Nobody
        /\ mSensorServer = 0 /\ mSensors = 0 /\ mSensorList = FALSE
        /\ observed = 0 /\ notices = {}
        /\ pc = [u \in Callers |-> IF u = c THEN "assert" ELSE "idle"]
        /\ op = [u \in Callers |-> IF u = c THEN "ctor" ELSE "none"]
        /\ try = [u \in Callers |-> 0]

CtorNext ==
    \/ ServiceStarts \/ ServiceDies
    \/ \E i \in Incarnation : sensorManagerDied(i)
    \/ \E c \in Callers : Step(c)
    \/ /\ \A u \in Callers : ~Constructor(u)
       /\ \E c \in Callers, o \in Ops : Call(c, o)

CtorSpec == CtorInit /\ [][CtorNext]_vars

-----------------------------------------------------------------------------
(* Properties.                                                             *)

\* Every variable has its type; no call makes more attempts than Tries.
TypeOK ==
    /\ service \in Incarnation /\ started \in Incarnation
    /\ mLock \in Callers \cup {Nobody}
    /\ mSensorServer \in Incarnation /\ mSensors \in Incarnation
    /\ mSensorList \in BOOLEAN
    /\ observed \in Incarnation
    /\ notices \subseteq Incarnation
    /\ pc \in [Callers -> {"idle", "assert", "link", "fetch", "use", "crashed"}]
    /\ op \in [Callers -> AllOps \cup {"none", "ctor"}]
    /\ try \in [Callers -> 0..Tries - 1]

\* Whenever mLock is free the three parts of the cache agree: a list exists
\* exactly when there is a connection (assertStateLocked never leaks or
\* overwrites one), and it comes from that connection or is empty.
CacheCoherent ==
    mLock = Nobody =>
        /\ mSensorList <=> mSensorServer # 0
        /\ mSensors \in {0, mSensorServer}

\* A late death notice never drops a newer, live connection: the only notice
\* that can be pending for the observer is the one for the cached server.
NoticeIsForCurrentServer ==
    \A i \in notices : observed = i => mSensorServer = i /\ service # i

\* A cached connection to a dead service, once it is linked, has a notice on
\* its way to clear it, whichever of the two came first and however many
\* connections there were before; only a refused link leaves it cached.
DeadServerNoticed ==
    /\ mSensorServer \notin {0, service}
    /\ \A c \in Callers : pc[c] # "link"
    => mSensorServer \in notices \/ observed = 0

\* No call dereferences a NULL mSensorServer, whatever dies when.
NeverCrashes == \A c \in Callers : pc[c] # "crashed"

\* Every call gives mLock back, whatever the service does, so the death notice
\* and the other callers get their turn.
LockReleased == \A c \in Callers : mLock = c ~> mLock # c

\* The calls without a loop, getSensorList and getDefaultSensor, give mLock
\* back although they hold it through up to Tries waits for the service.
ListCallsEnd == \A c \in Callers : (mLock = c /\ op[c] # "queue") ~> mLock # c
=============================================================================
