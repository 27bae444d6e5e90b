------------------------ MODULE SensorManagerProofs -------------------------
(***************************************************************************)
(* The properties of SensorManager for any number of callers, any choice   *)
(* of calls and any number of service restarts.                            *)
(***************************************************************************)
EXTENDS SensorManager, TLAPS

\* Exactly the owner of mLock is inside a call.
LockInv == \A c \in Callers : mLock = c <=> pc[c] # "idle"

\* Incarnations are numbered in the order they start, so that a new one has
\* a number that neither the cache nor a notice can know.
WorldInv ==
    /\ service \in {0, started}
    /\ mSensorServer <= started
    /\ observed <= started
    /\ \A i \in notices : 0 < i /\ i <= started /\ i # service

\* What the parts of the cache are at each place of a call, and when nobody
\* is inside one.
PlaceInv ==
    /\ mSensors \in {0, mSensorServer}
    /\ \A c \in Callers :
        /\ pc[c] \in {"link", "fetch"} => mSensorServer # 0 /\ mSensorList = FALSE
        /\ pc[c] = "use" => mSensorServer # 0
        /\ pc[c] # "crashed"
    /\ (\A c \in Callers : pc[c] \notin {"link", "fetch"}) =>
        (mSensorList = TRUE <=> mSensorServer # 0)

\* Whom the observer is linked to: once linking is over, the cached server or
\* nobody, and never a live server other than the cached one.
ObserverInv ==
    /\ observed = service /\ service # 0 => mSensorServer = observed
    /\ mSensorServer # 0 /\ (\A c \in Callers : pc[c] # "link") =>
        observed \in {0, mSensorServer}

IInv ==
    /\ TypeOK /\ LockInv /\ WorldInv /\ PlaceInv /\ ObserverInv
    /\ NoticeIsForCurrentServer /\ DeadServerNoticed

-----------------------------------------------------------------------------

\* The constructed manager, with nothing cached.
LEMMA InvInit == Init => IInv
<1> SUFFICES ASSUME Init PROVE IInv
  OBVIOUS
<1> USE CallersAssumption, IncarnationAssumption DEF Init, Incarnation
<1>1. TypeOK
  <2>1. mSensorList \in BOOLEAN
    OBVIOUS
  <2> QED BY <2>1 DEF TypeOK, AllOps, Tries
<1>2. LockInv /\ WorldInv /\ ObserverInv
  BY DEF LockInv, WorldInv, ObserverInv
<1>3. PlaceInv
  BY DEF PlaceInv
<1>4. NoticeIsForCurrentServer /\ DeadServerNoticed
  BY DEF NoticeIsForCurrentServer, DeadServerNoticed
<1> QED BY <1>1, <1>2, <1>3, <1>4 DEF IInv

\* Every step of the service, of a binder thread and of a caller keeps the
\* invariant.
LEMMA InvStep == IInv /\ [Next]_vars => IInv'
<1> SUFFICES ASSUME IInv, [Next]_vars PROVE IInv'
  OBVIOUS
<1> USE CallersAssumption, OpsAssumption, IncarnationAssumption
    DEF IInv, TypeOK, LockInv, WorldInv, PlaceInv, ObserverInv, Incarnation,
        AllOps, Tries, NoticeIsForCurrentServer, DeadServerNoticed, Goto,
        cache, world
<1>1. CASE UNCHANGED vars
  BY <1>1 DEF vars
<1>2. CASE ServiceStarts
  BY <1>2 DEF ServiceStarts
<1>3. CASE ServiceDies
  BY <1>3 DEF ServiceDies
<1>4. ASSUME NEW i \in Incarnation, sensorManagerDied(i) PROVE IInv'
  <2>1. TypeOK'
    <3>1. mSensorList' \in BOOLEAN
      BY <1>4 DEF sensorManagerDied
    <3> QED BY <1>4, <3>1 DEF sensorManagerDied
  <2>2. LockInv'
    BY <1>4 DEF sensorManagerDied
  <2>3. WorldInv'
    BY <1>4 DEF sensorManagerDied
  <2>4. PlaceInv'
    BY <1>4 DEF sensorManagerDied
  <2>5. ObserverInv'
    BY <1>4 DEF sensorManagerDied
  <2>6. NoticeIsForCurrentServer'
    BY <1>4 DEF sensorManagerDied
  <2>7. DeadServerNoticed'
    BY <1>4 DEF sensorManagerDied
  <2> QED BY <2>1, <2>2, <2>3, <2>4, <2>5, <2>6, <2>7
<1>5. ASSUME NEW c \in Callers, NEW o \in Ops, Call(c, o) PROVE IInv'
  BY <1>5 DEF Call
<1>6. ASSUME NEW c \in Callers, Connected(c) PROVE IInv'
  BY <1>6 DEF Connected
<1>7. ASSUME NEW c \in Callers, getService(c) PROVE IInv'
  BY <1>7 DEF getService
<1>8. ASSUME NEW c \in Callers, NameNotFound(c) PROVE IInv'
  BY <1>8 DEF NameNotFound
<1>9. ASSUME NEW c \in Callers, GiveUp(c) PROVE IInv'
  BY <1>9 DEF GiveUp, Return
<1>10. ASSUME NEW c \in Callers, linkToDeath(c) PROVE IInv'
  <2>0. mSensorServer # 0
    BY <1>10 DEF linkToDeath
  <2>1. TypeOK'
    <3>1. notices' = notices \/ notices' = notices \cup {mSensorServer}
      BY <1>10 DEF linkToDeath
    <3>2. notices' \subseteq Incarnation
      BY <3>1
    <3> QED BY <1>10, <3>2 DEF linkToDeath
  <2>2. LockInv'
    BY <1>10 DEF linkToDeath
  <2>3. WorldInv'
    <3>1. \A i \in notices' \ notices : i = mSensorServer /\ i # service
      BY <1>10 DEF linkToDeath
    <3>2. observed' \in {0, mSensorServer} /\ UNCHANGED <<world, mSensorServer>>
      BY <1>10 DEF linkToDeath
    <3>3. \A i \in notices' : 0 < i /\ i <= started /\ i # service
      <4>1. 0 < mSensorServer
        BY <2>0
      <4> QED BY <3>1, <4>1
    <3> QED BY <3>2, <3>3
  <2>4. PlaceInv'
    BY <1>10 DEF linkToDeath
  <2>5. ObserverInv'
    BY <1>10 DEF linkToDeath
  <2>6. NoticeIsForCurrentServer'
    BY <1>10 DEF linkToDeath
  <2>7. DeadServerNoticed'
    BY <1>10 DEF linkToDeath
  <2> QED BY <2>1, <2>2, <2>3, <2>4, <2>5, <2>6, <2>7
<1>11. ASSUME NEW c \in Callers, FetchSensors(c) PROVE IInv'
  <2>1. TypeOK'
    <3>1. mSensorList' \in BOOLEAN
      BY <1>11 DEF FetchSensors
    <3> QED BY <1>11, <3>1 DEF FetchSensors
  <2>2. LockInv'
    BY <1>11 DEF FetchSensors
  <2>3. WorldInv'
    BY <1>11 DEF FetchSensors
  <2>4. PlaceInv'
    BY <1>11 DEF FetchSensors
  <2>5. ObserverInv'
    BY <1>11 DEF FetchSensors
  <2>6. NoticeIsForCurrentServer'
    BY <1>11 DEF FetchSensors
  <2>7. DeadServerNoticed'
    BY <1>11 DEF FetchSensors
  <2> QED BY <2>1, <2>2, <2>3, <2>4, <2>5, <2>6, <2>7
<1>12. ASSUME NEW c \in Callers, UseCache(c) PROVE IInv'
  BY <1>12 DEF UseCache, Return
<1>13. ASSUME NEW c \in Callers, NewConnection(c) PROVE IInv'
  BY <1>13 DEF NewConnection, Return
<1>14. ASSUME NEW c \in Callers, NullConnection(c) PROVE IInv'
  BY <1>14 DEF NullConnection
<1> QED
  BY <1>1, <1>2, <1>3, <1>4, <1>5, <1>6, <1>7, <1>8, <1>9, <1>10, <1>11, <1>12,
     <1>13, <1>14
  DEF Next, Step

\* IInv is an invariant.
LEMMA Invariant == Spec => []IInv
BY InvInit, InvStep, PTL DEF Spec

\* Whenever mLock is free the connection, the list and its array agree, for
\* any callers and however often the service dies.
THEOREM CacheIsCoherent == Spec => []CacheCoherent
<1>1. IInv => CacheCoherent
  BY CallersAssumption
  DEF IInv, TypeOK, LockInv, PlaceInv, CacheCoherent
<1> QED BY <1>1, Invariant, PTL

\* A death notice that sensorManagerDied acts on is for the cached
\* connection, and that one is dead.
THEOREM NoticesAreCurrent == Spec => []NoticeIsForCurrentServer
<1>1. IInv => NoticeIsForCurrentServer
  BY DEF IInv
<1> QED BY <1>1, Invariant, PTL

\* A linked connection whose service is dead has its notice on the way,
\* unless linkToDeath was refused.
THEOREM DeathIsNoticed == Spec => []DeadServerNoticed
<1>1. IInv => DeadServerNoticed
  BY DEF IInv
<1> QED BY <1>1, Invariant, PTL

\* assertStateLocked, called with mLock, never dereferences a NULL
\* mSensorServer.
THEOREM LockedCallsNeverCrash == Spec => []NeverCrashes
<1>1. IInv => NeverCrashes
  BY DEF IInv, PlaceInv, NeverCrashes
<1> QED BY <1>1, Invariant, PTL

\* Every variable keeps its type; no call makes more than Tries attempts.
THEOREM TypeCorrect == Spec => []TypeOK
<1>1. IInv => TypeOK
  BY DEF IInv
<1> QED BY <1>1, Invariant, PTL
=============================================================================
