---------------------------- MODULE LightsProofs ----------------------------
(***************************************************************************)
(* For every set of threads, requests and failing files: the types of      *)
(* Lights, the safety of its mutex, what its LED shows, and that every     *)
(* step of it is a step of SharedLed.                                      *)
(***************************************************************************)
EXTENDS Lights, TLAPS

Index(c) == IF c = "red" THEN 1 ELSE IF c = "green" THEN 2 ELSE 3

\* The write of a repaint that resets LED file f, and the last one to f when
\* request s is shown.
ResetStep(f) == IF f[1] = "blink" THEN Index(f[2]) ELSE 3 + Index(f[2])

LastStep(s, f) == IF (f[1] = "blink") = Blinks(s) THEN 6 + Index(f[2])
                                                  ELSE ResetStep(f)

Settled(f) == f \notin stale => sysfs[f] = Shown(Winner(g), f)

Repainting(t) == call[t].op = "set" /\ call[t].light \in SpeakerLights

\* Who may be where: g_lock and pthread_once.
LockInv ==
    /\ \A t \in Threads : call[t].op = "set" <=> g_lock = t
    /\ \A t \in Threads : call[t].op # "idle" => call[t].light \in Lights
    /\ \A t \in Threads : call[t].op = "set" => call[t].step >= 1
    /\ \A t \in Threads : call[t].op = "set" => call[t].step <= Writes(call[t]) + 1
    /\ \A t \in Threads : call[t].op = "init" => once = "running"
    /\ \A t \in Threads : call[t].op \in {"malloc", "set"} => once = "done"
    /\ \A t, u \in Threads : call[t].op = "init" /\ call[u].op = "init" => t = u
    /\ \A l \in Lights : devices[l] > 0 => once = "done"

\* The files a repaint is done with show the request in charge.
PaintInv ==
    /\ (\A t \in Threads : ~Repainting(t)) => \A f \in LED_FILES : Settled(f)
    /\ \A t \in Threads : Repainting(t) =>
          \A f \in LED_FILES :
              LastStep(Winner(g), f) < call[t].step => Settled(f)

\* The files a repaint without failures has reached are not stale.
CleanInv ==
    \A t \in Threads : Repainting(t) /\ call[t].clean =>
        \A f \in LED_FILES : ResetStep(f) < call[t].step => f \notin stale

-----------------------------------------------------------------------------
(* The operators.                                                          *)

\* The request in charge is one of the three recorded ones.
LEMMA WinnerType ==
    ASSUME NEW req \in [SpeakerLights -> LightState]
    PROVE  Winner(req) \in LightState
BY DEF Winner, SpeakerLights

\* BlinkLevel and SteadyLevel stay on the scales of the LED driver.
LEMMA LevelBounds ==
    ASSUME NEW s \in LightState, NEW c \in Channels
    PROVE  /\ BlinkLevel(s, c) \in 0..1
           /\ SteadyLevel(s, c) \in 0..48
<1>1. BlinkLevel(s, c) \in 0..1
  BY DEF BlinkLevel
<1>2. s[c] \in 0..255
  BY DEF LightState, Byte, Channels
<1>3. \A x \in 0..255 : (48 * x) \div 255 \in 0..48
  OBVIOUS
<1>4. SteadyLevel(s, c) \in 0..48
  BY <1>2, <1>3 DEF SteadyLevel
<1> QED BY <1>1, <1>4

\* rgb_to_brightness is a backlight level.
LEMMA BrightnessBounds ==
    ASSUME NEW s \in LightState
    PROVE  rgb_to_brightness(s) \in Byte
<1>1. s.red \in 0..255 /\ s.green \in 0..255 /\ s.blue \in 0..255
  BY DEF LightState, Byte
<1>2. \A r, gr, b \in 0..255 : (77 * r + 150 * gr + 29 * b) \div 256 \in 0..255
  OBVIOUS
<1> QED BY <1>1, <1>2 DEF rgb_to_brightness, Byte

\* The i-th write of a repaint: which file it goes to, when it is the last
\* one to that file, and that it then leaves there what is to be shown.
LEMMA RepaintWriteLemma ==
    ASSUME NEW req \in [SpeakerLights -> LightState], NEW i \in 1..9
    PROVE  LET w == RepaintWrite(req, i)
               s == Winner(req)
           IN  /\ w.file \in LED_FILES
               /\ w.value \in Byte
               /\ w.value <= MaxValue(w.file)
               /\ LastStep(s, w.file) >= i
               /\ LastStep(s, w.file) = i => w.value = Shown(s, w.file)
               /\ \A f \in LED_FILES :
                     ResetStep(f) = i \/ LastStep(s, f) = i => f = w.file
<1> DEFINE s == Winner(req)
<1>s. s \in LightState
  BY WinnerType
<1>i. i \in {1, 2, 3, 4, 5, 6, 7, 8, 9}
  OBVIOUS
<1>b. \A c \in Channels : BlinkLevel(s, c) \in 0..1 /\ SteadyLevel(s, c) \in 0..48
  BY <1>s, LevelBounds
<1>bb. Blinks(s) \in BOOLEAN
  BY DEF Blinks
<1> HIDE DEF s
<1>c. \A f \in LED_FILES : \E k \in {"blink", "brightness"}, c \in Channels : f = <<k, c>>
  BY DEF LED_FILES
<1>1. CASE i <= 6
  <2>1. RepaintWrite(req, i) = ResetWrite(i)
    BY <1>1 DEF RepaintWrite
  <2> QED
    BY <1>1, <1>i, <1>bb, <1>c, <2>1
    DEF ResetWrite, LED_FILES, Channels, Channel, Byte, MaxValue, LastStep,
        ResetStep, Index, Shown, s
<1>2. CASE i > 6
  <2> DEFINE c == Channel[i - 6]
             k == IF Blinks(s) THEN "blink" ELSE "brightness"
             v == IF Blinks(s) THEN BlinkLevel(s, c) ELSE SteadyLevel(s, c)
  <2>1. RepaintWrite(req, i) = [file |-> <<k, c>>, value |-> v]
    BY <1>2 DEF RepaintWrite, ApplyWrite, s
  <2>2. c \in Channels /\ Index(c) = i - 6
    BY <1>2, <1>i DEF Channel, Channels, Index
  <2>3. v \in 0..48 /\ v <= MaxValue(<<k, c>>) /\ v = Shown(s, <<k, c>>)
    BY <1>b, <1>bb, <2>2 DEF MaxValue, Shown
  <2>4. LastStep(s, <<k, c>>) = i
    BY <1>bb, <2>2 DEF LastStep
  <2>5. \A d \in Channels : Index(d) = Index(c) => d = c
    BY <2>2 DEF Index, Channels
  <2>6. \A d \in Channels : Index(d) \in 1..3
    BY DEF Index
  <2>7. \A f \in LED_FILES : ResetStep(f) # i
    BY <1>2, <1>c, <2>6 DEF ResetStep
  <2>8. \A f \in LED_FILES : LastStep(s, f) = i => f = <<k, c>>
    BY <1>2, <1>c, <1>bb, <2>2, <2>5, <2>6 DEF LastStep, ResetStep
  <2>9. <<k, c>> \in LED_FILES
    BY <1>bb, <2>2 DEF LED_FILES
  <2> HIDE DEF c, k, v
  <2> QED
    BY <1>2, <2>1, <2>3, <2>4, <2>7, <2>8, <2>9 DEF Byte, s
<1> QED BY <1>1, <1>2

\* The next write of a call goes to a file of that call's light and is a
\* value the file's driver accepts.
LEMMA NextWriteLemma ==
    ASSUME TypeOK, LockInv, NEW t \in Threads,
           call[t].op = "set", call[t].step <= Writes(call[t])
    PROVE  LET w == NextWrite(call[t])
           IN  /\ w.file \in Files
               /\ w.value \in Byte
               /\ w.value <= MaxValue(w.file)
               /\ call[t].light \in SpeakerLights =>
                     call[t].step \in 1..9 /\ w = RepaintWrite(g, call[t].step)
               /\ call[t].light \notin SpeakerLights => w.file \notin LED_FILES
<1>1. call[t].value \in Byte /\ call[t].step \in 0..10 /\ call[t].step >= 1
  BY DEF TypeOK, LockInv
<1>2. CASE call[t].light \in SpeakerLights
  <2>1. call[t].step \in 1..9
    BY <1>1, <1>2 DEF Writes, RepaintWrites
  <2>2. NextWrite(call[t]) = RepaintWrite(g, call[t].step)
    BY <1>2 DEF NextWrite, SpeakerLights
  <2> QED BY <1>2, <2>1, <2>2, RepaintWriteLemma DEF TypeOK, Files
<1>3. CASE call[t].light \notin SpeakerLights
  <2>1. NextWrite(call[t]) \in {[file |-> LCD_FILE, value |-> call[t].value],
                                [file |-> BUTTON_FILE, value |-> call[t].value]}
    BY <1>3 DEF NextWrite
  <2>2. /\ {LCD_FILE, BUTTON_FILE} \subseteq Files
        /\ MaxValue(LCD_FILE) = 255 /\ MaxValue(BUTTON_FILE) = 255
        /\ LCD_FILE \notin LED_FILES /\ BUTTON_FILE \notin LED_FILES
    BY DEF LCD_FILE, BUTTON_FILE, Files, LED_FILES, MaxValue, Channels
  <2> QED BY <1>1, <1>3, <2>1, <2>2 DEF Byte
<1> QED BY <1>2, <1>3

-----------------------------------------------------------------------------
(* Types and the mutex.                                                    *)

TypeLock == TypeOK /\ LockInv

\* A zeroed light_state_t is a light_state_t.
LEMMA ZeroStateType == ZeroState \in LightState
BY DEF ZeroState, LightState, Byte, FlashModes

\* The initial state is typed and nobody is inside the HAL.
LEMMA TypeLockInit == Init => TypeLock
<1> SUFFICES ASSUME Init PROVE TypeLock
  OBVIOUS
<1>1. TypeOK
  BY ZeroStateType, SysfsAssumption DEF Init, TypeOK, NoCall, Call, Byte
<1>2. LockInv
  BY ThreadsAssumption DEF Init, LockInv, NoCall, Call
<1> QED BY <1>1, <1>2 DEF TypeLock

\* Every step keeps the types and who may be where.
LEMMA TypeLockStep == TypeLock /\ [Next]_vars => TypeLock'
<1> SUFFICES ASSUME TypeOK, LockInv, [Next]_vars PROVE TypeOK' /\ LockInv'
  BY DEF TypeLock
<1>0. CASE UNCHANGED vars
  BY <1>0 DEF vars, TypeOK, LockInv, Writes
<1>1. ASSUME NEW t \in Threads, NEW l \in Names, open_lights(t, l)
      PROVE  TypeOK' /\ LockInv'
  BY <1>1, NamesAssumption DEF open_lights, TypeOK, LockInv, Call, Byte, Writes
<1>2. ASSUME NEW t \in Threads, NEW l \in Names, close_lights(t, l)
      PROVE  TypeOK' /\ LockInv'
  BY <1>2, NamesAssumption DEF close_lights, TypeOK, LockInv, Writes
<1>3. ASSUME NEW t \in Threads, EnterOnce(t) PROVE TypeOK' /\ LockInv'
  BY <1>3 DEF EnterOnce, TypeOK, LockInv, Writes
<1>4. ASSUME NEW t \in Threads, PassOnce(t) PROVE TypeOK' /\ LockInv'
  BY <1>4 DEF PassOnce, TypeOK, LockInv, Writes
<1>5. ASSUME NEW t \in Threads, init_globals(t) PROVE TypeOK' /\ LockInv'
  BY <1>5, ThreadsAssumption DEF init_globals, TypeOK, LockInv, Writes
<1>6. ASSUME NEW t \in Threads, NewDevice(t) PROVE TypeOK' /\ LockInv'
  BY <1>6 DEF NewDevice, TypeOK, LockInv, NoCall, Call, Byte, Writes
<1>7. ASSUME NEW t \in Threads, NoMemory(t) PROVE TypeOK' /\ LockInv'
  BY <1>7 DEF NoMemory, TypeOK, LockInv, NoCall, Call, Byte, Writes
<1>8. ASSUME NEW t \in Threads, NEW l \in Lights, NEW v \in Byte, Lock(t, l, v),
             g' \in [SpeakerLights -> LightState]
      PROVE  TypeOK' /\ LockInv'
  BY <1>8, ThreadsAssumption DEF Lock, TypeOK, LockInv, Call, Writes, RepaintWrites
<1>9. ASSUME NEW t \in Threads, NEW l \in SpeakerLights, NEW s \in LightStates,
             set_light_speaker(t, l, s)
      PROVE  TypeOK' /\ LockInv'
  <2>1. g' \in [SpeakerLights -> LightState]
    BY <1>9, StatesAssumption DEF set_light_speaker, TypeOK
  <2> QED BY <1>8, <1>9, <2>1 DEF set_light_speaker, Lights, Byte
<1>10. ASSUME NEW t \in Threads, NEW l \in SingleLights, NEW s \in LightStates,
              set_light_single(t, l, s)
       PROVE  TypeOK' /\ LockInv'
  <2>1. SingleValue(l, s) \in Byte
    BY BrightnessBounds, StatesAssumption DEF SingleValue, LightState
  <2>2. g' \in [SpeakerLights -> LightState]
    BY <1>10 DEF set_light_single, TypeOK
  <2> QED BY <1>8, <1>10, <2>1, <2>2 DEF set_light_single, Lights
<1>12. ASSUME NEW t \in Threads, write_int(t) PROVE TypeOK' /\ LockInv'
  BY <1>12, NextWriteLemma
  DEF write_int, TypeOK, LockInv, Wrote, Call, Writes, RepaintWrites
<1>13. ASSUME NEW t \in Threads, write_int_fails(t) PROVE TypeOK' /\ LockInv'
  BY <1>13, NextWriteLemma
  DEF write_int_fails, TypeOK, LockInv, Wrote, Call, Writes, RepaintWrites
<1>14. ASSUME NEW t \in Threads, Unlock(t) PROVE TypeOK' /\ LockInv'
  BY <1>14, ThreadsAssumption DEF Unlock, TypeOK, LockInv, NoCall, Call, Byte, Writes
<1> QED
  BY <1>0, <1>1, <1>2, <1>3, <1>4, <1>5, <1>6, <1>7, <1>9, <1>10,
     <1>12, <1>13, <1>14
  DEF Next, Open, Set

\* Types: no write leaves the scale of its driver.
THEOREM TypeCorrect == Spec => []TypeOK
<1>1. Init => TypeLock
  BY TypeLockInit
<1>2. TypeLock /\ [Next]_vars => TypeLock'
  BY TypeLockStep
<1>3. TypeLock => TypeOK
  BY DEF TypeLock
<1> QED BY <1>1, <1>2, <1>3, PTL DEF Spec

\* init_globals never re-initialises a mutex in use.
THEOREM MutexSafe == Spec => []MutexNeverReset
<1>1. Init => TypeLock
  BY TypeLockInit
<1>2. TypeLock /\ [Next]_vars => TypeLock'
  BY TypeLockStep
<1>3. TypeLock => MutexNeverReset
  BY DEF TypeLock, TypeOK, LockInv, MutexNeverReset
<1> QED BY <1>1, <1>2, <1>3, PTL DEF Spec

-----------------------------------------------------------------------------
(* What the LED shows.                                                     *)

\* The bounds of the steps of a repaint.
LEMMA StepBounds ==
    ASSUME NEW s, NEW f \in LED_FILES
    PROVE  LastStep(s, f) \in 1..9 /\ ResetStep(f) \in 1..6
BY DEF LastStep, ResetStep, Index

\* When a repaint lights a channel in one mode, it is done with the files of
\* the other mode, and they are to hold zero.
LEMMA OtherModeDone ==
    ASSUME NEW req \in [SpeakerLights -> LightState], NEW i \in 1..9,
           RepaintWrite(req, i).value # 0,
           NEW f \in LED_FILES, f[1] # RepaintWrite(req, i).file[1]
    PROVE  LastStep(Winner(req), f) < i /\ Shown(Winner(req), f) = 0
<1> DEFINE s == Winner(req)
<1>1. i > 6
  BY DEF RepaintWrite, ResetWrite
<1>2. RepaintWrite(req, i) = ApplyWrite(s, i - 6)
  BY <1>1 DEF RepaintWrite
<1>3. Blinks(s) \in BOOLEAN
  BY DEF Blinks
<1>4. f[1] \in {"blink", "brightness"}
  BY DEF LED_FILES
<1> HIDE DEF s
<1>5. (f[1] = "blink") = ~Blinks(s)
  BY <1>2, <1>3, <1>4 DEF ApplyWrite
<1>6. LastStep(s, f) = ResetStep(f) /\ Shown(s, f) = 0
  BY <1>3, <1>4, <1>5 DEF LastStep, Shown
<1> QED BY <1>1, <1>6, StepBounds DEF s

LedInv == PaintInv /\ CleanInv /\ NeverBlinkAndGlow

\* A step that writes nothing and leaves the repaint in progress alone.
LEMMA LedFrame ==
    ASSUME LedInv, UNCHANGED <<g, sysfs, stale>>,
           \A t \in Threads : /\ Repainting(t)' <=> Repainting(t)
                              /\ Repainting(t) => call'[t] = call[t]
    PROVE  LedInv'
<1>1. \A f : Settled(f)' <=> Settled(f)
  BY DEF Settled
<1>2. PaintInv'
  BY <1>1 DEF LedInv, PaintInv
<1>3. CleanInv'
  BY DEF LedInv, CleanInv
<1> QED BY <1>2, <1>3 DEF LedInv, NeverBlinkAndGlow

\* write_int, successful or not, of a repaint.
LEMMA RepaintStep ==
    ASSUME TypeLock, LedInv, NEW t \in Threads, Repainting(t),
           write_int(t) \/ write_int_fails(t)
    PROVE  LedInv'
<1> DEFINE i == call[t].step
           w == RepaintWrite(g, i)
           s == Winner(g)
<1>1. /\ i \in 1..9
      /\ NextWrite(call[t]) = w
  BY NextWriteLemma DEF TypeLock, Repainting, write_int, write_int_fails
<1>2. /\ g' = g
      /\ \A u \in Threads : Repainting(u) \/ Repainting(u)' => u = t
      /\ Repainting(t)'
      /\ call'[t].step = i + 1
      /\ call'[t].clean => call[t].clean
  <2>1. g' = g /\ g_lock = t
    BY DEF TypeLock, LockInv, write_int, write_int_fails
  <2>2. PICK ok \in BOOLEAN : call' = [call EXCEPT ![t] = Wrote(call[t], ok)]
    BY DEF write_int, write_int_fails
  <2>3. /\ call'[t] = Wrote(call[t], ok)
        /\ \A u \in Threads : u # t => call'[u] = call[u]
    BY <2>2 DEF TypeLock, TypeOK
  <2>4. call[t].clean \in BOOLEAN
    BY DEF TypeLock, TypeOK
  <2>5. Repainting(t)' /\ call'[t].step = i + 1 /\ (call'[t].clean => call[t].clean)
    BY <2>3, <2>4 DEF Repainting, Wrote, Call
  <2>6. \A u \in Threads : Repainting(u) => u = t
    BY <2>1 DEF TypeLock, LockInv, Repainting
  <2> QED BY <2>1, <2>3, <2>5, <2>6 DEF Repainting
<1>3. \/ /\ write_int(t)
         /\ sysfs' = [sysfs EXCEPT ![w.file] = w.value]
         /\ stale' = stale \ {w.file}
      \/ /\ write_int_fails(t)
         /\ sysfs' = sysfs
         /\ stale' = stale \cup {w.file}
         /\ ~call'[t].clean
  <2>1. ASSUME write_int_fails(t) PROVE ~call'[t].clean
    <3>1. call'[t] = Wrote(call[t], FALSE)
      BY <2>1 DEF write_int_fails, TypeLock, TypeOK
    <3>2. Wrote(call[t], FALSE).clean = (call[t].clean /\ FALSE)
      BY DEF Wrote, Call
    <3> QED BY <3>1, <3>2
  <2> QED BY <1>1, <2>1 DEF write_int, write_int_fails
<1>4. /\ w.file \in LED_FILES
      /\ w.value \in Byte
      /\ LastStep(s, w.file) >= i
      /\ LastStep(s, w.file) = i => w.value = Shown(s, w.file)
      /\ \A f \in LED_FILES : ResetStep(f) = i \/ LastStep(s, f) = i => f = w.file
  BY <1>1, RepaintWriteLemma DEF TypeLock, TypeOK
<1>5. \A f \in LED_FILES : LastStep(s, f) \in 1..9 /\ ResetStep(f) \in 1..6
  BY StepBounds
<1>6. sysfs \in [Files -> Byte] /\ LED_FILES \subseteq Files
  BY DEF TypeLock, TypeOK, Files
<1>7. \A f \in LED_FILES : LastStep(s, f) < i => Settled(f)
  BY DEF LedInv, PaintInv
<1>8. w.value # 0 =>
        \A f \in LED_FILES : f[1] # w.file[1] => LastStep(s, f) < i /\ Shown(s, f) = 0
  BY <1>1, OtherModeDone DEF TypeLock, TypeOK
<1> HIDE DEF w, i, s
<1>9. \A f \in LED_FILES : LastStep(s, f) < i + 1 => Settled(f)'
  <2> SUFFICES ASSUME NEW f \in LED_FILES, LastStep(s, f) < i + 1
               PROVE  Settled(f)'
    OBVIOUS
  <2>1. s = Winner(g) /\ s = Winner(g)'
    BY <1>2 DEF s
  <2>2. CASE f = w.file
    <3>1. LastStep(s, f) = i
      BY <1>1, <1>4, <1>5, <2>2
    <3> QED BY <1>3, <1>4, <1>6, <2>1, <2>2, <3>1 DEF Settled
  <2>3. CASE f # w.file
    <3>1. LastStep(s, f) < i
      BY <1>1, <1>4, <1>5, <2>3
    <3>2. Settled(f)
      BY <1>7, <3>1
    <3> QED BY <1>3, <1>6, <2>1, <2>3, <3>2 DEF Settled
  <2> QED BY <2>2, <2>3
<1>10. PaintInv'
  BY <1>2, <1>9 DEF PaintInv, s
<1>11. CleanInv'
  <2> SUFFICES ASSUME call'[t].clean, NEW f \in LED_FILES, ResetStep(f) < i + 1
               PROVE  f \notin stale'
    BY <1>2 DEF CleanInv
  <2>1. ResetStep(f) < i => f \notin stale
    BY <1>2 DEF LedInv, CleanInv, i
  <2>2. ResetStep(f) < i \/ f = w.file
    BY <1>1, <1>4, <1>5
  <2> QED BY <1>3, <2>1, <2>2
<1>12. NeverBlinkAndGlow'
  <2> SUFFICES ASSUME NEW c \in Channels, NEW d \in Channels,
                      sysfs'[<<"blink", c>>] > 0, sysfs'[<<"brightness", d>>] > 0,
                      <<"blink", c>> \notin stale', <<"brightness", d>> \notin stale'
               PROVE  FALSE
    BY DEF NeverBlinkAndGlow
  <2> DEFINE x == <<"blink", c>>
             y == <<"brightness", d>>
  <2>1. x \in LED_FILES /\ y \in LED_FILES /\ x[1] # y[1]
    BY DEF LED_FILES
  <2>2. ~(/\ sysfs[x] > 0 /\ sysfs[y] > 0 /\ x \notin stale /\ y \notin stale)
    BY DEF LedInv, NeverBlinkAndGlow
  <2>3. sysfs'[x] > 0 /\ sysfs'[y] > 0 /\ x \notin stale' /\ y \notin stale'
    OBVIOUS
  <2> HIDE DEF x, y
  <2>4. CASE write_int_fails(t) /\ sysfs' = sysfs /\ stale' = stale \cup {w.file}
    BY <2>2, <2>3, <2>4
  <2>5. CASE sysfs' = [sysfs EXCEPT ![w.file] = w.value] /\ stale' = stale \ {w.file}
    <3>1. w.file = x \/ w.file = y
      BY <1>4, <1>6, <2>1, <2>2, <2>3, <2>5
    <3>2. w.value # 0
      BY <1>4, <1>6, <2>1, <2>3, <2>5, <3>1
    <3>3. ASSUME NEW f \in {x, y}, f # w.file PROVE FALSE
      <4>1. f \in LED_FILES /\ f[1] # w.file[1]
        BY <2>1, <3>1, <3>3
      <4>2. Settled(f) /\ Shown(s, f) = 0
        BY <1>7, <1>8, <3>2, <4>1
      <4>3. f \notin stale /\ sysfs[f] > 0
        BY <1>4, <1>6, <2>1, <2>3, <2>5, <3>3
      <4> QED BY <4>2, <4>3 DEF Settled, s
    <3> QED BY <2>1, <3>1, <3>3
  <2> QED BY <1>3, <2>4, <2>5
<1> QED BY <1>10, <1>11, <1>12 DEF LedInv

\* Before the first write every file is stale.
LEMMA LedInit == Init => LedInv
BY DEF Init, LedInv, PaintInv, CleanInv, NeverBlinkAndGlow, Settled, Repainting,
       NoCall, Call, Files, LED_FILES

\* Every step keeps what is shown, what is clean, and the two modes apart.
LEMMA LedStep == TypeLock /\ LedInv /\ [Next]_vars => LedInv'
<1> SUFFICES ASSUME TypeLock, LedInv, [Next]_vars PROVE LedInv'
  OBVIOUS
<1>0. CASE UNCHANGED vars
  BY <1>0, LedFrame DEF vars, Repainting
<1>1. ASSUME NEW t \in Threads,
             \/ \E l \in Names : open_lights(t, l) \/ close_lights(t, l)
             \/ Open(t)
             \/ \E l \in SingleLights, s \in LightStates : set_light_single(t, l, s)
      PROVE  LedInv'
  <2>1. /\ UNCHANGED <<g, sysfs, stale>>
        /\ ~Repainting(t)
        /\ \/ call' = call
           \/ \E c : call' = [call EXCEPT ![t] = c]
    BY <1>1 DEF open_lights, close_lights, Open, EnterOnce, PassOnce, init_globals,
                NewDevice, NoMemory, set_light_single, Lock,
                Repainting
  <2>2. \A u \in Threads : u # t => call'[u] = call[u]
    BY <2>1 DEF TypeLock, TypeOK
  <2>3. ~Repainting(t)'
    <3>1. CASE \E l \in Names : open_lights(t, l) \/ close_lights(t, l)
      BY <3>1 DEF open_lights, close_lights, Repainting, TypeLock, TypeOK, Call
    <3>2. CASE Open(t)
      BY <3>2 DEF Open, EnterOnce, PassOnce, init_globals, NewDevice, NoMemory,
                  Repainting, TypeLock, TypeOK, NoCall, Call
    <3>3. CASE \E l \in SingleLights, s \in LightStates : set_light_single(t, l, s)
      BY <3>3 DEF set_light_single, Lock, Repainting, TypeLock, TypeOK, Call,
                  SpeakerLights, SingleLights
    <3> QED BY <1>1, <3>1, <3>2, <3>3
  <2> QED BY <2>1, <2>2, <2>3, LedFrame DEF Repainting
<1>2. ASSUME NEW t \in Threads, NEW l \in SpeakerLights, NEW s \in LightStates,
             set_light_speaker(t, l, s)
      PROVE  LedInv'
  <2>1. UNCHANGED <<sysfs, stale>>
    BY <1>2 DEF set_light_speaker, Lock
  <2>2. /\ Repainting(t)'
        /\ call'[t].step = 1
        /\ \A u \in Threads : Repainting(u)' => u = t
    BY <1>2, ThreadsAssumption
    DEF set_light_speaker, Lock, Repainting, TypeLock, TypeOK, LockInv, Call
  <2>3. PaintInv'
    BY <2>2, StepBounds DEF PaintInv
  <2>4. CleanInv'
    BY <2>2, StepBounds DEF CleanInv
  <2> QED BY <2>1, <2>3, <2>4 DEF LedInv, NeverBlinkAndGlow
<1>3. ASSUME NEW t \in Threads, write_int(t) \/ write_int_fails(t)
      PROVE  LedInv'
  <2>1. CASE Repainting(t)
    BY <1>3, <2>1, RepaintStep
  <2>2. CASE ~Repainting(t)
    <3>1. \A u \in Threads : ~Repainting(u) /\ ~Repainting(u)'
      <4>1. \A u \in Threads : ~Repainting(u)
        BY <1>3, <2>2 DEF write_int, write_int_fails, Repainting, TypeLock, LockInv
      <4>2. PICK ok \in BOOLEAN : call' = [call EXCEPT ![t] = Wrote(call[t], ok)]
        BY <1>3 DEF write_int, write_int_fails
      <4>3. \A u \in Threads :
              call'[u].op = call[u].op /\ call'[u].light = call[u].light
        BY <4>2 DEF TypeLock, TypeOK, Wrote, Call
      <4> QED BY <4>1, <4>3 DEF Repainting
    <3>2. /\ g' = g
          /\ NextWrite(call[t]).file \notin LED_FILES
          /\ \A f \in LED_FILES : sysfs'[f] = sysfs[f] /\ (f \in stale' <=> f \in stale)
      <4> DEFINE w == NextWrite(call[t])
      <4>1. w.file \notin LED_FILES
        BY <1>3, <2>2, NextWriteLemma DEF write_int, write_int_fails, Repainting, TypeLock
      <4>2. sysfs \in [Files -> Byte] /\ LED_FILES \subseteq Files
        BY DEF TypeLock, TypeOK, Files
      <4>3. /\ g' = g
            /\ sysfs' = sysfs \/ sysfs' = [sysfs EXCEPT ![w.file] = w.value]
            /\ stale' = stale \ {w.file} \/ stale' = stale \cup {w.file}
        BY <1>3 DEF write_int, write_int_fails
      <4> HIDE DEF w
      <4>4. \A f \in LED_FILES : sysfs'[f] = sysfs[f] /\ (f \in stale' <=> f \in stale)
        BY <4>1, <4>2, <4>3
      <4> QED BY <4>1, <4>3, <4>4 DEF w
    <3>3. \A f \in LED_FILES : Settled(f)'
      BY <3>1, <3>2 DEF LedInv, PaintInv, Settled
    <3>4. NeverBlinkAndGlow'
      BY <3>2 DEF LedInv, NeverBlinkAndGlow, LED_FILES
    <3> QED BY <3>1, <3>3, <3>4 DEF LedInv, PaintInv, CleanInv
  <2> QED BY <2>1, <2>2
<1>4. ASSUME NEW t \in Threads, Unlock(t) PROVE LedInv'
  <2>1. /\ UNCHANGED <<g, sysfs, stale>>
        /\ \A u \in Threads : ~Repainting(u)'
        /\ \A u \in Threads : u # t => ~Repainting(u)
    BY <1>4 DEF Unlock, Repainting, TypeLock, TypeOK, LockInv, NoCall, Call
  <2>2. \A f \in LED_FILES : Settled(f)
    <3>1. CASE Repainting(t)
      BY <1>4, <3>1, StepBounds
      DEF Unlock, Writes, RepaintWrites, Repainting, LedInv, PaintInv, TypeLock, TypeOK
    <3>2. CASE ~Repainting(t)
      BY <2>1, <3>2 DEF LedInv, PaintInv
    <3> QED BY <3>1, <3>2
  <2>3. \A f \in LED_FILES : Settled(f)'
    BY <2>1, <2>2 DEF Settled
  <2> QED BY <2>1, <2>3 DEF LedInv, PaintInv, CleanInv, NeverBlinkAndGlow
<1> QED BY <1>0, <1>1, <1>2, <1>3, <1>4 DEF Next, Set

\* The invariant gives the three properties of the LED.
LEMMA LedInvImplies ==
    TypeLock /\ LedInv => ArbitrationShown /\ CleanCallRepairs /\ NeverBlinkAndGlow
<1> SUFFICES ASSUME TypeLock, LedInv
             PROVE  ArbitrationShown /\ CleanCallRepairs
  BY DEF LedInv
<1>1. ArbitrationShown
  <2> SUFFICES ASSUME g_lock = NoThread, NEW l \in SpeakerLights, InCharge(l),
                      NEW f \in LED_FILES \ stale
               PROVE  sysfs[f] = Shown(g[l], f)
    BY DEF ArbitrationShown
  <2>1. \A t \in Threads : ~Repainting(t)
    BY ThreadsAssumption DEF TypeLock, LockInv, Repainting
  <2>2. sysfs[f] = Shown(Winner(g), f)
    BY <2>1 DEF LedInv, PaintInv, Settled
  <2>3. Winner(g) = g[l]
    BY DEF Winner, InCharge, SpeakerLights
  <2> QED BY <2>2, <2>3
<1>2. CleanCallRepairs
  <2> SUFFICES ASSUME NEW t \in Threads, Repainting(t), call[t].clean,
                      call[t].step > RepaintWrites, NEW f \in LED_FILES
               PROVE  f \notin stale
    BY DEF CleanCallRepairs, Repainting
  <2>1. ResetStep(f) < call[t].step
    BY StepBounds DEF RepaintWrites, TypeLock, TypeOK
  <2> QED BY <2>1 DEF LedInv, CleanInv
<1> QED BY <1>1, <1>2

\* The invariant holds in every state.
LEMMA LedInvariant == Spec => [](TypeLock /\ LedInv)
<1>1. Init => TypeLock /\ LedInv
  BY TypeLockInit, LedInit
<1>2. TypeLock /\ LedInv /\ [Next]_vars => (TypeLock /\ LedInv)'
  BY TypeLockStep, LedStep
<1> QED BY <1>1, <1>2, PTL DEF Spec

\* Whatever the threads, the requests, the order of the calls and the files
\* that fail: while no call is under way the LED shows the request in charge,
\* in every file whose last write succeeded.
THEOREM LedCorrect == Spec => []ArbitrationShown
BY LedInvariant, LedInvImplies, PTL

\* A speaker call whose writes all succeed has rewritten all six LED files
\* when it unlocks, whatever failed before it.
THEOREM CallsRepair == Spec => []CleanCallRepairs
BY LedInvariant, LedInvImplies, PTL

\* In the middle of a repaint too, the LED blinks and glows at a time only
\* when the write that would have cleared one of the modes failed.
THEOREM ModesExclusive == Spec => []NeverBlinkAndGlow
BY LedInvariant, LedInvImplies, PTL
-----------------------------------------------------------------------------
(* The shared LED.                                                         *)

\* A speaker call under way is one that repaints.
LEMMA PaintingIsRepainting ==
    /\ Painting <=> \E t \in Threads : Repainting(t)
    /\ Painting' <=> \E t \in Threads : Repainting(t)'
BY DEF Painting, Repainting

\* Among the three requesters the one in charge is the one that
\* handle_speaker_battery_locked shows.
LEMMA WinnerInCharge ==
    \E l \in SpeakerLights : Led!InCharge(l) /\ Winner(g) = g[l]
<1> DEFINE rank == [l \in SpeakerLights |->
                       CASE l = "attention" -> 1 [] l = "notifications" -> 2
                         [] l = "battery" -> 3]
<1>1. /\ rank["attention"] = 1 /\ rank["notifications"] = 2 /\ rank["battery"] = 3
      /\ SpeakerLights = {"attention", "notifications", "battery"}
  BY DEF SpeakerLights
<1>2. \A l \in SpeakerLights :
         Led!InCharge(l) <=>
            /\ is_lit(g[l]) \/ \A q \in SpeakerLights : rank[q] <= rank[l]
            /\ \A q \in SpeakerLights : rank[q] < rank[l] => ~is_lit(g[q])
  BY DEF Led!InCharge
<1> HIDE DEF rank
<1>3. CASE is_lit(g["attention"])
  BY <1>1, <1>2, <1>3 DEF Winner
<1>4. CASE ~is_lit(g["attention"]) /\ is_lit(g["notifications"])
  BY <1>1, <1>2, <1>4 DEF Winner
<1>5. CASE ~is_lit(g["attention"]) /\ ~is_lit(g["notifications"])
  BY <1>1, <1>2, <1>5 DEF Winner
<1> QED BY <1>3, <1>4, <1>5

\* The first state shows nothing the HAL answers for.
LEMMA LedInitMaps == Init => Led!Init
<1> SUFFICES ASSUME Init PROVE Led!Init
  OBVIOUS
<1>1. ~Painting
  BY DEF Init, Painting, NoCall, Call
<1>2. \A f \in LED_FILES : f \in stale
  BY DEF Init, Files
<1> QED BY <1>1, <1>2 DEF Init, Led!Init

\* The abstract LED does not see a step that starts and ends no repaint and
\* that, when none is under way, leaves the LED files alone.
LEMMA LedStutters ==
    ASSUME g' = g, Painting' <=> Painting,
           \A f \in LED_FILES : Painting \/ (sysfs'[f] = sysfs[f] /\ (f \in stale' <=> f \in stale))
    PROVE  UNCHANGED Led!vars
<1>1. Painting \in BOOLEAN /\ Painting' \in BOOLEAN
  BY DEF Painting
<1>2. Painting' = Painting
  BY <1>1
<1>3. \A f \in LED_FILES :
         (IF Painting' \/ f \in stale' THEN Unknown ELSE sysfs'[f])
            = (IF Painting \/ f \in stale THEN Unknown ELSE sysfs[f])
  BY <1>2
<1> QED BY <1>2, <1>3 DEF Led!vars, Unknown

\* Every step of the HAL is a step of the shared LED, or invisible: a call
\* that gets the mutex is a request, its unlock is the end of the painting.
LEMMA LedStepMaps == TypeLock /\ LedInv /\ [Next]_vars => [Led!Next]_(Led!vars)
<1> SUFFICES ASSUME TypeLock, LedInv, [Next]_vars PROVE Led!Next \/ UNCHANGED Led!vars
  OBVIOUS
<1>c. call \in [Threads -> [op : {"idle", "once", "init", "malloc", "set"},
                            light : Lights \cup {"none"}, step : 0..10,
                            value : Byte, clean : BOOLEAN]]
  BY DEF TypeLock, TypeOK
<1>0. CASE UNCHANGED vars
  BY <1>0, LedStutters DEF vars, Painting
<1>1. ASSUME NEW t \in Threads,
             \/ \E l \in Names : open_lights(t, l) \/ close_lights(t, l)
             \/ Open(t)
             \/ \E l \in SingleLights, s \in LightStates : set_light_single(t, l, s)
      PROVE  UNCHANGED Led!vars
  <2>1. /\ UNCHANGED <<g, sysfs, stale>>
        /\ ~Repainting(t)
        /\ \/ call' = call
           \/ \E c : call' = [call EXCEPT ![t] = c]
    BY <1>1 DEF open_lights, close_lights, Open, EnterOnce, PassOnce, init_globals,
                NewDevice, NoMemory, set_light_single, Lock, Repainting
  <2>2. \A u \in Threads : u # t => call'[u] = call[u]
    BY <2>1, <1>c
  <2>3. ~Repainting(t)'
    <3>1. CASE \E l \in Names : open_lights(t, l) \/ close_lights(t, l)
      BY <3>1, <1>c DEF open_lights, close_lights, Repainting, Call
    <3>2. CASE Open(t)
      BY <3>2, <1>c DEF Open, EnterOnce, PassOnce, init_globals, NewDevice, NoMemory,
                        Repainting, NoCall, Call
    <3>3. CASE \E l \in SingleLights, s \in LightStates : set_light_single(t, l, s)
      BY <3>3, <1>c DEF set_light_single, Lock, Repainting, Call, SpeakerLights, SingleLights
    <3> QED BY <1>1, <3>1, <3>2, <3>3
  <2>4. \A u \in Threads : Repainting(u)' <=> Repainting(u)
    BY <2>1, <2>2, <2>3 DEF Repainting
  <2>5. Painting' <=> Painting
    BY <2>4, PaintingIsRepainting
  <2> QED BY <2>1, <2>5, LedStutters
<1>2. ASSUME NEW t \in Threads, NEW l \in SpeakerLights, NEW s \in LightStates,
             set_light_speaker(t, l, s)
      PROVE  Led!Next
  <2>1. /\ g_lock = NoThread /\ g' = [g EXCEPT ![l] = s]
        /\ call' = [call EXCEPT ![t] = Call("set", l, 1, 0, TRUE)]
    BY <1>2 DEF set_light_speaker, Lock
  <2>2. ~Painting
    BY <2>1, ThreadsAssumption DEF TypeLock, LockInv, Painting
  <2>3. Painting'
    BY <2>1, <1>c DEF Painting, Call
  <2>4. Led!Request(l, s)
    BY <2>1, <2>2, <2>3 DEF Led!Request, Painting
  <2> QED BY <2>4 DEF Led!Next
<1>3. ASSUME NEW t \in Threads, write_int(t) \/ write_int_fails(t)
      PROVE  UNCHANGED Led!vars
  <2>1. PICK ok \in BOOLEAN : call' = [call EXCEPT ![t] = Wrote(call[t], ok)]
    BY <1>3 DEF write_int, write_int_fails
  <2>2. \A u \in Threads : call'[u].op = call[u].op /\ call'[u].light = call[u].light
    BY <2>1, <1>c DEF Wrote, Call
  <2>3. Painting' <=> Painting
    BY <2>2 DEF Painting
  <2>4. g' = g /\ call[t].op = "set"
    BY <1>3 DEF write_int, write_int_fails
  <2>5. CASE ~Painting
    <3> DEFINE w == NextWrite(call[t])
    <3>1. w.file \notin LED_FILES
      BY <1>3, <2>4, <2>5, NextWriteLemma
      DEF write_int, write_int_fails, Painting, TypeLock
    <3>2. sysfs \in [Files -> Byte] /\ LED_FILES \subseteq Files
      BY DEF TypeLock, TypeOK, Files
    <3>3. /\ sysfs' = sysfs \/ sysfs' = [sysfs EXCEPT ![w.file] = w.value]
          /\ stale' = stale \ {w.file} \/ stale' = stale \cup {w.file}
      BY <1>3 DEF write_int, write_int_fails
    <3> HIDE DEF w
    <3>4. \A f \in LED_FILES : sysfs'[f] = sysfs[f] /\ (f \in stale' <=> f \in stale)
      BY <3>1, <3>2, <3>3
    <3> QED BY <2>3, <2>4, <3>4, LedStutters
  <2>6. CASE Painting
    BY <2>3, <2>4, <2>6, LedStutters
  <2> QED BY <2>5, <2>6
<1>4. ASSUME NEW t \in Threads, Unlock(t) PROVE Led!Next \/ UNCHANGED Led!vars
  <2>1. /\ UNCHANGED <<g, sysfs, stale>> /\ call[t].op = "set"
        /\ call' = [call EXCEPT ![t] = NoCall]
        /\ call[t].step > Writes(call[t])
    BY <1>4 DEF Unlock
  <2>2. \A u \in Threads : u # t => call[u].op # "set"
    BY <2>1 DEF TypeLock, LockInv
  <2>3. ~Painting'
    BY <2>1, <2>2, <1>c DEF Painting, NoCall, Call
  <2>4. CASE ~Repainting(t)
    <3>1. ~Painting
      BY <2>2, <2>4 DEF Painting, Repainting
    <3> QED BY <2>1, <2>3, <3>1, LedStutters
  <2>5. CASE Repainting(t)
    <3>1. Painting
      BY <2>5 DEF Painting, Repainting
    <3>2. \A f \in LED_FILES : Settled(f)
      BY <2>1, <2>5, <1>c, StepBounds DEF Writes, RepaintWrites, Repainting, LedInv, PaintInv
    <3>3. PICK l \in SpeakerLights : Led!InCharge(l) /\ Winner(g) = g[l]
      BY WinnerInCharge
    <3> DEFINE failed == LED_FILES \cap stale
    <3>4. \A f \in LED_FILES :
             (IF Painting' \/ f \in stale' THEN Unknown ELSE sysfs'[f])
               = (IF f \in failed THEN Unknown ELSE Shown(g[l], f))
      BY <2>1, <2>3, <3>2, <3>3 DEF Settled
    <3>5. failed \in SUBSET LED_FILES
      OBVIOUS
    <3> HIDE DEF failed
    <3>6. Led!Painted
      BY <2>1, <2>3, <3>1, <3>3, <3>4, <3>5 DEF Led!Painted, Painting
    <3> QED BY <3>6 DEF Led!Next
  <2> QED BY <2>4, <2>5
<1> QED BY <1>0, <1>1, <1>2, <1>3, <1>4 DEF Next, Set

\* The HAL implements the safety part of SharedLed: whoever watches only the
\* requests and the LED sees requests taken up one at a time and, after each,
\* the LED showing the request in charge.  (ImplementsSharedLed adds that
\* painting ends, which rests on fairness.)
THEOREM LedImplemented == Spec => Led!Init /\ [][Led!Next]_(Led!vars)
<1>1. TypeLock /\ LedInv /\ [Next]_vars => [Led!Next]_(Led!vars)
  BY LedStepMaps
<1>2. Init => Led!Init
  BY LedInitMaps
<1> QED BY <1>1, <1>2, LedInvariant, PTL DEF Spec
=============================================================================
