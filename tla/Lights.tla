------------------------------- MODULE Lights -------------------------------
(***************************************************************************)
(* The lights HAL, liblight/lights.c.                                      *)
(*                                                                         *)
(* The framework opens one device per light name and calls its set_light   *)
(* from any thread.  Three of the five lights (attention, notifications,   *)
(* battery) share one RGB "speaker" LED: every call records its request in *)
(* a static variable and then repaints the LED from the three requests.    *)
(* A repaint is nine writes to six sysfs files under g_lock; each write is *)
(* a step of its own, and each may fail.                                   *)
(***************************************************************************)
EXTENDS Integers, FiniteSets

CONSTANTS
    Threads,      \* the caller's threads
    NoThread,     \* owner of a free mutex
    Names,        \* the light names the framework opens
    LightStates,  \* the light_state_t values callers pass
    InitSysfs,    \* what the sysfs files may hold before the first write
    Faulty,       \* files whose open() or write() may fail
    MaxDevices    \* bound: devices open at a time for one light

Channels == {"red", "green", "blue"}
Channel  == <<"red", "green", "blue">>      \* the order of the writes
LED_FILES == {"blink", "brightness"} \X Channels
LCD_FILE    == <<"brightness", "lcd">>
BUTTON_FILE == <<"brightness", "button">>
Files == LED_FILES \cup {LCD_FILE, BUTTON_FILE}

SpeakerLights == {"attention", "notifications", "battery"}
SingleLights == {"backlight", "buttons"}    \* each writes one file
Lights == SpeakerLights \cup SingleLights

Byte == 0..255
LIGHT_FLASH_NONE == 0
FlashModes == 0..2                          \* NONE, TIMED, HARDWARE

\* light_state_t with the 32-bit color split into its bytes.
LightState == [alpha : Byte, red : Byte, green : Byte, blue : Byte,
               flashMode : FlashModes, flashOnMS : Nat, flashOffMS : Nat]

\* A static light_state_t before its first assignment.
ZeroState == [alpha |-> 0, red |-> 0, green |-> 0, blue |-> 0,
              flashMode |-> 0, flashOnMS |-> 0, flashOffMS |-> 0]

ASSUME ThreadsAssumption == NoThread \notin Threads
ASSUME NamesAssumption   == Names \subseteq Lights
ASSUME StatesAssumption  == LightStates \subseteq LightState
ASSUME SysfsAssumption   == InitSysfs \subseteq [Files -> Byte]
ASSUME FaultyAssumption  == Faulty \subseteq Files
ASSUME DevicesAssumption == MaxDevices \in Nat

VARIABLES
    once,     \* the state of pthread_once_t g_init
    g_lock,   \* the thread that owns the mutex
    g,        \* g_attention, g_notification and g_battery
    sysfs,    \* contents of the sysfs files
    stale,    \* files that do not hold what the HAL last tried to write
    devices,  \* number of open devices per light
    call      \* per thread: the HAL call in progress

vars == <<once, g_lock, g, sysfs, stale, devices, call>>

\* A call: the operation it is in, its light, its next write, the value of
\* a one-file write, and whether all its writes so far succeeded.
Call(op, l, step, value, clean) ==
    [op |-> op, light |-> l, step |-> step, value |-> value, clean |-> clean]

NoCall == Call("idle", "none", 0, 0, TRUE)

Wrote(c, ok) == Call(c.op, c.light, c.step + 1, c.value, c.clean /\ ok)

-----------------------------------------------------------------------------
(* What is written for a light_state_t.                                    *)

is_lit(s) == s.red + s.green + s.blue > 0

rgb_to_brightness(s) == (77 * s.red + 150 * s.green + 29 * s.blue) \div 256

\* A flash with no "on" time is turned into a steady black.
FlashOff(s) == /\ s.flashMode # LIGHT_FLASH_NONE
               /\ s.flashOnMS = 0
               /\ s.flashOffMS # 0

\* The flash mode survives the checks on the two durations, and the color
\* (its alpha byte included) is not zero.
Blinks(s) == /\ s.flashMode # LIGHT_FLASH_NONE
             /\ s.flashOnMS > 0
             /\ s.flashOffMS > 0
             /\ is_lit(s) \/ s.alpha > 0

\* Blinking is on/off per channel, white when no channel is above one half.
BlinkLevel(s, c) ==
    IF s[c] > 127 \/ \A d \in Channels : s[d] <= 127 THEN 1 ELSE 0

\* Mutant: the 0-255 color written to the 0-48 driver.
SteadyLevel_unscaled(s, c) == IF FlashOff(s) THEN 0 ELSE s[c]

\* Steady light is on the 0-48 scale of the LED driver.
SteadyLevel(s, c) == IF FlashOff(s) THEN 0 ELSE (48 * s[c]) \div 255

ApplyWrite(s, i) ==
    IF Blinks(s)
    THEN [file |-> <<"blink", Channel[i]>>, value |-> BlinkLevel(s, Channel[i])]
    ELSE [file |-> <<"brightness", Channel[i]>>,
          value |-> SteadyLevel(s, Channel[i])]

\* Mutant: the reset leaves the blink files alone.
ResetWrite_keeps_blink(i) ==
    [file |-> <<"brightness", Channel[IF i <= 3 THEN i ELSE i - 3]>>,
     value |-> 0]

\* set_speaker_light_locked(dev, NULL).
ResetWrite(i) ==
    [file |-> IF i <= 3 THEN <<"blink", Channel[i]>>
                        ELSE <<"brightness", Channel[i - 3]>>,
     value |-> 0]

\* Mutant: the battery outranks the notifications.
Winner_battery_first(req) ==
    IF is_lit(req["attention"]) THEN req["attention"]
    ELSE IF is_lit(req["battery"]) THEN req["battery"]
    ELSE req["notifications"]

\* The request that handle_speaker_battery_locked shows.
Winner(req) == IF is_lit(req["attention"]) THEN req["attention"]
               ELSE IF is_lit(req["notifications"]) THEN req["notifications"]
               ELSE req["battery"]

RepaintWrites == 9

\* Mutant: the reset is left after the blink files.
RepaintWrite_blink_reset_only(req, i) ==
    IF i <= 3 THEN ResetWrite(i)
    ELSE ApplyWrite(Winner(req), IF i <= 6 THEN i - 3 ELSE i - 6)

\* The i-th of the nine writes of handle_speaker_battery_locked.
RepaintWrite(req, i) ==
    IF i <= 6 THEN ResetWrite(i) ELSE ApplyWrite(Winner(req), i - 6)

\* How many writes a set_light call makes, and the one it makes next.
Writes(c) == IF c.light \in SpeakerLights THEN RepaintWrites ELSE 1

NextWrite(c) ==
    CASE c.light \in SpeakerLights -> RepaintWrite(g, c.step)
      [] c.light = "backlight" -> [file |-> LCD_FILE, value |-> c.value]
      [] OTHER -> [file |-> BUTTON_FILE, value |-> c.value]

-----------------------------------------------------------------------------
Init ==
    /\ once = "never"
    /\ g_lock = NoThread
    /\ g = [l \in SpeakerLights |-> ZeroState]
    /\ sysfs \in InitSysfs
    /\ stale = Files
    /\ devices = [l \in Lights |-> 0]
    /\ call = [t \in Threads |-> NoCall]

\* open_lights up to pthread_once.  A name that is not one of Lights gets
\* -EINVAL and changes nothing.
open_lights(t, l) ==
    /\ call[t].op = "idle"
    /\ devices[l] + Cardinality({u \in Threads :
            call[u].op \in {"once", "init", "malloc"} /\ call[u].light = l})
         < MaxDevices
    /\ call' = [call EXCEPT ![t] = Call("once", l, 0, 0, TRUE)]
    /\ UNCHANGED <<once, g_lock, g, sysfs, stale, devices>>

\* pthread_once: the first thread runs init_globals, the others wait for it.
EnterOnce(t) ==
    /\ call[t].op = "once"
    /\ once = "never"
    /\ once' = "running"
    /\ call' = [call EXCEPT ![t].op = "init"]
    /\ UNCHANGED <<g_lock, g, sysfs, stale, devices>>

\* Mutant: pthread_once replaced by an unguarded call of init_globals.
PassOnce_always_init(t) ==
    /\ call[t].op = "once"
    /\ once = "done"
    /\ call' = [call EXCEPT ![t].op = "init"]
    /\ UNCHANGED <<once, g_lock, g, sysfs, stale, devices>>

PassOnce(t) ==
    /\ call[t].op = "once"
    /\ once = "done"
    /\ call' = [call EXCEPT ![t].op = "malloc"]
    /\ UNCHANGED <<once, g_lock, g, sysfs, stale, devices>>

\* pthread_mutex_init makes the mutex free whoever held it.
init_globals(t) ==
    /\ call[t].op = "init"
    /\ g_lock' = NoThread
    /\ once' = "done"
    /\ call' = [call EXCEPT ![t].op = "malloc"]
    /\ UNCHANGED <<g, sysfs, stale, devices>>

\* The rest of open_lights: the device, or -ENOMEM.
NewDevice(t) ==
    /\ call[t].op = "malloc"
    /\ devices' = [devices EXCEPT ![call[t].light] = @ + 1]
    /\ call' = [call EXCEPT ![t] = NoCall]
    /\ UNCHANGED <<once, g_lock, g, sysfs, stale>>

NoMemory(t) ==
    /\ call[t].op = "malloc"
    /\ call' = [call EXCEPT ![t] = NoCall]
    /\ UNCHANGED <<once, g_lock, g, sysfs, stale, devices>>

close_lights(t, l) ==
    /\ call[t].op = "idle"
    /\ devices[l] > 0
    /\ devices' = [devices EXCEPT ![l] = @ - 1]
    /\ UNCHANGED <<once, g_lock, g, sysfs, stale, call>>

\* Mutant: the call does not wait for the mutex.
Lock_without_waiting(t, l, value) ==
    /\ call[t].op = "idle"
    /\ devices[l] > 0
    /\ g_lock' = t
    /\ call' = [call EXCEPT ![t] = Call("set", l, 1, value, TRUE)]
    /\ UNCHANGED <<once, sysfs, stale, devices>>

\* A set_light call that has got the mutex and has all its writes to make.
Lock(t, l, value) ==
    /\ call[t].op = "idle"
    /\ devices[l] > 0
    /\ g_lock = NoThread
    /\ g_lock' = t
    /\ call' = [call EXCEPT ![t] = Call("set", l, 1, value, TRUE)]
    /\ UNCHANGED <<once, sysfs, stale, devices>>

\* set_light_attention, set_light_notifications and set_light_battery.
set_light_speaker(t, l, s) ==
    /\ Lock(t, l, 0)
    /\ g' = [g EXCEPT ![l] = s]

\* What set_light_backlight and set_light_buttons write: a brightness, and
\* the low byte of the color.
SingleValue(l, s) == IF l = "backlight" THEN rgb_to_brightness(s) ELSE s.blue

\* set_light_backlight and set_light_buttons.
set_light_single(t, l, s) ==
    /\ Lock(t, l, SingleValue(l, s))
    /\ UNCHANGED g

write_int(t) ==
    /\ call[t].op = "set"
    /\ call[t].step <= Writes(call[t])
    /\ LET w == NextWrite(call[t])
       IN  /\ sysfs' = [sysfs EXCEPT ![w.file] = w.value]
           /\ stale' = stale \ {w.file}
    /\ call' = [call EXCEPT ![t] = Wrote(@, TRUE)]
    /\ UNCHANGED <<once, g_lock, g, devices>>

\* write_int whose open() or write() fails.  The speaker lights ignore its
\* result; the other two return it after the unlock.
write_int_fails(t) ==
    /\ call[t].op = "set"
    /\ call[t].step <= Writes(call[t])
    /\ NextWrite(call[t]).file \in Faulty
    /\ stale' = stale \cup {NextWrite(call[t]).file}
    /\ call' = [call EXCEPT ![t] = Wrote(@, FALSE)]
    /\ UNCHANGED <<once, g_lock, g, sysfs, devices>>

\* Mutant: an early return after a failed write keeps the mutex.
Unlock_unless_failed(t) ==
    /\ call[t].op = "set"
    /\ call[t].step > Writes(call[t])
    /\ g_lock' = IF call[t].clean THEN NoThread ELSE g_lock
    /\ call' = [call EXCEPT ![t] = NoCall]
    /\ UNCHANGED <<once, g, sysfs, stale, devices>>

Unlock(t) ==
    /\ call[t].op = "set"
    /\ call[t].step > Writes(call[t])
    /\ g_lock' = NoThread
    /\ call' = [call EXCEPT ![t] = NoCall]
    /\ UNCHANGED <<once, g, sysfs, stale, devices>>

Open(t) == EnterOnce(t) \/ PassOnce(t) \/ init_globals(t)
             \/ NewDevice(t) \/ NoMemory(t)

Set(t) == write_int(t) \/ write_int_fails(t) \/ Unlock(t)

Next ==
    \E t \in Threads :
        \/ \E l \in Names : open_lights(t, l) \/ close_lights(t, l)
        \/ \E l \in SpeakerLights, s \in LightStates : set_light_speaker(t, l, s)
        \/ \E l \in SingleLights, s \in LightStates : set_light_single(t, l, s)
        \/ Open(t)
        \/ Set(t)

\* A thread inside the HAL keeps running: nothing in a call waits for
\* another call of the same light, only for the mutex and for pthread_once.
Fairness == \A t \in Threads : WF_vars(Open(t)) /\ WF_vars(Set(t))

Spec == Init /\ [][Next]_vars /\ Fairness

-----------------------------------------------------------------------------
(* Properties.                                                             *)

MaxValue(f) == IF f[1] = "blink" THEN 1
               ELSE IF f[2] \in Channels THEN 48 ELSE 255

\* Every variable has its type, and a file the HAL has written holds a value
\* its driver accepts: 0-1 to blink, 0-48 for a channel, 0-255 elsewhere.
TypeOK ==
    /\ once \in {"never", "running", "done"}
    /\ g_lock \in Threads \cup {NoThread}
    /\ g \in [SpeakerLights -> LightState]
    /\ sysfs \in [Files -> Byte]
    /\ stale \subseteq Files
    /\ \A f \in Files \ stale : sysfs[f] <= MaxValue(f)
    /\ devices \in [Lights -> Nat]
    /\ call \in [Threads ->
                   [op : {"idle", "once", "init", "malloc", "set"},
                    light : Lights \cup {"none"}, step : 0..10,
                    value : Byte, clean : BOOLEAN]]

\* What LED file f holds when the LED shows request s and nothing else.
Shown(s, f) ==
    IF f[1] = "blink" THEN IF Blinks(s) THEN BlinkLevel(s, f[2]) ELSE 0
                      ELSE IF Blinks(s) THEN 0 ELSE SteadyLevel(s, f[2])

\* s is the request in charge: attention, else notifications, else battery.
InCharge(l) ==
    CASE l = "attention" -> is_lit(g["attention"])
      [] l = "notifications" -> is_lit(g["notifications"])
                                  /\ ~is_lit(g["attention"])
      [] l = "battery" -> ~is_lit(g["attention"]) /\ ~is_lit(g["notifications"])

\* Whenever no call is repainting, every LED file whose last write succeeded
\* shows the highest-priority lit request, whatever the order of the calls,
\* the leftovers of earlier requests and the writes that failed before.
ArbitrationShown ==
    g_lock = NoThread =>
        \A l \in SpeakerLights, f \in LED_FILES \ stale :
            InCharge(l) => sysfs[f] = Shown(g[l], f)

\* A speaker call none of whose writes failed has rewritten all six LED
\* files by the time it unlocks: it repairs what failed before it.
CleanCallRepairs ==
    \A t \in Threads :
        /\ call[t].op = "set"
        /\ call[t].light \in SpeakerLights
        /\ call[t].step > RepaintWrites
        /\ call[t].clean
        => LED_FILES \cap stale = {}

\* At no moment, in the middle of a repaint included, does the HAL drive the
\* LED in both modes: a blinking and a steadily lit channel never coexist
\* unless a write that would have cleared one of them failed.
NeverBlinkAndGlow ==
    \A c, d \in Channels :
        /\ sysfs[<<"blink", c>>] > 0
        /\ sysfs[<<"brightness", d>>] > 0
        => stale \cap {<<"blink", c>>, <<"brightness", d>>} # {}

\* init_globals re-initialises a mutex that is statically initialised
\* already: when it runs, nobody holds g_lock and nobody can ask for it.
MutexNeverReset ==
    \A t \in Threads :
        call[t].op = "init" =>
            /\ g_lock = NoThread
            /\ \A u \in Threads : call[u].op \notin {"set", "malloc"}
            /\ \A l \in Lights : devices[l] = 0

\* A call that holds the mutex gives it back, also when its writes fail.
LockReleased == \A t \in Threads : g_lock = t ~> g_lock # t

\* A speaker light call is in progress.
Painting == \E t \in Threads :
                call[t].op = "set" /\ call[t].light \in SpeakerLights

Unknown == 256

\* The LED as SharedLed sees it: unknown while it is repainted, and where
\* the last write failed.
Led == INSTANCE SharedLed WITH
    Requesters <- SpeakerLights,
    Rank <- [l \in SpeakerLights |->
                CASE l = "attention" -> 1 [] l = "notifications" -> 2
                  [] l = "battery" -> 3],
    States <- LightStates, Off <- ZeroState, Files <- LED_FILES,
    Lit <- is_lit, Shows <- Shown,
    request <- g, painting <- Painting,
    led <- [f \in LED_FILES |->
                IF Painting \/ f \in stale THEN Unknown ELSE sysfs[f]]

\* The nine writes, the mutex and the threads are invisible from outside: the
\* HAL implements the shared LED, in which a request is taken up in one step
\* and the LED then shows the request in charge.
ImplementsSharedLed == Led!Spec
=============================================================================
