----------------------------- MODULE PowerHint ------------------------------
(***************************************************************************)
(* The touch-boost policy of the power HAL, libpower/power.c, with hints   *)
(* delivered one at a time.                                                *)
(*                                                                         *)
(* The policy measures the gaps between hints with clock(): processor time *)
(* of the process in a 32-bit clock_t, which advances when the process     *)
(* runs and wraps around.  Time is in milliseconds here; the float         *)
(* subtraction of the code does not wrap.                                  *)
(***************************************************************************)
EXTENDS Integers

CONSTANTS
    ClockMax,    \* clock() ranges over -ClockMax .. ClockMax - 1
    CpuTicks,    \* by how much clock() may advance in a step
    MaxTouches   \* bound on consecutive_touch_int

ASSUME ClockAssumption == ClockMax \in Nat \ {0}
ASSUME TicksAssumption == CpuTicks \subseteq Nat
ASSUME TouchesAssumption == MaxTouches \in Nat

SHORT_TOUCH_TIME == 20
LONG_TOUCH_TIME == 100
VSYNC_BOOST_COUNT == 4
VSYNC_TOUCH_TIME == 30

VARIABLES
    touchboost_disable, timer_set, vsync_boost,     \* intel_power_module
    curr_time, prev_time, vsync_count, consecutive_touch_int,   \* statics
    clk,      \* what clock() would return
    pulse,    \* what the last step wrote to touchboostpulse
    boosts    \* history: vsync pulses since the last finger release

flags == <<touchboost_disable, timer_set, vsync_boost>>
statics == <<curr_time, prev_time, vsync_count, consecutive_touch_int>>
vars == <<flags, statics, clk, pulse, boosts>>

Clock == -ClockMax .. ClockMax - 1

\* clock_t arithmetic of the C library: wraps from the largest to the
\* smallest value.
Wrap(x) == ((x + ClockMax) % (2 * ClockMax)) - ClockMax

-----------------------------------------------------------------------------
Init ==
    /\ touchboost_disable = 0 /\ timer_set = 0 /\ vsync_boost = 0
    /\ curr_time = 0 /\ prev_time = 0
    /\ vsync_count = 0 /\ consecutive_touch_int = 0
    /\ clk \in 0 .. ClockMax - 1
    /\ pulse = "none"
    /\ boosts = 0

\* The process runs between two hints.
Advance(d) ==
    /\ clk' = Wrap(clk + d)
    /\ pulse' = "none"
    /\ UNCHANGED <<flags, statics, boosts>>

\* Mutant: the timer rate is lowered for simple touches too.
Classify_timer_for_touches(short, disabled, timer, count) ==
    LET off == IF short /\ disabled = 0 /\ count > 4 THEN 1 ELSE disabled
    IN  /\ touchboost_disable' = off
        /\ timer_set' = IF count > 15 THEN 1 ELSE timer
        /\ pulse' = IF off = 0 THEN "touch" ELSE "none"

\* The tail of the handler: disable the touch boost in the fifth short gap,
\* lower the timer rate in the sixteenth, otherwise pulse.
Classify(short, disabled, timer, count) ==
    LET off == IF short /\ disabled = 0 /\ count > 4 THEN 1 ELSE disabled
    IN  /\ touchboost_disable' = off
        /\ timer_set' = IF off = 1 /\ count > 15 THEN 1 ELSE timer
        /\ pulse' = IF off = 0 THEN "touch" ELSE "none"

\* POWER_HINT_INTERACTION less than SHORT_TOUCH_TIME after the last one.
ShortTouch ==
    /\ clk - prev_time < SHORT_TOUCH_TIME
    /\ consecutive_touch_int < MaxTouches
    /\ curr_time' = clk
    /\ prev_time' = clk
    /\ consecutive_touch_int' = consecutive_touch_int + 1
    /\ Classify(TRUE, touchboost_disable, timer_set, consecutive_touch_int + 1)
    /\ UNCHANGED <<vsync_boost, vsync_count, clk, boosts>>

\* POWER_HINT_INTERACTION in between: nothing is counted.
MediumTouch ==
    /\ clk - prev_time >= SHORT_TOUCH_TIME
    /\ clk - prev_time <= LONG_TOUCH_TIME
    /\ curr_time' = clk
    /\ prev_time' = clk
    /\ Classify(FALSE, touchboost_disable, timer_set, consecutive_touch_int)
    /\ UNCHANGED <<vsync_boost, vsync_count, consecutive_touch_int, clk, boosts>>

\* POWER_HINT_INTERACTION more than LONG_TOUCH_TIME after the last one: a
\* first touch, which forgets everything.
LongTouch ==
    /\ clk - prev_time > LONG_TOUCH_TIME
    /\ curr_time' = clk
    /\ prev_time' = clk
    /\ vsync_boost' = 0
    /\ vsync_count' = 0
    /\ consecutive_touch_int' = 0
    /\ Classify(FALSE, 0, 0, 0)
    /\ UNCHANGED <<clk, boosts>>

\* The vsync half of the countdown: at most one pulse per vsync.
Countdown(boost, count, done, data) ==
    IF boost = 1 /\ data = 1 /\ count > 0
    THEN /\ pulse' = "vsync"
         /\ vsync_count' = count - 1
         /\ vsync_boost' = IF count = 1 THEN 0 ELSE 1
         /\ boosts' = done + 1
    ELSE /\ pulse' = "none"
         /\ vsync_count' = count
         /\ vsync_boost' = boost
         /\ boosts' = done

\* Mutant: a release adds to the budget of the one before it.
ReleaseVsync_adds(data) ==
    /\ touchboost_disable = 1
    /\ clk - curr_time > VSYNC_TOUCH_TIME
    /\ timer_set' = 0
    /\ touchboost_disable' = 0
    /\ Countdown(1, vsync_count + VSYNC_BOOST_COUNT, 0, data)
    /\ UNCHANGED <<curr_time, prev_time, consecutive_touch_int, clk>>

\* POWER_HINT_VSYNC more than VSYNC_TOUCH_TIME after the last touch of a
\* scroll: the finger was released.
ReleaseVsync(data) ==
    /\ touchboost_disable = 1
    /\ clk - curr_time > VSYNC_TOUCH_TIME
    /\ timer_set' = 0
    /\ touchboost_disable' = 0
    /\ Countdown(1, VSYNC_BOOST_COUNT, 0, data)
    /\ UNCHANGED <<curr_time, prev_time, consecutive_touch_int, clk>>

\* Any other POWER_HINT_VSYNC.
Vsync(data) ==
    /\ ~(touchboost_disable = 1 /\ clk - curr_time > VSYNC_TOUCH_TIME)
    /\ Countdown(vsync_boost, vsync_count, boosts, data)
    /\ UNCHANGED <<touchboost_disable, timer_set, curr_time, prev_time,
                   consecutive_touch_int, clk>>

intel_power_hint ==
    \/ ShortTouch \/ MediumTouch \/ LongTouch
    \/ \E data \in 0..1 : ReleaseVsync(data) \/ Vsync(data)

Next == intel_power_hint \/ \E d \in CpuTicks : Advance(d)

Spec == Init /\ [][Next]_vars

-----------------------------------------------------------------------------
(* Properties.                                                             *)

\* Every variable has its type; the countdown stays in 0..VSYNC_BOOST_COUNT.
TypeOK ==
    /\ touchboost_disable \in 0..1 /\ timer_set \in 0..1 /\ vsync_boost \in 0..1
    /\ curr_time \in Clock /\ prev_time \in Clock /\ clk \in Clock
    /\ vsync_count \in 0..VSYNC_BOOST_COUNT
    /\ consecutive_touch_int \in 0..MaxTouches
    /\ pulse \in {"none", "touch", "vsync"}
    /\ boosts \in 0..VSYNC_BOOST_COUNT

\* The flag that lets vsync hints boost and the countdown they consume are
\* kept in step over every sequence of touches, releases and clock wraps: a
\* boost armed with nothing left to count would never be disarmed.
BoostIffCountdown == vsync_boost = 1 <=> vsync_count > 0

\* Between one finger release and the next at most VSYNC_BOOST_COUNT vsync
\* pulses are sent, whatever touches come in between; while the boost is
\* armed the pulses sent and the pulses left add up to the budget.
BoostBudget ==
    /\ boosts <= VSYNC_BOOST_COUNT
    /\ vsync_boost = 1 => boosts + vsync_count = VSYNC_BOOST_COUNT

\* The three stages of a touch sequence are nested: a lowered timer rate only
\* in a scroll (more than 15 short gaps) whose touch boost is off, and the
\* touch boost off only after more than 4 short gaps.
StagesNested ==
    /\ timer_set = 1 => touchboost_disable = 1 /\ consecutive_touch_int > 15
    /\ touchboost_disable = 1 => consecutive_touch_int > 4
=============================================================================
