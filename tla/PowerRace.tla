----------------------------- MODULE PowerRace ------------------------------
(***************************************************************************)
(* intel_power_hint of libpower/power.c called by two threads at once: one *)
(* delivers touch hints, one vsync hints, and nothing locks the statics    *)
(* they share.  A step is one load or store of a shared variable.  Stores  *)
(* with no call between them may be reordered by the compiler, so a group  *)
(* of them is made in any order.                                           *)
(*                                                                         *)
(* PowerHint has the clock; here a gap is only long, medium or short.      *)
(***************************************************************************)
EXTENDS Integers

CONSTANT MaxTouches    \* bound on consecutive_touch_int

ASSUME TouchesAssumption == MaxTouches \in Nat

VSYNC_BOOST_COUNT == 4

Threads == {"touch", "vsync"}
Shared == {"touchboost_disable", "timer_set", "vsync_boost", "vsync_count"}

VARIABLES
    mem,       \* the shared variables
    consecutive_touch_int,   \* used by touch hints only
    late,      \* vsync_time lies more than VSYNC_TOUCH_TIME after curr_time
    quiet,     \* that much time has passed since curr_time was stored
    pc,        \* per thread: where it is in the handler
    stores,    \* per thread: the stores of the current group still to make
    short,     \* touch: its diff is below SHORT_TOUCH_TIME
    count,     \* vsync: the vsync_count it is decrementing
    boosts,    \* history: vsync pulses since the last release
    raced      \* history: two handlers overlapped and nothing healed it since

vars == <<mem, consecutive_touch_int, late, quiet, pc, stores, short, count,
          boosts, raced>>

Init ==
    /\ mem = [v \in Shared |-> 0]
    /\ consecutive_touch_int = 0
    /\ late = FALSE
    /\ quiet = TRUE
    /\ pc = [t \in Threads |-> "idle"]
    /\ stores = [t \in Threads |-> {}]
    /\ short = FALSE
    /\ count = 0
    /\ boosts = 0
    /\ raced = FALSE

\* Thread t goes from one place to another once its stores are made.
At(t, from, to) == /\ pc[t] = from
                   /\ stores[t] = {}
                   /\ pc' = [pc EXCEPT ![t] = to]

\* ... with a group of stores to make next.
Writes(t, group) == stores' = [stores EXCEPT ![t] = group]

Store(t) ==
    \E s \in stores[t] :
        /\ mem' = [mem EXCEPT ![s[1]] = s[2]]
        /\ Writes(t, stores[t] \ {s})
        /\ UNCHANGED <<consecutive_touch_int, late, quiet, pc, short, count,
                       boosts, raced>>

Idle(t) == pc[t] = "idle"

-----------------------------------------------------------------------------
(* POWER_HINT_INTERACTION.                                                 *)

\* Mutant: a first touch does not stop the vsync boost.
FirstTouchStores_keep_boost == {<<"timer_set", 0>>, <<"touchboost_disable", 0>>,
                                <<"vsync_count", 0>>}

FirstTouchStores == {<<"vsync_boost", 0>>, <<"timer_set", 0>>,
                     <<"touchboost_disable", 0>>, <<"vsync_count", 0>>}

\* The clock is read and curr_time stored; the gap decides what follows.
TouchBegins ==
    /\ At("touch", "idle", "classify")
    /\ late' = FALSE
    /\ quiet' = FALSE
    /\ raced' = (raced \/ ~Idle("vsync"))

ShortTouch ==
    /\ TouchBegins
    /\ ~quiet
    /\ consecutive_touch_int < MaxTouches
    /\ consecutive_touch_int' = consecutive_touch_int + 1
    /\ short' = TRUE
    /\ UNCHANGED <<mem, stores, count, boosts>>

MediumTouch ==
    /\ TouchBegins
    /\ short' = FALSE
    /\ UNCHANGED <<mem, stores, consecutive_touch_int, count, boosts>>

\* A first touch that nothing overlaps heals what an earlier race did.
LongTouch ==
    /\ At("touch", "idle", "classify")
    /\ late' = FALSE
    /\ quiet' = FALSE
    /\ raced' = ~Idle("vsync")
    /\ consecutive_touch_int' = 0
    /\ short' = FALSE
    /\ Writes("touch", FirstTouchStores)
    /\ UNCHANGED <<mem, count, boosts>>

TouchLocals == <<mem, consecutive_touch_int, late, quiet, short, count, boosts,
                 raced>>

\* Mutant: the touch boost is disabled on every short gap.
ReadDisable_always ==
    /\ At("touch", "classify", "scroll")
    /\ Writes("touch", IF short THEN {<<"touchboost_disable", 1>>} ELSE {})
    /\ UNCHANGED TouchLocals

\* The fifth short gap disables the touch boost ...
ReadDisable ==
    /\ At("touch", "classify", "scroll")
    /\ Writes("touch", IF /\ short
                          /\ mem["touchboost_disable"] = 0
                          /\ consecutive_touch_int > 4
                       THEN {<<"touchboost_disable", 1>>} ELSE {})
    /\ UNCHANGED TouchLocals

\* ... the sixteenth lowers the timer rate ...
ReadScroll ==
    /\ At("touch", "scroll", "pulse")
    /\ Writes("touch", IF /\ mem["touchboost_disable"] = 1
                          /\ consecutive_touch_int > 15
                          /\ mem["timer_set"] = 0
                       THEN {<<"timer_set", 1>>} ELSE {})
    /\ UNCHANGED TouchLocals

\* ... and the touch pulse, on which nothing depends, ends the handler.
TouchEnds ==
    /\ At("touch", "pulse", "idle")
    /\ UNCHANGED <<TouchLocals, stores>>

-----------------------------------------------------------------------------
(* POWER_HINT_VSYNC.                                                       *)

\* The first load of touchboost_disable.
VsyncBegins ==
    /\ At("vsync", "idle",
          IF mem["touchboost_disable"] = 1 THEN "clock" ELSE "boost")
    /\ raced' = (raced \/ ~Idle("touch"))
    /\ UNCHANGED <<mem, consecutive_touch_int, late, quiet, stores, short,
                   count, boosts>>

\* vsync_time = clock(): enough time may have passed since curr_time.
ReadClock ==
    /\ At("vsync", "clock", "release")
    /\ late' \in IF quiet THEN {TRUE} ELSE BOOLEAN
    /\ quiet' = late'
    /\ UNCHANGED <<mem, consecutive_touch_int, stores, short, count, boosts,
                   raced>>

\* Mutant: a release adds to what is left of the one before it.
ReleaseStores_add == {<<"timer_set", 0>>, <<"vsync_boost", 1>>,
    <<"touchboost_disable", 0>>, <<"vsync_count", mem["vsync_count"] + VSYNC_BOOST_COUNT>>}

ReleaseStores == {<<"timer_set", 0>>, <<"vsync_boost", 1>>,
                  <<"touchboost_disable", 0>>, <<"vsync_count", VSYNC_BOOST_COUNT>>}

\* diff is computed from the curr_time of this moment: a touch that came
\* after the clock was read has cleared late.
Release ==
    /\ At("vsync", "release", "boost")
    /\ Writes("vsync", IF late THEN ReleaseStores ELSE {})
    /\ boosts' = IF late THEN 0 ELSE boosts
    /\ UNCHANGED <<mem, consecutive_touch_int, late, quiet, short, count, raced>>

VsyncLocals == <<mem, consecutive_touch_int, late, quiet, stores, short, raced>>

\* The loads of vsync_boost and vsync_count, two steps.
ReadBoost ==
    /\ At("vsync", "boost", IF mem["vsync_boost"] = 1 THEN "count" ELSE "idle")
    /\ UNCHANGED <<VsyncLocals, count, boosts>>

ReadCount(data) ==
    /\ At("vsync", "count",
          IF data = 1 /\ mem["vsync_count"] > 0 THEN "pulse" ELSE "idle")
    /\ UNCHANGED <<VsyncLocals, count, boosts>>

\* The pulse is a system call; vsync_count is loaded again after it.
Pulse ==
    /\ At("vsync", "pulse", "decrement")
    /\ boosts' = boosts + 1
    /\ count' = mem["vsync_count"]
    /\ UNCHANGED VsyncLocals

Decrement ==
    /\ At("vsync", "decrement", "spent")
    /\ Writes("vsync", {<<"vsync_count", count - 1>>})
    /\ UNCHANGED <<mem, consecutive_touch_int, late, quiet, short, count,
                   boosts, raced>>

\* The handler ends when the boost is spent.
VsyncEnds ==
    /\ At("vsync", "spent", "idle")
    /\ mem["vsync_count"] # 0
    /\ count' = 0
    /\ UNCHANGED <<VsyncLocals, boosts>>

Disarm ==
    /\ At("vsync", "spent", "disarmed")
    /\ mem["vsync_count"] = 0
    /\ Writes("vsync", {<<"vsync_boost", 0>>})
    /\ count' = 0
    /\ UNCHANGED <<mem, consecutive_touch_int, late, quiet, short, boosts, raced>>

Disarmed ==
    /\ At("vsync", "disarmed", "idle")
    /\ UNCHANGED <<VsyncLocals, count, boosts>>

Next ==
    \/ \E t \in Threads : Store(t)
    \/ ShortTouch \/ MediumTouch \/ LongTouch
    \/ ReadDisable \/ ReadScroll \/ TouchEnds
    \/ VsyncBegins \/ ReadClock \/ Release \/ ReadBoost
    \/ \E data \in 0..1 : ReadCount(data)
    \/ Pulse \/ Decrement \/ VsyncEnds \/ Disarm \/ Disarmed

Spec == Init /\ [][Next]_vars

-----------------------------------------------------------------------------
(* Properties.                                                             *)

\* The race lets the countdown fall to -1, and no further.
TypeOK ==
    /\ mem["touchboost_disable"] \in 0..1
    /\ mem["timer_set"] \in 0..1
    /\ mem["vsync_boost"] \in 0..1
    /\ mem["vsync_count"] \in -1..VSYNC_BOOST_COUNT
    /\ consecutive_touch_int \in 0..MaxTouches
    /\ late \in BOOLEAN /\ quiet \in BOOLEAN /\ short \in BOOLEAN
    /\ raced \in BOOLEAN
    /\ pc["touch"] \in {"idle", "classify", "scroll", "pulse"}
    /\ pc["vsync"] \in {"idle", "clock", "release", "boost", "count", "pulse",
                        "decrement", "spent", "disarmed"}
    /\ \A t \in Threads : stores[t] \subseteq Shared \X (-1..VSYNC_BOOST_COUNT)
    /\ count \in 0..VSYNC_BOOST_COUNT
    /\ boosts \in Nat

\* However touch and vsync hints interleave, a release is followed by at most
\* VSYNC_BOOST_COUNT vsync pulses before the next one.
BudgetSurvivesRace == boosts <= VSYNC_BOOST_COUNT

\* The race may end a disabled touch boost early but never disables it: it is
\* off only in a sequence of more than 4 short gaps.
RaceNeverDisablesTouch ==
    Idle("touch") /\ mem["touchboost_disable"] = 1 => consecutive_touch_int > 4

\* Flag and countdown apart, a lowered timer without a scroll, a negative
\* count: all that the race leaves behind is gone after the next first touch
\* that no vsync hint overlaps.
FirstTouchHeals ==
    ~raced /\ Idle("touch") /\ Idle("vsync") =>
        /\ mem["vsync_boost"] = 1 <=> mem["vsync_count"] > 0
        /\ mem["vsync_count"] >= 0
        /\ mem["timer_set"] = 1 =>
               mem["touchboost_disable"] = 1 /\ consecutive_touch_int > 15
=============================================================================
