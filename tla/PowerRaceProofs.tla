--------------------------- MODULE PowerRaceProofs --------------------------
(***************************************************************************)
(* What the race of a touch and a vsync hint can do to the flags and the   *)
(* countdown of the power HAL, for every interleaving of their loads and   *)
(* stores and any number of hints.                                         *)
(***************************************************************************)
EXTENDS PowerRace, TLAPS

\* The places of the two handlers.
Places == {"idle", "classify", "scroll", "pulse", "clock", "release", "boost",
           "count", "decrement", "spent", "disarmed"}

Types ==
    /\ mem \in [Shared -> Int]
    /\ pc \in [Threads -> Places]
    /\ stores \in [Threads -> SUBSET (Shared \X Int)]
    /\ consecutive_touch_int \in Nat
    /\ count \in Int
    /\ boosts \in Nat

\* The stores that may be left to make at each place of a handler.
TouchGroups ==
    /\ pc["touch"] \in {"idle", "classify", "scroll", "pulse"}
    /\ pc["touch"] = "idle" => stores["touch"] = {}
    /\ pc["touch"] = "classify" => stores["touch"] \subseteq FirstTouchStores
    /\ pc["touch"] = "scroll" => stores["touch"] \subseteq {<<"touchboost_disable", 1>>}
    /\ pc["touch"] = "pulse" => stores["touch"] \subseteq {<<"timer_set", 1>>}

VsyncGroups ==
    /\ pc["vsync"] \in {"idle", "clock", "release", "boost", "count", "pulse",
                        "decrement", "spent", "disarmed"}
    /\ pc["vsync"] \notin {"boost", "spent", "disarmed"} => stores["vsync"] = {}
    /\ pc["vsync"] = "boost" => stores["vsync"] \subseteq ReleaseStores
    /\ pc["vsync"] = "spent" => stores["vsync"] \subseteq {<<"vsync_count", count - 1>>}
    /\ pc["vsync"] = "disarmed" => stores["vsync"] \subseteq {<<"vsync_boost", 0>>}

\* The countdown and the pulses made add up to no more than the budget, but
\* between a pulse and the store of its decrement, where the pulse counts
\* already and the countdown does not yet.
CountInv ==
    /\ mem["vsync_count"] <= VSYNC_BOOST_COUNT
    /\ boosts <= VSYNC_BOOST_COUNT
    /\ pc["vsync"] = "boost" /\ <<"vsync_count", VSYNC_BOOST_COUNT>> \in stores["vsync"] =>
           boosts = 0
    /\ pc["vsync"] \notin {"decrement", "spent"} =>
           boosts + mem["vsync_count"] <= VSYNC_BOOST_COUNT
    /\ pc["vsync"] = "pulse" => boosts < VSYNC_BOOST_COUNT
    /\ pc["vsync"] \in {"decrement", "spent"} =>
           /\ boosts + count - 1 <= VSYNC_BOOST_COUNT
           /\ boosts + mem["vsync_count"] - 1 <= VSYNC_BOOST_COUNT
    /\ pc["vsync"] = "spent" /\ stores["vsync"] = {} =>
           boosts + mem["vsync_count"] <= VSYNC_BOOST_COUNT

\* The touch boost is off only after more than 4 short gaps, or while a first
\* touch is about to turn it on again.
DisableInv ==
    /\ mem["touchboost_disable"] = 1 =>
           \/ consecutive_touch_int > 4
           \/ <<"touchboost_disable", 0>> \in stores["touch"]
    /\ <<"touchboost_disable", 1>> \in stores["touch"] => consecutive_touch_int > 4

\* What FirstTouchHeals asks of the shared variables.
TimerHealthy ==
    mem["timer_set"] = 1 => mem["touchboost_disable"] = 1 /\ consecutive_touch_int > 15
Healthy ==
    /\ mem["vsync_boost"] = 1 <=> mem["vsync_count"] > 0
    /\ mem["vsync_count"] >= 0
    /\ TimerHealthy

\* Store s of thread t is still to make, or made and not undone.
Made(t, s) == s \in stores[t] \/ mem[s[1]] = s[2]

\* Where a touch or a vsync hint that nothing overlaps leaves the variables
\* on its way.
TouchHeals ==
    /\ pc["touch"] = "classify" =>
          \/ stores["touch"] = {} /\ Healthy
          \/ /\ \A s \in FirstTouchStores : Made("touch", s)
             /\ consecutive_touch_int = 0
    /\ pc["touch"] = "scroll" => Healthy
    /\ pc["touch"] = "pulse" =>
          /\ Healthy
          /\ stores["touch"] # {} =>
                mem["touchboost_disable"] = 1 /\ consecutive_touch_int > 15

VsyncHeals ==
    /\ pc["vsync"] \in {"clock", "release", "count", "pulse", "decrement"} => Healthy
    /\ pc["vsync"] = "boost" =>
          \/ stores["vsync"] = {} /\ Healthy
          \/ \A s \in ReleaseStores : Made("vsync", s)
    /\ pc["vsync"] \in {"pulse", "decrement"} => mem["vsync_count"] > 0
    /\ pc["vsync"] = "decrement" => count = mem["vsync_count"]
    /\ pc["vsync"] = "spent" =>
          /\ count >= 1 /\ mem["vsync_boost"] = 1 /\ TimerHealthy
          /\ Made("vsync", <<"vsync_count", count - 1>>)
    /\ pc["vsync"] = "disarmed" =>
          /\ mem["vsync_count"] = 0 /\ TimerHealthy
          /\ Made("vsync", <<"vsync_boost", 0>>)

HealInv ==
    ~raced =>
        /\ pc["touch"] = "idle" \/ pc["vsync"] = "idle"
        /\ pc["touch"] = "idle" /\ pc["vsync"] = "idle" => Healthy
        /\ TouchHeals
        /\ VsyncHeals

IInv ==
    /\ Types
    /\ TouchGroups /\ VsyncGroups
    /\ CountInv
    /\ DisableInv
    /\ HealInv

\* No hint is under way at first and nothing is armed.
LEMMA InvInit == Init => IInv
BY DEF Init, IInv, Types, TouchGroups, VsyncGroups, CountInv, DisableInv,
       HealInv, TouchHeals, VsyncHeals, Healthy, TimerHealthy, Made, Shared,
       Threads, Places, VSYNC_BOOST_COUNT

\* A touch after a short gap begins.
LEMMA ShortTouchStep ==
    ASSUME IInv, ShortTouch
    PROVE  IInv'
<1> USE DEF IInv, Types, Places, Threads, Shared, VSYNC_BOOST_COUNT, At, Writes,
            Idle, TouchBegins, TouchLocals, ShortTouch
<1>1. Types'
  OBVIOUS
<1>2. TouchGroups'
  BY DEF TouchGroups
<1>3. VsyncGroups'
  BY DEF VsyncGroups
<1>4. CountInv'
  BY DEF VsyncGroups, CountInv
<1>5. DisableInv'
  BY DEF TouchGroups, DisableInv
<1>6. HealInv'
  <2> SUFFICES ASSUME ~raced' PROVE HealInv'
    BY DEF HealInv
  <2>1. ~raced /\ pc["vsync"] = "idle" /\ pc["touch"] = "idle"
    OBVIOUS
  <2>2. Healthy'
    BY <2>1 DEF HealInv, Healthy, TimerHealthy
  <2>3. pc'["touch"] = "classify" /\ pc'["vsync"] = "idle" /\ stores'["touch"] = {}
    BY <2>1
  <2> QED
    BY <2>2, <2>3 DEF HealInv, TouchHeals, VsyncHeals
<1> QED BY <1>1, <1>2, <1>3, <1>4, <1>5, <1>6

\* A touch after a medium gap begins.
LEMMA MediumTouchStep ==
    ASSUME IInv, MediumTouch
    PROVE  IInv'
<1> USE DEF IInv, Types, Places, Threads, Shared, VSYNC_BOOST_COUNT, At, Writes,
            Idle, TouchBegins, TouchLocals, MediumTouch
<1>1. Types'
  OBVIOUS
<1>2. TouchGroups'
  BY DEF TouchGroups
<1>3. VsyncGroups'
  BY DEF VsyncGroups
<1>4. CountInv'
  BY DEF VsyncGroups, CountInv
<1>5. DisableInv'
  BY DEF TouchGroups, DisableInv
<1>6. HealInv'
  BY DEF TouchGroups, VsyncGroups, HealInv, TouchHeals, VsyncHeals, Healthy,
         TimerHealthy, Made
<1> QED BY <1>1, <1>2, <1>3, <1>4, <1>5, <1>6

\* A first touch begins: from here on it heals.
LEMMA LongTouchStep ==
    ASSUME IInv, LongTouch
    PROVE  IInv'
<1> USE DEF IInv, Types, Places, Threads, Shared, VSYNC_BOOST_COUNT, At, Writes,
            Idle, TouchBegins, TouchLocals, LongTouch, FirstTouchStores
<1>1. Types'
  OBVIOUS
<1>2. TouchGroups'
  BY DEF TouchGroups
<1>3. VsyncGroups'
  BY DEF VsyncGroups
<1>4. CountInv'
  BY DEF VsyncGroups, CountInv
<1>5. DisableInv'
  BY DEF TouchGroups, DisableInv
<1>6. HealInv'
  BY DEF TouchGroups, VsyncGroups, HealInv, TouchHeals, VsyncHeals, Healthy,
         TimerHealthy, Made
<1> QED BY <1>1, <1>2, <1>3, <1>4, <1>5, <1>6

\* A touch looks whether to turn the touch boost off.
LEMMA ReadDisableStep ==
    ASSUME IInv, ReadDisable
    PROVE  IInv'
<1> USE DEF IInv, Types, Places, Threads, Shared, VSYNC_BOOST_COUNT, At, Writes,
            Idle, TouchBegins, TouchLocals, ReadDisable
<1>1. Types'
  OBVIOUS
<1>2. TouchGroups'
  BY DEF TouchGroups
<1>3. VsyncGroups'
  BY DEF VsyncGroups
<1>4. CountInv'
  BY DEF VsyncGroups, CountInv
<1>5. DisableInv'
  BY DEF TouchGroups, DisableInv
<1>6. HealInv'
  <2> SUFFICES ASSUME ~raced' PROVE HealInv'
    BY DEF HealInv
  <2>1. ~raced /\ pc["touch"] = "classify" /\ pc["vsync"] = "idle" /\ stores["touch"] = {}
    BY DEF HealInv
  <2>2. CASE Healthy
    <3>1. Healthy'
      BY <2>2 DEF Healthy, TimerHealthy
    <3> QED
      BY <2>1, <3>1 DEF HealInv, TouchHeals, VsyncHeals
  <2>3. CASE \A s \in FirstTouchStores : Made("touch", s)
    <3>1. /\ mem["vsync_boost"] = 0 /\ mem["vsync_count"] = 0 /\ mem["timer_set"] = 0
      BY <2>1, <2>3 DEF Made, FirstTouchStores
    <3>2. Healthy'
      BY <3>1 DEF Healthy, TimerHealthy
    <3> QED
      BY <2>1, <3>2 DEF HealInv, TouchHeals, VsyncHeals
  <2> QED
    BY <2>1, <2>2, <2>3 DEF HealInv, TouchHeals
<1> QED BY <1>1, <1>2, <1>3, <1>4, <1>5, <1>6

\* A touch looks whether to lower the timer rate.
LEMMA ReadScrollStep ==
    ASSUME IInv, ReadScroll
    PROVE  IInv'
<1> USE DEF IInv, Types, Places, Threads, Shared, VSYNC_BOOST_COUNT, At, Writes,
            Idle, TouchBegins, TouchLocals, ReadScroll
<1>1. Types'
  OBVIOUS
<1>2. TouchGroups'
  BY DEF TouchGroups
<1>3. VsyncGroups'
  BY DEF VsyncGroups
<1>4. CountInv'
  BY DEF VsyncGroups, CountInv
<1>5. DisableInv'
  BY DEF TouchGroups, DisableInv
<1>6. HealInv'
  BY DEF TouchGroups, VsyncGroups, HealInv, TouchHeals, VsyncHeals, Healthy,
         TimerHealthy, Made
<1> QED BY <1>1, <1>2, <1>3, <1>4, <1>5, <1>6

\* A touch hint ends.
LEMMA TouchEndsStep ==
    ASSUME IInv, TouchEnds
    PROVE  IInv'
<1> USE DEF IInv, Types, Places, Threads, Shared, VSYNC_BOOST_COUNT, At, Writes,
            Idle, TouchBegins, TouchLocals, TouchEnds
<1>1. Types'
  OBVIOUS
<1>2. TouchGroups'
  BY DEF TouchGroups
<1>3. VsyncGroups'
  BY DEF VsyncGroups
<1>4. CountInv'
  BY DEF VsyncGroups, CountInv
<1>5. DisableInv'
  BY DEF TouchGroups, DisableInv
<1>6. HealInv'
  BY DEF TouchGroups, VsyncGroups, HealInv, TouchHeals, VsyncHeals, Healthy,
         TimerHealthy, Made
<1> QED BY <1>1, <1>2, <1>3, <1>4, <1>5, <1>6

\* A vsync hint begins.
LEMMA VsyncBeginsStep ==
    ASSUME IInv, VsyncBegins
    PROVE  IInv'
<1> USE DEF IInv, Types, Places, Threads, Shared, VSYNC_BOOST_COUNT, At, Writes,
            Idle, VsyncLocals, VsyncBegins
<1>1. Types'
  OBVIOUS
<1>2. TouchGroups'
  BY DEF TouchGroups
<1>3. VsyncGroups'
  BY DEF VsyncGroups
<1>4. CountInv'
  BY DEF VsyncGroups, CountInv
<1>5. DisableInv'
  BY DEF TouchGroups, DisableInv
<1>6. HealInv'
  BY DEF TouchGroups, VsyncGroups, HealInv, TouchHeals, VsyncHeals, Healthy,
         TimerHealthy, Made
<1> QED BY <1>1, <1>2, <1>3, <1>4, <1>5, <1>6

\* A vsync hint reads the clock.
LEMMA ReadClockStep ==
    ASSUME IInv, ReadClock
    PROVE  IInv'
<1> USE DEF IInv, Types, Places, Threads, Shared, VSYNC_BOOST_COUNT, At, Writes,
            Idle, VsyncLocals, ReadClock
<1>1. Types'
  OBVIOUS
<1>2. TouchGroups'
  BY DEF TouchGroups
<1>3. VsyncGroups'
  BY DEF VsyncGroups
<1>4. CountInv'
  BY DEF VsyncGroups, CountInv
<1>5. DisableInv'
  BY DEF TouchGroups, DisableInv
<1>6. HealInv'
  BY DEF TouchGroups, VsyncGroups, HealInv, TouchHeals, VsyncHeals, Healthy,
         TimerHealthy, Made
<1> QED BY <1>1, <1>2, <1>3, <1>4, <1>5, <1>6

\* A vsync hint finds the finger released: a new budget.
LEMMA ReleaseStep ==
    ASSUME IInv, Release
    PROVE  IInv'
<1> USE DEF IInv, Types, Places, Threads, Shared, VSYNC_BOOST_COUNT, At, Writes,
            Idle, VsyncLocals, Release, ReleaseStores
<1>1. Types'
  OBVIOUS
<1>2. TouchGroups'
  BY DEF TouchGroups
<1>3. VsyncGroups'
  BY DEF VsyncGroups
<1>4. CountInv'
  BY DEF VsyncGroups, CountInv
<1>5. DisableInv'
  BY DEF TouchGroups, DisableInv
<1>6. HealInv'
  BY DEF TouchGroups, VsyncGroups, HealInv, TouchHeals, VsyncHeals, Healthy,
         TimerHealthy, Made
<1> QED BY <1>1, <1>2, <1>3, <1>4, <1>5, <1>6

\* A vsync hint loads vsync_boost.
LEMMA ReadBoostStep ==
    ASSUME IInv, ReadBoost
    PROVE  IInv'
<1> USE DEF IInv, Types, Places, Threads, Shared, VSYNC_BOOST_COUNT, At, Writes,
            Idle, VsyncLocals, ReadBoost
<1>1. Types'
  OBVIOUS
<1>2. TouchGroups'
  BY DEF TouchGroups
<1>3. VsyncGroups'
  BY DEF VsyncGroups
<1>4. CountInv'
  BY DEF VsyncGroups, CountInv
<1>5. DisableInv'
  BY DEF TouchGroups, DisableInv
<1>6. HealInv'
  <2> SUFFICES ASSUME ~raced' PROVE HealInv'
    BY DEF HealInv
  <2>1. ~raced /\ pc["vsync"] = "boost" /\ pc["touch"] = "idle" /\ stores["vsync"] = {}
    BY DEF HealInv
  <2>2. CASE Healthy
    <3>1. Healthy'
      BY <2>2 DEF Healthy, TimerHealthy
    <3> QED
      BY <2>1, <3>1 DEF HealInv, TouchHeals, VsyncHeals
  <2>3. CASE \A s \in ReleaseStores : Made("vsync", s)
    <3>1. /\ mem["vsync_boost"] = 1 /\ mem["vsync_count"] = 4 /\ mem["timer_set"] = 0
      BY <2>1, <2>3 DEF Made, ReleaseStores
    <3>2. Healthy'
      BY <3>1 DEF Healthy, TimerHealthy
    <3> QED
      BY <2>1, <3>2 DEF HealInv, TouchHeals, VsyncHeals
  <2> QED
    BY <2>1, <2>2, <2>3 DEF HealInv, VsyncHeals
<1> QED BY <1>1, <1>2, <1>3, <1>4, <1>5, <1>6

\* A vsync hint loads vsync_count.
LEMMA ReadCountStep ==
    ASSUME IInv, NEW data \in 0..1, ReadCount(data)
    PROVE  IInv'
<1> USE DEF IInv, Types, Places, Threads, Shared, VSYNC_BOOST_COUNT, At, Writes,
            Idle, VsyncLocals, ReadCount
<1>1. Types'
  OBVIOUS
<1>2. TouchGroups'
  BY DEF TouchGroups
<1>3. VsyncGroups'
  BY DEF VsyncGroups
<1>4. CountInv'
  BY DEF VsyncGroups, CountInv
<1>5. DisableInv'
  BY DEF TouchGroups, DisableInv
<1>6. HealInv'
  BY DEF TouchGroups, VsyncGroups, HealInv, TouchHeals, VsyncHeals, Healthy,
         TimerHealthy, Made
<1> QED BY <1>1, <1>2, <1>3, <1>4, <1>5, <1>6

\* The pulse, and the second load of vsync_count.
LEMMA PulseStep ==
    ASSUME IInv, Pulse
    PROVE  IInv'
<1> USE DEF IInv, Types, Places, Threads, Shared, VSYNC_BOOST_COUNT, At, Writes,
            Idle, VsyncLocals, Pulse
<1>1. Types'
  OBVIOUS
<1>2. TouchGroups'
  BY DEF TouchGroups
<1>3. VsyncGroups'
  BY DEF VsyncGroups
<1>4. CountInv'
  BY DEF VsyncGroups, CountInv
<1>5. DisableInv'
  BY DEF TouchGroups, DisableInv
<1>6. HealInv'
  BY DEF TouchGroups, VsyncGroups, HealInv, TouchHeals, VsyncHeals, Healthy,
         TimerHealthy, Made
<1> QED BY <1>1, <1>2, <1>3, <1>4, <1>5, <1>6

\* The decrement that is about to be stored.
LEMMA DecrementStep ==
    ASSUME IInv, Decrement
    PROVE  IInv'
<1> USE DEF IInv, Types, Places, Threads, Shared, VSYNC_BOOST_COUNT, At, Writes,
            Idle, VsyncLocals, Decrement
<1>1. Types'
  OBVIOUS
<1>2. TouchGroups'
  BY DEF TouchGroups
<1>3. VsyncGroups'
  BY DEF VsyncGroups
<1>4. CountInv'
  BY DEF VsyncGroups, CountInv
<1>5. DisableInv'
  BY DEF TouchGroups, DisableInv
<1>6. HealInv'
  BY DEF TouchGroups, VsyncGroups, HealInv, TouchHeals, VsyncHeals, Healthy,
         TimerHealthy, Made
<1> QED BY <1>1, <1>2, <1>3, <1>4, <1>5, <1>6

\* A vsync hint ends with the boost not spent.
LEMMA VsyncEndsStep ==
    ASSUME IInv, VsyncEnds
    PROVE  IInv'
<1> USE DEF IInv, Types, Places, Threads, Shared, VSYNC_BOOST_COUNT, At, Writes,
            Idle, VsyncLocals, VsyncEnds
<1>1. Types'
  OBVIOUS
<1>2. TouchGroups'
  BY DEF TouchGroups
<1>3. VsyncGroups'
  BY DEF VsyncGroups
<1>4. CountInv'
  BY DEF VsyncGroups, CountInv
<1>5. DisableInv'
  BY DEF TouchGroups, DisableInv
<1>6. HealInv'
  BY DEF TouchGroups, VsyncGroups, HealInv, TouchHeals, VsyncHeals, Healthy,
         TimerHealthy, Made
<1> QED BY <1>1, <1>2, <1>3, <1>4, <1>5, <1>6

\* The boost is spent.
LEMMA DisarmStep ==
    ASSUME IInv, Disarm
    PROVE  IInv'
<1> USE DEF IInv, Types, Places, Threads, Shared, VSYNC_BOOST_COUNT, At, Writes,
            Idle, VsyncLocals, Disarm
<1>1. Types'
  OBVIOUS
<1>2. TouchGroups'
  BY DEF TouchGroups
<1>3. VsyncGroups'
  BY DEF VsyncGroups
<1>4. CountInv'
  BY DEF VsyncGroups, CountInv
<1>5. DisableInv'
  BY DEF TouchGroups, DisableInv
<1>6. HealInv'
  BY DEF TouchGroups, VsyncGroups, HealInv, TouchHeals, VsyncHeals, Healthy,
         TimerHealthy, Made
<1> QED BY <1>1, <1>2, <1>3, <1>4, <1>5, <1>6

\* A vsync hint ends with the boost disarmed.
LEMMA DisarmedStep ==
    ASSUME IInv, Disarmed
    PROVE  IInv'
<1> USE DEF IInv, Types, Places, Threads, Shared, VSYNC_BOOST_COUNT, At, Writes,
            Idle, VsyncLocals, Disarmed
<1>1. Types'
  OBVIOUS
<1>2. TouchGroups'
  BY DEF TouchGroups
<1>3. VsyncGroups'
  BY DEF VsyncGroups
<1>4. CountInv'
  BY DEF VsyncGroups, CountInv
<1>5. DisableInv'
  BY DEF TouchGroups, DisableInv
<1>6. HealInv'
  BY DEF TouchGroups, VsyncGroups, HealInv, TouchHeals, VsyncHeals, Healthy,
         TimerHealthy, Made
<1> QED BY <1>1, <1>2, <1>3, <1>4, <1>5, <1>6

\* A touch hint makes one of its stores.
LEMMA TouchStores ==
    ASSUME IInv, Store("touch")
    PROVE  IInv'
<1> USE DEF IInv, Types, Places, Threads, Shared, VSYNC_BOOST_COUNT
<1>0. PICK s \in stores["touch"] :
        /\ mem' = [mem EXCEPT ![s[1]] = s[2]]
        /\ stores' = [stores EXCEPT !["touch"] = stores["touch"] \ {s}]
        /\ UNCHANGED <<consecutive_touch_int, pc, count, boosts, raced>>
  BY DEF Store, Writes
<1>a. s \in Shared \X Int
  OBVIOUS
<1>b. \/ pc["touch"] = "classify" /\ s \in FirstTouchStores
      \/ pc["touch"] = "scroll" /\ s = <<"touchboost_disable", 1>>
      \/ pc["touch"] = "pulse" /\ s = <<"timer_set", 1>>
  BY DEF TouchGroups
<1>1. Types'
  BY <1>0, <1>a
<1>2. TouchGroups'
  BY <1>0 DEF TouchGroups
<1>3. VsyncGroups'
  BY <1>0 DEF VsyncGroups
<1>4. CountInv'
  <2>1. mem'["vsync_count"] = mem["vsync_count"] \/ mem'["vsync_count"] = 0
    BY <1>0, <1>b DEF FirstTouchStores
  <2> QED BY <1>0, <2>1 DEF CountInv
<1>5. DisableInv'
  BY <1>0, <1>b DEF DisableInv, FirstTouchStores
<1>6. HealInv'
  <2> SUFFICES ASSUME ~raced' PROVE HealInv'
    BY DEF HealInv
  <2>1. ~raced /\ pc["vsync"] = "idle" /\ pc["touch"] # "idle"
    BY <1>0, <1>b DEF HealInv
  <2>2. TouchHeals'
    <3>1. CASE pc["touch"] = "classify"
      <4>1. /\ \A r \in FirstTouchStores : Made("touch", r)
            /\ consecutive_touch_int = 0
        BY <1>0, <2>1, <3>1 DEF HealInv, TouchHeals
      <4>2. \A r \in FirstTouchStores : Made("touch", r)'
        BY <1>0, <1>b, <3>1, <4>1 DEF Made, FirstTouchStores
      <4> QED
        BY <1>0, <3>1, <4>1, <4>2 DEF TouchHeals
    <3>2. CASE pc["touch"] = "scroll"
      BY <1>0, <1>b, <2>1, <3>2 DEF HealInv, TouchHeals, Healthy, TimerHealthy
    <3>3. CASE pc["touch"] = "pulse"
      BY <1>0, <1>b, <2>1, <3>3 DEF HealInv, TouchHeals, Healthy, TimerHealthy
    <3> QED BY <1>b, <3>1, <3>2, <3>3
  <2>3. VsyncHeals'
    BY <1>0, <2>1 DEF VsyncHeals
  <2> QED
    BY <1>0, <2>1, <2>2, <2>3 DEF HealInv
<1> QED BY <1>1, <1>2, <1>3, <1>4, <1>5, <1>6

\* A vsync hint makes one of its stores.
LEMMA VsyncStores ==
    ASSUME IInv, Store("vsync")
    PROVE  IInv'
<1> USE DEF IInv, Types, Places, Threads, Shared, VSYNC_BOOST_COUNT
<1>0. PICK s \in stores["vsync"] :
        /\ mem' = [mem EXCEPT ![s[1]] = s[2]]
        /\ stores' = [stores EXCEPT !["vsync"] = stores["vsync"] \ {s}]
        /\ UNCHANGED <<consecutive_touch_int, pc, count, boosts, raced>>
  BY DEF Store, Writes
<1>a. s \in Shared \X Int
  OBVIOUS
<1>b. \/ pc["vsync"] = "boost" /\ s \in ReleaseStores
      \/ pc["vsync"] = "spent" /\ s = <<"vsync_count", count - 1>>
      \/ pc["vsync"] = "disarmed" /\ s = <<"vsync_boost", 0>>
  BY DEF VsyncGroups
<1>1. Types'
  BY <1>0, <1>a
<1>2. TouchGroups'
  BY <1>0 DEF TouchGroups
<1>3. VsyncGroups'
  BY <1>0 DEF VsyncGroups
<1>4. CountInv'
  <2>1. CASE pc["vsync"] = "boost"
    BY <1>0, <1>b, <2>1 DEF CountInv, ReleaseStores
  <2>2. CASE pc["vsync"] = "spent"
    BY <1>0, <1>b, <2>2 DEF CountInv
  <2>3. CASE pc["vsync"] = "disarmed"
    BY <1>0, <1>b, <2>3 DEF CountInv
  <2> QED BY <1>b, <2>1, <2>2, <2>3
<1>5. DisableInv'
  BY <1>0, <1>b DEF DisableInv, ReleaseStores
<1>6. HealInv'
  <2> SUFFICES ASSUME ~raced' PROVE HealInv'
    BY DEF HealInv
  <2>1. ~raced /\ pc["touch"] = "idle" /\ pc["vsync"] # "idle"
    BY <1>0, <1>b DEF HealInv
  <2>2. VsyncHeals'
    <3>1. CASE pc["vsync"] = "boost"
      <4>1. \A r \in ReleaseStores : Made("vsync", r)
        BY <1>0, <2>1, <3>1 DEF HealInv, VsyncHeals
      <4>2. \A r \in ReleaseStores : Made("vsync", r)'
        BY <1>0, <1>b, <3>1, <4>1 DEF Made, ReleaseStores
      <4> QED
        BY <1>0, <3>1, <4>2 DEF VsyncHeals
    <3>2. CASE pc["vsync"] = "spent"
      BY <1>0, <1>b, <2>1, <3>2 DEF HealInv, VsyncHeals, TimerHealthy, Made
    <3>3. CASE pc["vsync"] = "disarmed"
      BY <1>0, <1>b, <2>1, <3>3 DEF HealInv, VsyncHeals, TimerHealthy, Made
    <3> QED BY <1>b, <3>1, <3>2, <3>3
  <2>3. TouchHeals'
    BY <1>0, <2>1 DEF TouchHeals
  <2> QED
    BY <1>0, <2>1, <2>2, <2>3 DEF HealInv
<1> QED BY <1>1, <1>2, <1>3, <1>4, <1>5, <1>6

\* Every step of either hint keeps the invariant.
LEMMA InvStep == IInv /\ [Next]_vars => IInv'
<1> SUFFICES ASSUME IInv, [Next]_vars PROVE IInv'
  OBVIOUS
<1>1. CASE UNCHANGED vars
  BY <1>1
  DEF vars, IInv, Types, TouchGroups, VsyncGroups, CountInv, DisableInv,
      HealInv, TouchHeals, VsyncHeals, Healthy, TimerHealthy, Made
<1>2. CASE \E t \in Threads : Store(t)
  BY <1>2, TouchStores, VsyncStores DEF Threads
<1>3. CASE \E data \in 0..1 : ReadCount(data)
  BY <1>3, ReadCountStep
<1> QED
  BY <1>1, <1>2, <1>3, ShortTouchStep, MediumTouchStep, LongTouchStep, ReadDisableStep,
     ReadScrollStep, TouchEndsStep, VsyncBeginsStep, ReadClockStep, ReleaseStep,
     ReadBoostStep, PulseStep, DecrementStep, VsyncEndsStep, DisarmStep, DisarmedStep
  DEF Next

\* The race invariant holds in every state.
LEMMA Invariant == Spec => []IInv
BY InvInit, InvStep, PTL DEF Spec

\* However the loads and stores of a touch and a vsync hint interleave, a
\* release is followed by at most VSYNC_BOOST_COUNT vsync pulses.
THEOREM BudgetSurvives == Spec => []BudgetSurvivesRace
<1>1. IInv => BudgetSurvivesRace
  BY DEF IInv, CountInv, BudgetSurvivesRace, VSYNC_BOOST_COUNT
<1> QED BY Invariant, <1>1, PTL

\* The race never turns the touch boost off: it is off only in a sequence of
\* more than 4 short gaps.
THEOREM TouchStaysOn == Spec => []RaceNeverDisablesTouch
<1>1. IInv => RaceNeverDisablesTouch
  BY DEF IInv, TouchGroups, DisableInv, RaceNeverDisablesTouch, Idle
<1> QED BY Invariant, <1>1, PTL

\* What the race leaves behind in the flags and the countdown is gone after
\* the next first touch that no vsync hint overlaps.
THEOREM TouchHealsRace == Spec => []FirstTouchHeals
<1>1. IInv => FirstTouchHeals
  BY DEF IInv, HealInv, Healthy, TimerHealthy, FirstTouchHeals, Idle
<1> QED BY Invariant, <1>1, PTL
=============================================================================
