--------------------------- MODULE PowerHintProofs --------------------------
(***************************************************************************)
(* The stages and the vsync budget of the power HAL for every clock width, *)
(* every advance of the clock and any number of touches.                   *)
(***************************************************************************)
EXTENDS PowerHint, TLAPS

\* The countdown, the budget and the nesting of the stages are inductive
\* together with the types.
Inv == TypeOK /\ BoostIffCountdown /\ BoostBudget /\ StagesNested

\* clock() stays in its range.
LEMMA WrapInRange ==
    ASSUME NEW x \in Int
    PROVE  Wrap(x) \in Clock
<1>1. ClockMax \in Int /\ ClockMax > 0
  BY ClockAssumption
<1>2. (x + ClockMax) % (2 * ClockMax) \in 0 .. 2 * ClockMax - 1
  BY <1>1
<1> QED BY <1>1, <1>2 DEF Wrap, Clock

\* The HAL starts with nothing armed.
LEMMA InvInit == Init => Inv
<1> SUFFICES ASSUME Init PROVE Inv
  OBVIOUS
<1>1. ClockMax \in Int /\ ClockMax > 0
  BY ClockAssumption
<1> QED
  BY <1>1, TouchesAssumption
  DEF Init, Inv, TypeOK, BoostIffCountdown, BoostBudget, StagesNested, Clock,
      VSYNC_BOOST_COUNT

\* Every hint and every advance of the clock keeps the invariant.
LEMMA InvStep == Inv /\ [Next]_vars => Inv'
<1> SUFFICES ASSUME Inv, [Next]_vars PROVE Inv'
  OBVIOUS
<1> USE DEF Inv, TypeOK, BoostIffCountdown, BoostBudget, StagesNested
<1>1. CASE UNCHANGED vars
  BY <1>1 DEF vars, flags, statics
<1>2. ASSUME NEW d \in CpuTicks, Advance(d) PROVE Inv'
  <2>1. clk' \in Clock
    BY <1>2, WrapInRange, TicksAssumption DEF Advance, Clock
  <2> QED BY <1>2, <2>1 DEF Advance, flags, statics
<1>3. CASE ShortTouch
  BY <1>3, TouchesAssumption DEF ShortTouch, Classify
<1>4. CASE MediumTouch
  BY <1>4, TouchesAssumption DEF MediumTouch, Classify
<1>5. CASE LongTouch
  BY <1>5, TouchesAssumption DEF LongTouch, Classify, VSYNC_BOOST_COUNT
<1>6. ASSUME NEW data \in 0..1, ReleaseVsync(data) PROVE Inv'
  BY <1>6 DEF ReleaseVsync, Countdown, VSYNC_BOOST_COUNT
<1>7. ASSUME NEW data \in 0..1, Vsync(data) PROVE Inv'
  BY <1>7 DEF Vsync, Countdown, VSYNC_BOOST_COUNT
<1> QED
  BY <1>1, <1>2, <1>3, <1>4, <1>5, <1>6, <1>7 DEF Next, intel_power_hint

\* The invariant holds in every state.
LEMMA Invariant == Spec => []Inv
BY InvInit, InvStep, PTL DEF Spec

\* For every clock and any sequence of hints: no more vsync pulses between
\* two finger releases than the budget.
THEOREM BudgetKept == Spec => []BoostBudget
BY Invariant, PTL DEF Inv

\* The timer rate is lowered only with the touch boost off, and both only
\* after as many short gaps as intel_power_hint asks for.
THEOREM StagesAreNested == Spec => []StagesNested
BY Invariant, PTL DEF Inv
=============================================================================
