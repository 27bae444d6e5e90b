\* Ten-millisecond grains: every threshold is met exactly, missed and passed,
\* and the clock wraps.
CONSTANTS
    ClockMax = 120
    CpuTicks = {10}
    MaxTouches = 17
SPECIFICATION Spec
INVARIANTS BoostBudget StagesNested
