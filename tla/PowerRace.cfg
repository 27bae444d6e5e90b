\* Seventeen short gaps lie past both limits of the touch counter.
CONSTANT MaxTouches = 17
SPECIFICATION Spec
INVARIANTS BudgetSurvivesRace RaceNeverDisablesTouch FirstTouchHeals
