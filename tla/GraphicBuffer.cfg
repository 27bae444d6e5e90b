CONSTANTS
    Callers = {o1, o2}
    Handles = {h1, h2}
    MaxWidth = 1
    NULL = NULL
SPECIFICATION Spec
INVARIANTS RecordsAreCurrent MissedOnlyByReuse ReleasedOnceAsMade NoDanglingHandle NothingElseLost SizeHasHandle FenceHandled
SYMMETRY Symmetry
