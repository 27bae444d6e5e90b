\* The constructor without mLock.
CONSTANTS
    Callers = {c1, c2}
    Nobody = Nobody
    Ops = {"list"}
    LinkMayFail = FALSE
    MaxIncarnation = 2
SPECIFICATION CtorSpec
INVARIANT NeverCrashes
