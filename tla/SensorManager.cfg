\* Every call, restarts at every step, refused links.
CONSTANTS
    Callers = {c1, c2}
    Nobody = Nobody
    Ops = {"list", "default", "queue"}
    LinkMayFail = TRUE
    MaxIncarnation = 3
SPECIFICATION Spec
INVARIANTS CacheCoherent NoticeIsForCurrentServer DeadServerNoticed NeverCrashes
PROPERTY ListCallsEnd
