\* createEventQueue when the service dies under it.
CONSTANTS
    Callers = {c1, c2}
    Nobody = Nobody
    Ops = {"queue"}
    LinkMayFail = FALSE
    MaxIncarnation = 2
SPECIFICATION Spec
PROPERTY LockReleased
