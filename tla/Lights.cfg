\* Two threads open, close and set lights while an LED write may fail.
CONSTANTS
    Threads = {t1, t2}
    NoThread = NoThread
    Names = {"notifications", "battery", "backlight"}
    LightStates <- MCLightStates
    InitSysfs <- MCInitSysfs
    Faulty <- MCFaulty
    MaxDevices = 1
SPECIFICATION Spec
INVARIANTS TypeOK MutexNeverReset ArbitrationShown CleanCallRepairs NeverBlinkAndGlow
PROPERTIES LockReleased ImplementsSharedLed
