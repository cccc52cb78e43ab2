CONSTANTS
    timers = timers
    notices = notices
    Sources = {timers, notices}
    MaxOccurrences <- MCMaxOccurrences
    MaxEvents <- MCMaxEvents
    Intents = {i1, i2, i3, i4, i5}
    Transitions = {t1, t2, t3}
    MaxRequest = 3
    Unknown = Unknown
    None = None
SYMMETRY Alike
SPECIFICATION Spec
INVARIANT RefusalsHalt
CHECK_DEADLOCK FALSE
