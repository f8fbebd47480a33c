CONSTANTS
    Tasks = {t1, t2, t3, t4}
    Sessions = {s1, s2}
    Entries = {e1, e2}
    None = None
    Nobody = Nobody
SPECIFICATION FairSpec
INVARIANT RegistryExact
PROPERTIES
    FirstComeFirstServed
    ImplementsMutex
    WaitersServed
