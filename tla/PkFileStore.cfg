SPECIFICATION FileSpec
CONSTANTS
    Ids = {d1, d2}
    TopicKeys = {k1}
    SecKeys = {s1}
    PubKeys = {p1, p2}
    C2Keys = {c1}
    Topics = {t1, t2}
    E4_TOPICS_MAX = 2
    E4_DEVICES_MAX = 2
    SyncResults = {"pending", "E4_ERROR_PERSISTENCE_ERROR"}
    Zero = Zero
    Magic = Magic
    Absent = Absent
    Garbage = Garbage
    Path = Path
    SelfIds = {d1}
    SelfKeys = {p1}
    MaxFaults = 1
    MaxCalls = 3
INVARIANTS
    SoundUnlessMisloaded
    RekeyCrashSafe
    TableCrashConfined
PROPERTIES
    DurableAfterOk
