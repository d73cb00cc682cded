SPECIFICATION Spec
CONSTANTS
    Ids = {d1}
    Keys = {k1, k2}
    IdKeys = {k1}
    Topics = {t1}
    E4_TOPICS_MAX = 3
    Zero = Zero
    Magic = Magic
    Absent = Absent
    Path = Path
    InitFiles <- MCNoFile
    MaxFaults = 1
INVARIANTS
    RekeyCrashSafe
    TableCrashConfined
    UniqueWithoutFaults
PROPERTIES
    DurableAfterOk
