SPECIFICATION Spec
CONSTANTS
    Ids = {d1}
    Keys = {k1, k2}
    IdKeys = {}
    Topics = {t1}
    E4_TOPICS_MAX = 3
    Zero = Zero
    Magic = Magic
    Absent = Absent
    Path = Path
    InitFiles <- MCNoFile
    MaxFaults = 1
INVARIANTS
    RemovedIsGone
