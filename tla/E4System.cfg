SPECIFICATION FairSpec
CONSTANTS
    Ids = {d1}
    Keys = {i1, i2, i3, k1, ka}
    IdKeys = {i1, i2, i3}
    Topics = {t1}
    E4_TOPICS_MAX = 2
    Zero = Zero
    Magic = Magic
    Absent = Absent
    Path = Path
    InitFiles = {}
    MaxFaults = 2
    Client = d1
    FirstIdKey = i1
    AppKey = ka
    MaxMsgs = 3
CHECK_DEADLOCK FALSE
INVARIANTS
    RestartOnChain
    TopicKeysFromC2
PROPERTIES
    RotationConverges
