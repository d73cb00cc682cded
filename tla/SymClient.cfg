SPECIFICATION Spec
CONSTANTS
    Ids = {d1}
    Client = d1
    Keys = {i1, i2, i3, k1, ka}
    IdKeys = {i1, i2, i3}
    FirstIdKey = i1
    AppKey = ka
    Topics = {t1, t2}
    E4_TOPICS_MAX = 1
    Zero = Zero
    Builds = {TRUE, FALSE}
    Options = {FALSE, TRUE}
    RealTime = 1
    RTCDates = {0, 2}
    E4C_TIME_FUTURE = 1
    E4C_TIME_TOO_OLD = 0
    MaxTime = 3
    MaxMsgs = 3
SYMMETRY MCSymmetry
VIEW MCView
INVARIANTS
    KeysFromC2
    RotationChain
    RotationOnce
    RollbackBounded
PROPERTIES
    ClockNeverBack
