SPECIFICATION ClientSpec
CONSTANTS
    Ids = {d1, d2}
    TopicKeys = {k1}
    SecKeys = {s1, s2, s3}
    PubKeys = {p1, p2}
    C2Keys = {c1}
    Topics = {t1}
    E4_TOPICS_MAX = 1
    E4_DEVICES_MAX = 2
    SyncResults = {"E4_RESULT_OK"}
    Zero = Zero
    Client = d1
    FirstSecKey = s1
    C2Key = c1
    Builds = {TRUE}
    Options = {{}, {"IGNORE_TIMESTAMP"}}
    RealTime = 1
    RTCDates = {0, 1, 2}
    E4C_TIME_FUTURE = 1
    E4C_TIME_TOO_OLD = 1
    MaxTime = 3
    MaxMsgs = 3
INVARIANTS
    RevokedGone
