SPECIFICATION Spec
CONSTANTS
    Ids = {d1, d2}
    TopicKeys = {k1}
    SecKeys = {s1}
    PubKeys = {p1, p2}
    C2Keys = {c1}
    Topics = {t1}
    E4_TOPICS_MAX = 2
    E4_DEVICES_MAX = 3
    SyncResults = {"E4_RESULT_OK", "E4_ERROR_PERSISTENCE_ERROR"}
    Zero = Zero
PROPERTIES
    RemoveDeviceUnbinds
