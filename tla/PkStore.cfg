SPECIFICATION Spec
CONSTANTS
    Ids = {d1}
    TopicKeys = {k1, k2}
    SecKeys = {s1, s2}
    PubKeys = {p1}
    C2Keys = {c1, c2}
    Topics = {t1, t2}
    E4_TOPICS_MAX = 2
    E4_DEVICES_MAX = 2
    SyncResults = {"E4_RESULT_OK"}
    Zero = Zero
INVARIANTS
    TypeOK
    SecretMatchesKeys
PROPERTIES
    CallsRefineKeyMap
