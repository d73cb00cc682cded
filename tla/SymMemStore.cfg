SPECIFICATION Spec
CONSTANTS
    Ids = {d1, d2}
    Keys = {k1, k2}
    Topics = {t1, t2}
    E4_TOPICS_MAX = 3
    Zero = Zero
INVARIANTS
    TypeOK
    TopicsUnique
    CtrlTopicOfId
PROPERTIES
    RefinesKeyMap
    CallsRefineKeyMap
