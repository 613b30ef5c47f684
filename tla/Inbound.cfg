SPECIFICATION Spec
CONSTANTS
    Kinds = {"poll", "longpoll", "feishu", "dingtalk"}
    Senders = {s1, s2}
    Workers = {w1, w2}
    MaxUpd = 2
    MaxDeliver = 2
    MaxRestarts = 2
    DedupMax = 1
    MaxPrompts = 1
INVARIANTS
    TypeOK
    RoutedOnce
    NothingVanishes
CHECK_DEADLOCK FALSE
