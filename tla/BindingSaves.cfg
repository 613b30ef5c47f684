SPECIFICATION Spec
CONSTANTS
    Kinds = {"feishu", "wechat", "dingtalk", "telegram"}
    MaxCreds = 3
    MaxDrivers = 2
    MaxRequests = 2
    MaxCrashes = 1
    Budget = 1
    Slots = {s1, s2}
PROPERTY SavingBinds
CHECK_DEADLOCK FALSE
