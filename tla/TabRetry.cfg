SPECIFICATION ClientSpec
CONSTANTS
    Chats = {"s1", "s2"}
    Initial = "s1"
    NoChat = "none"
    SendBound = 2
    DeltaBound = 2
    LoadBound = 1
    GenBound = 2
INVARIANT RetryIsOffered
CHECK_DEADLOCK FALSE
