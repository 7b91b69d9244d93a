SPECIFICATION ChatTurnSpec
CONSTANTS
    Turns = {t1, t2, t3, t4}
    AuditTurns = {t2, t4}
    StreamTurns = {t1, t3}
    NoTurn = NoTurn
    Asked <- OneCap
    Correcting = {t1, t2, t3, t4}
    Fallible <- MCFallible
    Budgets <- MCBudgets
    ToolRounds = 1
    Variants = 2
    Attempts <- MCAttempts
    LoneTurns = {t3, t4}
    LoneFallible = {"memory", "model", "learning", "bias", "event"}
    Messages <- MCMessages
    Signals <- MCSignals
    Writers = {w1, w2}
    Modes = {"neutral", "cautious", "focused"}
    StreakRequired = 2
    Keys = {"k1"}
    TurnOutcomes = {"success", "failure"}
    CallBound = 2
    FaultBound = 1
    Chats = {"s1", "s2"}
    Initial = "s1"
    NoChat = "none"
    SendBound = 2
    DeltaBound = 2
    LoadBound = 1
    GenBound = 2
SYMMETRY Symmetry
CHECK_DEADLOCK FALSE
INVARIANTS
    ContextStaysOwn
    
    
    WebIsGrounded
    ModelIsBounded
    DecisionHolds
    
    TabIsInOrder
PROPERTY
    TabIsSilent
