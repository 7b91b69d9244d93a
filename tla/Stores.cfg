SPECIFICATION StoresSpec
CONSTANTS
    Turns = {t1, t2}
    Requests = {r1}
    Replays = 1
    Items = {i1, i2}
    Writers = {m1, m2}
    Worker = worker
    MinInputs = 1
    DevCount = 1
    DevSuccess = 1
    StableCount = 2
    StableSuccess = 2
    DemoteFailures = 2
    StableNetFailures = 1
    Edits = {"archive", "pin", "touch", "supersede"}
    Begun = 3
    Epochs = 1
    loop = loop
    agent = agent
    GoalIds = {g1, g2}
    Titles = {title}
    Cycling = {c1, c2}
    Tooling = {tool}
    GoalThreads = {loop, agent}
    ThreadOf <- OneLoop
    Full = 2
    Again = 2
    Processes = {w1, w2}
    Names = {n1}
    Values = {v1, v2}
    Limit = 8
    Statements = 3
    Entities = {1, 2}
    TurnCount = 2
    Starts = 2
    Lessons = {l1}
    Ceiling = 2
    Low = 1
SYMMETRY Symmetry
INVARIANTS
    
    RowsAreEarned
    
    
    
    
    LearningAgrees
PROPERTY
    MarksStay
CHECK_DEADLOCK FALSE
