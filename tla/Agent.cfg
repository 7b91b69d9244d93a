SPECIFICATION FairSpec
CONSTANTS
    t1 = t1
    t2 = t2
    v1 = v1
    Ticks = {t1, t2}
    Writers = {v1}
    StampBound = 2
    TaskBound = 2
    MaxTasks = 1
    MaxStm = 2
    StmKeep = 2
    Threshold = 2
    FaultBound = 1
INVARIANTS NothingSkipped  TaskStartedOnce
PROPERTIES NoLateStart 
