SPECIFICATION FairSpec
CONSTANTS
    t1 = t1
    t2 = t2
    Tasks = {t1, t2}
    QueueSize = 2
    Situations <- MCSituations
INVARIANTS StreamRuns Cleaned
PROPERTIES OwnAnswers NoLateExecution CallsGetThrough
CHECK_DEADLOCK FALSE
