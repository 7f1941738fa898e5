SPECIFICATION FairSpec
CONSTANTS
    Tasks = {t1, t2}
    MaxId = 2
    Capacity <- MCSmallQueues
    Chatter <- MCAll
    MaxTransacts = 2
    MaxConn = 2
    MaxSent = 2
    MaxInbox = 2
INVARIANTS TypeOK Registrations OneTransport CleanClose LossesAccounted
PROPERTIES Serves Releases Progress
