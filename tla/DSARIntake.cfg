SPECIFICATION Spec
CONSTANTS
    stable = stable
    doubtful = doubtful
    fresh1 = fresh1
    fresh2 = fresh2
    none = none
    ada = ada
    t1 = t1
    t2 = t2
    loop = loop
    Ids = {stable, doubtful, fresh1, fresh2}
    NoId = none
    Terms = {ada}
    KindOf <- MCKind
    TermOf <- MCTerm
    Suspicious = {doubtful}
    DirectTerms = {ada}
    FreshIds = {fresh1, fresh2}
    Files = {1, 2}
    Topic <- MCTopic
    RequestOf <- MCRequest
    Broken = {2}
    Threads = {t1, t2}
    Loop = loop
    Modes = {"push", "pull", "agent"}
    MaxDrops = 2
    MaxRequests = 3
    MaxCrashes = 1
    MaxFaults = 1
    MaxAudit = 30
    MaxAside = 30
INVARIANTS
    TypeOK
    ExecutedOnce
    AnswerOnRecord
PROPERTIES
    SerialService
    FilesDelivered
    FilesProgress
    LockReleased
CHECK_DEADLOCK FALSE
