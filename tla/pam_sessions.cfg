CONSTANTS
    l1 = l1
    l2 = l2
    l3 = l3
    Logins <- MCLogins
    AuditChoices <- MCAuditChoices
    Services <- MCServices
    MaxCounter = 2
    RandomValues <- MCRandomValues
    Master = Master
    Outside = Outside
    Root = Root
    Unborn = Unborn
    Dead = Dead
    NoId = NoId
    NoLogin = NoLogin
SPECIFICATION Spec
\* Every login ends closed or failed and every process exits.
CHECK_DEADLOCK FALSE
INVARIANT TypeOK
INVARIANT SessionIdsDistinct
INVARIANT RuntimeDirWhileOpen
PROPERTY CloseKillsOnlyOwnSession
