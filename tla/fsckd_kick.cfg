CONSTANTS
    c1 = c1
    c2 = c2
    Clients <- MCClients
    MsgUnits = 2
    Progress <- MCProgress
    MaxMsgs = 2
    AcceptResults <- MCAcceptOk
    ListenFds <- MCListenActivated
    ArgvResults <- MCArgvRun
SPECIFICATION Spec
\* The daemon exits on its idle timeout and the clients finish.
CHECK_DEADLOCK FALSE
PROPERTY KickOnlyWhenStuck
