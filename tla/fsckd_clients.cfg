CONSTANTS
    c1 = c1
    c2 = c2
    Clients <- MCClients
    MsgUnits = 2
    Progress <- MCProgress
    MaxMsgs = 1
    AcceptResults <- MCAcceptAll
    ListenFds <- MCListenFds
    ArgvResults <- MCArgvResults
SPECIFICATION Spec
\* The daemon exits on its idle timeout and the clients finish.
CHECK_DEADLOCK FALSE
INVARIANT TypeOK
INVARIANT DisplayNoStaleDevices
INVARIANT DisplayShowsSlowest
PROPERTY Termination
