CONSTANTS
    Names <- MCNames
    ConfigFiles <- MCConfigFiles
    Cmdlines <- MCCmdlines
    Argvs <- MCArgvs
    Units <- MCUnits
    Junk = Junk
    NoArg = NoArg
    NoConsole = NoConsole
    NoVerb = NoVerb
    MaxGenerations = 2
    Clients = {c1, c2}
    NoMessage = NoMessage
    MaxCalls = 2
    EventVerbs = {"reboot"}
SPECIFICATION Spec
INVARIANT TypeOK
INVARIANT ReexecCarriesSettings
INVARIANT ReloadReplyAfterReload
PROPERTY RequestsAnswered
CHECK_DEADLOCK FALSE
