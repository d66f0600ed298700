CONSTANTS
    p1 = p1  k1 = k1  v1 = v1  kvm = kvm
    NoValue = NoValue  Unreadable = Unreadable  Unset = Unset  Undefined = Undefined
    CondPaths <- MCCondPaths
    Keys <- MCKeys
    Values <- MCValues
    Hypervisors <- MCHypervisors
    Hosts <- MCHosts
    HaveSelinux = TRUE
    Conditions <- AllConditions
    MaxConditions = 2
SPECIFICATION Spec
INVARIANT TypeOK
INVARIANT ListMatchesSpec
