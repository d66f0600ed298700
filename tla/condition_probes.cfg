CONSTANTS
    p1 = p1  k1 = k1  v1 = v1  kvm = kvm
    NoValue = NoValue  Unreadable = Unreadable  Unset = Unset  Undefined = Undefined
    CondPaths <- MCCondPaths
    Keys <- MCKeys
    Values <- MCValues
    Hypervisors <- MCHypervisors
    Hosts <- MCHosts
    HaveSelinux = TRUE
    Conditions <- ProbeConditions
    MaxConditions = 1
SPECIFICATION Spec
INVARIANT ProbeTestsMatchSpec
