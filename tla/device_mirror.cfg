CONSTANTS
    d1 = d1  d2 = d2  u1 = u1  u2 = u2  u3 = u3
    s1 = s1  s2 = s2  n1 = n1  n2 = n2  l1 = l1  l2 = l2
    NoPath = NoPath  NotAPath = NotAPath  NoUnit = NoUnit  NoName = NoName
    Devices <- MCDevices
    DeviceOrder <- MCDeviceOrder
    Paths <- MCPaths
    Syspath <- MCSyspath
    Devnode <- MCDevnode
    Devlinks <- SharedDevlinks
    Alias <- SharedAlias
    Units <- MCUnits
    Preloaded <- NodePreload
    MaxQueue = 3
SPECIFICATION Spec
INVARIANT DeviceUnitsMirrorDevices
