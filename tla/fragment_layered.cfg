CONSTANTS
    D1 = D1  D2 = D2  O = O  a = a  b = b  c = c  null = null
    u1 = u1  u2 = u2  u3 = u3
    h1 = h1  h2 = h2  h3 = h3  h4 = h4  h5 = h5  h6 = h6  h7 = h7  h8 = h8
    NoUnit = NoUnit  NoName = NoName  NoPath = NoPath
    Dirs <- MCDirs
    Outside = O
    UnitNames <- MCUnitNames
    NameOrder <- MCNameOrder
    Units <- MCUnits
    Requests <- MCRequests
    OtherNames = {null}
    FSChoices <- LayeredFS
SYMMETRY UnitSymmetry
SPECIFICATION Spec
CHECK_DEADLOCK FALSE
INVARIANT TypeOK
INVARIANT AliasesExact
INVARIANT FragmentFromFirstDir
