CONSTANTS
    q1 = q1
    q2 = q2
    q3 = q3
    c1 = c1
    c2 = c2
    Requests <- MCRequests
    Conns <- MCConns
    Categories = {1, 2, 3}
    Menus = {11, 12, 13, 14}
    Options = {21, 22}
    ChoiceRows = {31, 32}
    Catalogues <- MCCatalogues
    LockTimeout = 1
    WorkBudget = 2
SYMMETRY Symmetry
SPECIFICATION Spec
INVARIANTS
    OrderKept
PROPERTIES
    AppendedLast
    LockLeftOnlyByOverrun
CHECK_DEADLOCK FALSE
