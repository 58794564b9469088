SPECIFICATION Spec
CONSTANTS
    h1 = h1
    h2 = h2
    n1 = n1
    a1 = a1
    a2 = a2
    f1 = f1
    Handlers <- MCHandlers
    Namespaces <- MCNamespaces
    Accounts <- MCAccounts
    Names <- MCNames
    PreExisting = PreExisting
    Absent = Absent
SYMMETRY Symmetry
INVARIANT CreatedStaysDeployable
CHECK_DEADLOCK FALSE
