\* Two repositories and two namespaces, one change of the cluster.
SPECIFICATION Spec
CONSTANTS
    Repos = {r1, r2}
    Namespaces = {n1, n2}
    Names = {f}
    All = All
    None = None
    MaxChanges = 1
SYMMETRY Symmetry
INVARIANTS DeployedShown MarksAreOfThisRequest
CHECK_DEADLOCK FALSE
