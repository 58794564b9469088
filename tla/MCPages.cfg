\* Two files with two contents, one foreign push, two loads and one save; two
\* namespaces with one resource each, two rows, two calls that navigate.
SPECIFICATION PagesSpec
CONSTANTS
    Paths = {p1, p2}
    Contents = {c1, c2}
    Absent = Absent
    None = None
    Handler = p1
    FuncYaml = p2
    Folders <- MCFolders
    MaxForeign = 1
    MaxLoads = 2
    MaxSaves = 1
    MaxAway = 2
    Users = {u1, u2}
    Nobody = Nobody
    Namespaces = {n1, n2}
    Resources = {r}
    Keys = {n1, n2}
    KeysOf <- MCKeysOf
    VarNames = {v, bad}
    ValidNames = {v}
    Blank = Blank
    MaxRows = 2
SYMMETRY Symmetry
INVARIANTS PagesTypeOK BaselineOnBranch CleanShowsBranch
PROPERTIES LoadsNeverGoBack SaveKeepsUnloaded BackLosesNothing
    SubmitsWhatIsShown
CHECK_DEADLOCK FALSE
