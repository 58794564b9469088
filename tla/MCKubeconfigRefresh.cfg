\* Two edits of a repository whose credential nears its end.
SPECIFICATION Spec
CONSTANTS
    Edits = {e1, e2}
    Unset = Unset
    MaxTime = 5
    Grants = {1, 4, 6}
    Flags <- MCFlags
    Empty = Empty
    Malformed = Malformed
    Refused = Refused
    Words = 256
    Second = 2
    Day = 12
    Default = 6
SYMMETRY Symmetry
INVARIANT LateOnlyAfterOverlap
PROPERTY PushesOnLiveCredential
CHECK_DEADLOCK FALSE
