SPECIFICATION Spec

CONSTANTS
    u = u
    v = v
    s1 = s1
    s2 = s2
    All = All
    NoStack = NoStack
    User = {u, v}
    Session = {s1, s2}
    OwnerOf <- MCOwnerOf
    MaxTasks = 2

PROPERTIES
    EmptyReclaimed
