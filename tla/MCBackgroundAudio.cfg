SPECIFICATION Spec

CONSTANTS
    a = a
    b = b
    u = u
    v = v
    s1 = s1
    s2 = s2
    Proc = {a, b}
    Uid = {u, v}
    UidOf <- OwnUids
    ThirdParty = {a}
    Session = {s1, s2}
    OwnerOf <- MCOwnerOf
    NoProc = NoProc
    Environments <- CalmAndRacing

INVARIANTS
    ForegroundAudible
    BackgroundSilenced

PROPERTIES
    HoldersSpared
