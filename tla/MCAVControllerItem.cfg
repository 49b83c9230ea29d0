SPECIFICATION Spec

CONSTANTS
    a = a
    b = b
    sa = sa
    sb = sb
    Proc = {a, b}
    Session = {sa, sb}
    Controller = {c1, c2}
    NoProc = NoProc
    NoSession = NoSession
    NoController = NoController
    OwnerOf <- MCOwnerOf
    Allowed = {}

INVARIANTS
    DestroyedUnusable
    ControllersReachable
    ServiceForgets

PROPERTIES
    ReleaseEnds
    ClientsTold
