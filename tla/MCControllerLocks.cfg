SPECIFICATION Spec

CONSTANTS
    a = a
    b = b
    sa = sa
    sb = sb
    Proc = {a, b}
    Session = {sa}
    Controller = {c1, c2}
    NoProc = NoProc
    NoSession = NoSession
    NoController = NoController
    OwnerOf <- MCOwnerOf
    Allowed = {"param"}

PROPERTIES
    ReleaseEnds

CHECK_DEADLOCK FALSE
