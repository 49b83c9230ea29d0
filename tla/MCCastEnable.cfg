SPECIFICATION Spec

CONSTANTS
    p1 = p1
    p2 = p2
    Pid = {p1, p2}
    Self = Self
    Environments <- MCEnvironments
    MaxThreads = 2

INVARIANTS
    EnabledServed
    DiscoveryCounted

PROPERTIES
    DisabledIsReleased
