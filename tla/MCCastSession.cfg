SPECIFICATION Spec

CONSTANTS
    s1 = s1
    s2 = s2
    d1 = d1
    d2 = d2
    Session = {s1, s2}
    NoSession = NoSession
    Device = {d1, d2}
    Local = Local
    MaxSlots = 2
    MaxTasks = 3
    Environments <- MCEnvironments

CHECK_DEADLOCK FALSE

INVARIANTS
    NoneLeaks
    HandleServed
    OutputAgrees

PROPERTIES
    DevicesExclusive
    SwitchEnds
