SPECIFICATION Spec

CONSTANTS
    n1 = n1
    n2 = n2
    next = next
    super = super
    Net = {n1, n2}
    NoNet = NoNet
    Scene = {next, super}
    NoScene = NoScene
    MaxSockets = 3
    Environments <- MCEnvironments

INVARIANTS
    RefsCounted
    ProxyTold
    IdleClosed
    ServerReaches
    ServerAccepts
