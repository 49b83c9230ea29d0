SPECIFICATION Spec

CONSTANTS
    u1 = u1
    u2 = u2
    a = a
    b = b
    c = c
    m = m
    main = main
    a1 = a1
    a2 = a2
    b1 = b1
    c1 = c1
    m1 = m1
    m2 = m2
    NoSession = NoSession
    NoProc = NoProc
    All = All
    User = {u1, u2}
    Proc = {a, b}
    Ability = {main}
    Session = {a1, a2, b1}
    SESSION_NUM_MAX = 1
    PidOf <- MCPidOf
    AbilityOf <- MCAbilityOf
    TypeOf <- MCOneCall
    HomeUser <- MCHomeUser
    BundleOf <- MCBundleOf
    SystemProc = {}
    AncoProc = {}
    Background = {}
    ControlBundle = {}
    Windows = {"select", "account", "die"}
    Mortal = {a}
    CastSession = {}
    KeySession = {}
    AccountEvents = {"switched"}
    MaxCalls = 2

INVARIANTS
    ContainersAgree
PROPERTIES
    NotReawakened
