SPECIFICATION Spec

CONSTANTS
    u1 = u1
    u2 = u2
    a = a
    b = b
    c = c
    m = m
    main = main
    a1 = a1
    a2 = a2
    b1 = b1
    c1 = c1
    m1 = m1
    m2 = m2
    NoSession = NoSession
    NoProc = NoProc
    All = All
    User = {u1}
    Proc = {a, b}
    Ability = {main}
    Session = {a1, a2, b1}
    SESSION_NUM_MAX = 2
    PidOf <- MCPidOf
    AbilityOf <- MCAbilityOf
    TypeOf <- MCOnePhoto
    HomeUser <- MCHomeUser
    BundleOf <- MCBundleOf
    SystemProc = {}
    AncoProc = {b}
    Background = {}
    ControlBundle = {}
    Windows = {}
    Mortal = {a}
    CastSession = {b1}
    KeySession = {a1}
    AccountEvents = {"switched"}
    MaxCalls = 1

INVARIANTS
    TypeOK
    TopRegistered
    FrontIffPresentable
    CriticalIffSessions
