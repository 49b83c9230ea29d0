SPECIFICATION Spec

CONSTANTS
    u1 = u1
    u2 = u2
    a = a
    b = b
    c = c
    m = m
    main = main
    a1 = a1
    a2 = a2
    b1 = b1
    c1 = c1
    m1 = m1
    m2 = m2
    NoSession = NoSession
    NoProc = NoProc
    All = All
    User = {u1, u2}
    Proc = {a, c}
    Ability = {main}
    Session = {a1, c1}
    SESSION_NUM_MAX = 2
    PidOf <- MCPidOf
    AbilityOf <- MCAbilityOf
    TypeOf <- MCAllAudio
    HomeUser <- MCHomeUser
    BundleOf <- MCBundleOf
    SystemProc = {}
    AncoProc = {}
    Background = {c}
    ControlBundle = {}
    Windows = {"die"}
    Mortal = {c}
    CastSession = {}
    KeySession = {a1}
    AccountEvents = {"switched", "removed"}
    MaxCalls = 1

INVARIANTS
    UsersIsolated
    ListsRegistered

PROPERTIES
    TopIsolation
    DeathCleared
