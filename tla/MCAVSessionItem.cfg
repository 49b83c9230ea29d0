SPECIFICATION Spec

CONSTANTS
    c1 = c1
    c2 = c2
    title = title
    image = image
    state = state
    speed = speed
    Client = {c1, c2}
    COMMAND_SEND_NUM_MAX = 2
    TimerMayBlock = FALSE
    Value = {1, 2}
    NoValue = NoValue
    Default = 1
    Asset = {1, 2}
    NoAsset = NoAsset
    MetaKey = {title, image}
    Image = image
    PlaybackKey = {state, speed}
    Cmd = {play}
    Unknown = Unknown
    MaxCalls = 2
    MaxTasks = 1
    Environments <- MCEnvironments

INVARIANTS
    NothingStale

PROPERTIES
    QuietAfterEnd
    LimitLifted

CHECK_DEADLOCK FALSE
