SPECIFICATION Spec
CONSTANTS
    Key = {1, 2}
    Stream = {1, 2}
    StreamKey <- MCStreamKey
    Ignored = {}
    NonMedia = {2}
    PlayingUsage = {1}
    Coalesced = FALSE
INVARIANTS
    TypeOK
    ResumeCancels
    StopIsPending
    Deterministic
PROPERTY
    StopReported
