SPECIFICATION Spec
CONSTANTS
    Handle = {"front", "other", "late"}
    none = "none"
    UserConfig <- MCUserConfig
    kMaxSourceLidar = 2
    MaxInfo <- MCMaxInfo
INVARIANTS
    SamplingMeansConfigured
    NoForgottenBit
    EntriesDistinct
PROPERTIES
    ConfigCompletes
CHECK_DEADLOCK FALSE
