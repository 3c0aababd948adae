\* Two names and four libraries, two of which give themselves the same name.
SPECIFICATION Spec
CONSTANTS
    Names = {1, 2}
    Libraries = {"skeleton.so", "mongo.so", "other.so", "data.so"}
    Declares <- MCDeclares
    Tables <- MCTables
    NeedsUrl = {"mongo.so"}
    None = None
INVARIANTS
    FiledUnderOwnName
    RegistryFollowsConfig
    ServesWhatWasAsked
PROPERTIES
    ServesOrEnds
CHECK_DEADLOCK FALSE
