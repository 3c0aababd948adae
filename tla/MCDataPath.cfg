\* A payload of up to nine tokens, parsed, run and sent on.
SPECIFICATION PathSpec
CONSTANTS
    Names = {"a", "1", "01", "2", "3", "4", "5", "6", "7", "8", "9"}
    Literals = {"a", "1", "01", "null", "1234567"}
    Scalars = {"null", "1234567", "1.23457e+06"}
    MaxTokens = 9
    MaxHops = 2
    NumberOf <- MCNumberOf
    NumberText <- MCNumberText
    SixDigits <- MCSixDigits
INVARIANTS
    StackFollowsBrackets
    ParsesJson
    PrintsJson
    NothingElseLost
PROPERTIES
    StableWithoutNull
