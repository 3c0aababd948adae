\* One user, plain and other names, and two lives of a server.
SPECIFICATION Spec
CONSTANTS
    Names <- MCNames
    Files <- MCFiles
    Texts <- MCTexts
    Radix = 3
    Digits = 1
    MaxId = 4
    MaxLives = 2
    MaxTold = 2
INVARIANTS
    UploadIntact
    OwnResult
    StringsArrive
PROPERTIES
    CommandsDoAsTheySay
