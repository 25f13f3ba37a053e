\* A policy section with a mistyped switch.
SPECIFICATION FSpec
CONSTANTS
    ChunkBytes = 5
    Context = 3
    WindowBytes = 4
    Overlap = 1
    WidestChar = 2
    InfoTypes = {"PERSON_NAME", "PHONE_NUMBER"}
    MaskCharacters = 2
    RaiKinds = {"hate_speech"}
    GridRows = 2
    Shared = ""
    MostPassages = 2
    DefaultTopK = 1
    DocTags <- MCDocTags
    DirectoryTags <- MCDirectoryTags
    Users = {"ana"}
    MaxTurns <- MCMaxTurns
    MaxRounds = 2
    People = {"pat", "sam"}
    Cases = {"c"}
    NoCase = ""
    MaxIds = 2
    MaxMessages = 2
CHECK_DEADLOCK FALSE
INVARIANT MalformedNeverLoosens
