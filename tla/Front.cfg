\* One agent user, whose session nobody shares; two people and one case;
\* pieces of a few bytes instead of thousands.  A run of sessions ends at its
\* bounds, an input once it was judged.
SPECIFICATION FSpec
CONSTANTS
    ChunkBytes = 5
    Context = 3
    WindowBytes = 4
    Overlap = 1
    WidestChar = 2
    InfoTypes = {"PERSON_NAME", "PHONE_NUMBER"}
    MaskCharacters = 2
    RaiKinds = {"hate_speech"}
    GridRows = 2
    Shared = ""
    MostPassages = 2
    DefaultTopK = 1
    DocTags <- MCDocTags
    DirectoryTags <- MCDirectoryTags
    Users = {"ana"}
    MaxTurns <- MCMaxTurns
    MaxRounds = 2
    People = {"pat", "sam"}
    Cases = {"c"}
    NoCase = ""
    MaxIds = 2
    MaxMessages = 2
CHECK_DEADLOCK FALSE
INVARIANTS
    RemoteCallers Views ReviewedTenants CutsHideNothing WindowsMissNothing
    UniqueAnchors BestEvidence StrictPolicy HonestEvaluation EntitledDoors
    TypeOK AuditNeverUnderstates AllowedRecordsPair HistoryIsOwn
