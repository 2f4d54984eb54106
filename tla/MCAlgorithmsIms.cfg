CONSTANTS
    HTRuleCaseSense = TRUE
    LowerCase <- Itself
    Alphabets <- MCAlphabets
    MaxPattern = 5
    MaxText = 4
    Name = {"g", "u", "All", "Anybody", "basic", "Get", "Put", "Mask", "AuthType", "ACLOverride", "PasswordFile", "ServerId"}
    Member = {"g", "u", "All", "Anybody"}
    Template = {"t1", "t2"}
    Anybody = {"Anybody"}
    AllUsers = {"All"}
    MaxGroups = 2
    MaxItems = 2
    MaxMembers = 3
    None = None
    Segment = {"", ".", "..", "a", "dir"}
    OneLetter = {"a"}
    MaxSegments = 5
    MaxRelated = 4
    Suffix <- MCSuffix
    DefaultType <- Plain
    MULTI_SUFFIX <- MC_MULTI
    WelcomeNames <- MCWelcome
    Object = {1, 2, 3, 4}
    MaxElements = 6
    MaxListed = 2
    MaxReply = 3
    MaxFields = 3
    BeginsWith <- MCBeginsWith
    Attribute <- MCAttribute
    MaxEvents = 5
    MaxRaw = 4
    BUFFER_SIZE = 8
    Tag <- MCTag
    Empty <- MCEmpty
    PRE <- MCPRE
    Attr <- MCAttr
    Entity <- MCEntity
    Alnum <- MCAlnum
    MaxLines = 3
    MaxCharacters = 4
    SAMPLE_SIZE = 3
    FieldKind <- MCFieldKind
    Scheme = {"basic"}
    Yes = {"g"}
    User <- MCUser
    UserGroup <- MCUserGroup
    MaxSettings = 3
    MaxRules = 3
    MaxEntries = 3
    Coordinate = {1, 3, 5}
    Radius = {2}
    MaxPoints = 4
    MaxTotal = 3
    MaxAnchors = 3
    MaxLinks = 2
    InProxy = FALSE
    Time = {1}
    MaxPieces = 5
    MaxCommands = 3
    NoValue = NoValue
    MaxPairs = 2
    MaxValues = 2
    MaxUnits = 9
    Limit = 2
SPECIFICATION Spec
INVARIANT UnmodifiedTold
CHECK_DEADLOCK FALSE
