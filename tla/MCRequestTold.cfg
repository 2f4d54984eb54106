SPECIFICATION MCSpec
CONSTANTS
    Null = Null
    None = Null
    Identity = Identity
    NoEqv = Identity
    Path <- Paths
    UserDir = {}
    Bare = {}
    Home <- MCHome
    ScriptName <- MCScriptName
    PathInfo <- MCPathInfo
    WithSlash <- MCSlash
    Acl <- MCAcl
    Welcome = {"dir"}
    AlwaysWelcome = TRUE
    Requests <- MCRequests
    ArgPath <- MCArgPath
    Dotted = {"dots"}
    WithKeywords = {"find"}
    Rule <- MCRule
    Remote = {"remote"}
    NoHead = {}
    Files <- MCFiles
    ErrorUrls = {401}
    Disabled = {"LINK"}
    SearchScript = "finder"
    MethodScript <- MCMethodScript
    Nph = {"nph-poster"}
    Moves = {"secret", "cgi", "remote", "dots"}
    DoSetuid = TRUE
    SystemUsers = {"ann"}
    NoConnect = TRUE
    PipeSize = 1
    MaxOutput = 2
    MaxHops = 2
    Tokens <- MCTokens
    SlashWords = {}
    Method <- AllMethods
    Kilo = 4
    CacheKilo = 5
    IntSize = 512
    RuleFile = {"one", "two"}
    RULE_FILE = "one"
    DEFAULT_EXPORT = "public"
    Options <- MCOptions
    Line <- MCLine
    MaxLines = 3
    MaxEdits = 1
    MaxReloads = 1
INVARIANT ExistenceUntold
CHECK_DEADLOCK FALSE
