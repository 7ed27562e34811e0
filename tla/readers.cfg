SPECIFICATION Spec
CONSTANTS
    Null = Null
    \* the policy location and the engine
    Dimensions = {"operation_effect", "environment"}
    Values = {"Update", "Production"}
    RuleIds = {"r1", "r2"}
    BundleIds = {"b1"}
    MaxBundles = 2
    MaxEffectiveRules = 3
    Files = {1, 2, 3, 4}
    Links = {4}
    Catalogue <- BundleCatalogue
    Damaged = Damaged
    MaxBundleFiles = 2
    MaxEdits = 2
    \* configuration files
    SettingValues = {"/r", "/s", "r", "/long", "/other", "local"}
    Absolute = {"/r", "/s", "/long", "/other"}
    Unicode = {"/r", "/s", "r", "/long", "local"}
    Long = {"/long"}
    Labels = {"local"}
    MaxLines = 4
    \* the pipeline
    Kinds = {"git.status", "git.push", "patch.update_file"}
    Envelopes <- Calls
    Reading <- CallReading
    Digest <- CallDigest
    Sessions = {"s1"}
    Nothing = Null
    Policies <- CallPolicies
    Places = {"Local"}
    Refusals = {"EffectUnsupported", "PathTooLong"}
    Contexts <- CallContexts
    MaxCalls = 2
    \* patch documents of six lines and two operations
    FileNames = {"f", "g", "h"}
    Drives = {"C:"}
    ColonNames = {"x:y"}
    Lines <- DocumentLines
    MaxPatchLines = 6
    MaxPatchOperations = 2
    MaxPatchPath = 3
    \* git commands of seven words
    Words = {"git", "status", "log", "diff", "push", "-c", "--stat", "-s",
             "--cached", "--", "", "f", "f:g"}
    Dashed = {"-c", "--stat", "-s", "--", "--cached"}
    Colons = {"f:g"}
    MaxPathOperands = 2
    MaxWords = 7
    \* envelopes of five fields, each limit within their reach
    Strings = {"hook_event_name", "tool_name"}
    Paths = {"cwd", "transcript_path"}
    Nullable = {"transcript_path"}
    KeyTexts = {"hook_event_name", "tool_name", "tool_input", "cwd",
                "transcript_path", "long"}
    FieldTexts <- EnvelopeFields
    Texts <- EnvelopeTexts
    Size <- EnvelopeSize
    Blanks = {" "}
    MaxTokens = 29
    MaxName = 1
    MaxIdentifier = 2
    MaxPath = 3
    MaxString = 3
    MaxMembers = 2
    MaxElements = 1
    MaxDepth = 3
    MaxValues = 8
    \* strings with code points on both sides of every boundary of the surrogates
    Plain = {31, 97}
    Quads = {55295, 55296, 56319, 56320, 57344}
    MaxSymbols = 7
    Maximum = 5
    \* commands of five characters; the limits are within reach of them
    Literals = {"a"}
    MaxInput = 5
    MaxCommand = 4
    MaxShellTokens = 1
    MaxToken = 2
    \* bundles of two rules and one too many, each value in turn out of its pattern
    Lower = {"a", "b"}
    Upper = {"A"}
    Digits = {"1"}
    Others = {" "}
    MaxIdentifierLength = 6
    MaxNameLength = 5
    MaxVersionLength = 7
    HeaderTexts <- BundleHeaders
    RuleTexts <- BundleRules
    Rank <- BundleRanks
    NameDimensions = {"operation_kinds"}
    EnumDimensions = {"environments"}
    Members = {"local", "test"}
    EnumTexts = {"local", "test", "here"}
    Absent = Null
    LeftOut = LeftOut
    Prose <- BundleProse
    CharsIn <- ProseChars
    BytesIn <- ProseBytes
    MaxKey = 2
    MaxRuleTexts = 3
    MaxSet = 2
    MaxAlternatives = 2
    MaxText = 2
    MaxPrefix = 2
    MaxRules = 2
    \* a leap year and the one after it at the end of each kind of century
    Years = {1970, 2000, 2004, 2099, 2100, 2399, 2400}
    Seconds = {0, 3599, 86399}
    MaxDays = 430
    \* objects of three members, with strings that try to leave their quotes
    WriterTexts <- OddTexts
    WriterLists <- OddLists
    WriterKeys <- OddKeys
    MaxWritten = 3
    \* commands that allow, deny or are killed, and overrun time and pipes
    Timeout = 2
    PipeSize = 2
    ExitCodes = {"0", "2", "signal"}
INVARIANTS
    PatchIsGrammar
    PatchIsCovered
    WordsAreLiteral
    OperandsAreExact
    EnvelopeIsStrict
    LimitsAreExact
    ToolInputIsWhole
    DecodesUtf16
    ConfigurationIsWhole
    BundleIsWhole
    UntouchedBundlesLoaded
    SingleEditIsAtomic
    AnswersBlameTheCulprit
    RecordsReconcile
    WritesTheCalendar
    ReadsBack
    ProbesTellTheTruth
CHECK_DEADLOCK FALSE
