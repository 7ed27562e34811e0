SPECIFICATION FairSpec
CONSTANTS
    r1 = r1
    r2 = r2
    b1 = b1
    git = git
    Dimensions <- MCDimensions
    Values <- MCValues
    Kinds = {git}
    RuleIds = {r1, r2}
    BundleIds = {b1}
    MaxBundles = 2
    MaxEffectiveRules = 2
    Files = {1, 2}
    Links = {}
    Catalogue <- MCCatalogue
    Damaged = Damaged
    MaxBundleFiles = 2
    MaxEdits = 1
    Operations <- MCOperations
    Unusable = Unusable
    TooLarge = TooLarge
    None = None
INVARIANTS
    AnswersAreWhole
    AllowHonoursPolicy
    AnswersAreOnRecord
PROPERTIES
    HookAnswers
CHECK_DEADLOCK FALSE
