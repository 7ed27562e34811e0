SPECIFICATION Spec
CONSTANTS
    f1 = f1
    f2 = f2
    f3 = f3
    git = git
    file = file
    directory = directory
    Files = {f1, f2, f3}
    Dimensions <- MCDimensions
    Kinds <- MCKinds
    TargetKinds <- MCTargetKinds
    Values <- MCValues
    RuleIds = {"r1", "r2", "r3"}
    BundleIds = {"b1"}
    MaxBundles = 2
    MaxEffectiveRules = 4
    Catalogue <- MCCatalogue
    Operations <- MCOperations
SYMMETRY Symmetry
INVARIANTS
    AllowIsEarned
    DeterminingRulesDecide
PROPERTIES
    FloorHolds
    SettledOutcome
    BaselineBlameStands
    WorseNotFreer
