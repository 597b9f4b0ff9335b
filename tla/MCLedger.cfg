SPECIFICATION StatementSpec

CONSTANTS
    BasisPointsTotal = 8
    IdRadix = 3
    PaddedIds = 3
    MaxRevenue = 9
    MaxContributors = 3
    MaxOffsets = 2
    alice = alice
    bob = bob
    broken = broken
    Runs = {r1}
    Assets <- MCAssets
    Custodians = {alice, bob, broken}
    Malformed = {broken}
    Revenues <- MCRevenues
    Contributions <- MCContributions
    Ratios <- MCRatios
    NoRatio = NoRatio
    NoStatement = NoStatement
    Adjustments <- MCAdjustments

INVARIANTS
    TypeOK
    SplitExact
    SplitFair
    WholeRunsReplay
    RefundsRounded
    StatementsJustified

PROPERTIES
    AppendOnly

CHECK_DEADLOCK FALSE
