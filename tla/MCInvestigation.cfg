CONSTANTS
    Limit = 512
    Usages <- MCUsages
    Services <- MCServices
    Databases <- MCDatabases
SPECIFICATION Spec
INVARIANTS
    RiskMatchesPlan
    WritesRestOnFacts
    LimitFitsUsage
    DegradedIsNeverSafer
