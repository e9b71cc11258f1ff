CONSTANTS
    Limit = 512
    Usages <- MCUsages
    Services <- MCServices
    Databases <- MCDatabases
SPECIFICATION Spec
INVARIANT
    PatchRaisesLimit
