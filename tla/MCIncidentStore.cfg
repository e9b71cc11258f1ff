CONSTANTS
    FirstYear = 2026
    LastYear = 2027
    MaxSaves = 3
    Contents = {c1}
    Types = {crashloop}
    Fixes = {patch}
    NoFix = NoFix
SPECIFICATION Spec
INVARIANTS
    TypeOK
    IdsFresh
    NumbersBounded
PROPERTY SaveKeepsOutcome
