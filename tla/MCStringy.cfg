SPECIFICATION Spec
CONSTANTS
    Text <- MCText
    Configs <- MCConfigs
    Requests <- MCRequests
    Trim <- MCTrim
    Compiles <- MCCompiles
    Matching <- MCMatching
INVARIANTS
    TypeOK
    FirstRuleDecides
    UserBeforeGroups
    PassAddIsMandatory
    NoDuplicates
    ScopeSelects
