SPECIFICATION Spec
CONSTANTS
    Text <- MCText
    Configs <- MCConfigs
    Remote = {"r1", "r2", "r3"}
    Name = {"", "alice"}
    Covers <- MCCovers
    Parses = {"wide", "narrow"}
    AuthenticatorTypes = {"BCRYPT"}
    AccounterTypes = {"FILE"}
    HandlerTypes = {"START"}
    ProviderTypes = {"PREFIX"}
INVARIANTS
    LastEntryDecides
    FirstScopeServes
    BadEntriesHaveNoEffect
