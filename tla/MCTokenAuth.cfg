CONSTANTS
    Atoms <- MCAtoms
    RepoNameMaxLen = 9
    ScopeInputs <- MCScopeInputs
    NoScope = NoScopeValue
    NoScopeValue = NoScopeValue
    AccountNames <- MCAccountNames
    NoAccount = NoAccountValue
    NoAccountValue = NoAccountValue
    AccessLevels <- MCAccessLevels
SPECIFICATION Spec
INVARIANT TypeOK ParseScopeMatchesGrammar GrantedWithinAccess
