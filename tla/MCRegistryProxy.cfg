CONSTANTS
    NoForwardValue = NoForwardValue
    Accounts <- MCAccounts
    AccountNames <- MCAccountNames
    RestPaths <- MCRestPaths
    ClientXFF <- MCClientXFF
    RemoteAddrs <- MCRemoteAddrs
    HostOf <- MCHostOf
    HostPort <- MCHostPort
    NoForward = NoForwardValue
SPECIFICATION Spec
INVARIANT TypeOK ChallengeOnUnauthorized ForwardedToAccountBackend
