\* Two concurrent requests: a Delete of a directory races a PutContent below it.
CONSTANTS
    a = a  b = b  x = x  y = y  l1 = l1  l2 = l2  l3 = l3  c1 = c1  c2 = c2
    Directory = Directory
    NoRow = NoRow  NoLoc = NoLoc  NoObj = NoObj  NotFound = NotFound  NoRet = NoRet
    Names <- MCNames
    MaxDepth = 3
    Data <- MCData
    MaxInlineSizeBytes = 1
    Locations <- MCLocations
    MaxSegments = 0
    Clients <- MCClients2
    GetPaths <- MCGetPaths
    PutPaths <- MCPutPaths
    PutContents <- MCPutContents
    DeletePaths <- MCDeletePaths
    MovePairs <- MCMovePairs
    FailuresEnabled = FALSE
SPECIFICATION Spec
INVARIANT TreeConnected
