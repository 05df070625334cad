\* One request at a time; any statement may fail and leave the earlier ones done.
CONSTANTS
    a = a  b = b  x = x  y = y  l1 = l1  l2 = l2  l3 = l3  c1 = c1  c2 = c2
    Directory = Directory
    NoRow = NoRow  NoLoc = NoLoc  NoObj = NoObj  NotFound = NotFound  NoRet = NoRet
    Names <- MCNames
    MaxDepth = 3
    Data <- MCData
    MaxInlineSizeBytes = 1
    Locations <- MCLocations2
    MaxSegments = 0
    Clients <- MCClients1
    GetPaths <- MCGetPaths
    PutPaths <- MCPutPaths
    PutContents <- MCPutContents
    DeletePaths <- MCDeletePaths
    MovePairs <- MCMovePairs
    FailuresEnabled = TRUE
SPECIFICATION Spec
INVARIANT NoOrphanBlobs
