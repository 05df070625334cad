\* One client using writers while any statement, upload or INSERT may fail.
CONSTANTS
    a = a  b = b  x = x  y = y  l1 = l1  l2 = l2  l3 = l3  c1 = c1  c2 = c2
    NoRow = NoRow  NoLoc = NoLoc  NoObj = NoObj  NotFound = NotFound  NoRet = NoRet
    NoWriter = NoWriter  NoSeg = NoSeg
    Names <- MCNames1
    MaxDepth = 2
    Data <- MCData
    MaxInlineSizeBytes = 1
    Locations <- MCLocations1
    MaxSegments = 3
    Clients <- MCClients1
    GetPaths <- MCNoPaths
    PutPaths <- MCNoPaths
    PutContents <- MCPutContents
    DeletePaths <- MCNoPaths
    MovePairs <- MCNoMoves
    FailuresEnabled = TRUE
    ChunkSize = 1
    WriterPaths <- MCWriterPaths2
    WriteData <- MCWriteData
    WriterMisuse = FALSE
SPECIFICATION WSpec
INVARIANT ManifestSegmentsRecorded
