SPECIFICATION Spec
CONSTANTS
    r1 = r1
    r2 = r2
    Requests = {r1, r2}
    MaxNode = 6
    MaxLinks = 2
    Empty = Empty
    Nil = Nil
    Trees <- MCTrees
    Paths <- MCPaths
    Names <- MCNames
    Uploads <- MCUploads
SYMMETRY MCSymmetry
INVARIANTS
    TypeOK
    OkMeansDone
    FailuresStayLocal
    ReadsWithinScope
    CreatedOnce
CHECK_DEADLOCK FALSE
