SPECIFICATION FairSpec
CONSTANTS
    Procs = {p1, p2}
    OutLimit = 1
    MaxSends = 2
PROPERTIES
    ResponseWritten
    WriterTerminates
INVARIANTS DepthExact CapSlack NothingLostOrReordered
