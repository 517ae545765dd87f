CONSTANTS
    Hosts = {h1, h2}
    MayDie = {h1, h2}
    Jobs <- MCJobs
    Ids <- MCIds
    Paths <- MCPaths
    PacketSize = 20
    Item <- MCItem
    DataSize <- MCDataSize
    NoData = {"event"}
    TreeIn <- MCTreeIn
    Fails = {"fail"}
    UNDEFINED = "undefined"
    NULL = "null"
    Nobody = Nobody
    Idle = Idle
SPECIFICATION FairSpec
INVARIANTS
    TypeOK
    SequenceHasAnOwner
PROPERTIES
    ReportCoversTransfer
    RefusedByAnother
    CallSeesItsCaller
    SequencesClose
CHECK_DEADLOCK FALSE
