\* A byte of eight values, with the generator 3 of its field, and every way to deal to
\* three nodes with threshold 2 and 3, twice, the second time to another node or to
\* one node twice.  In the stack a header that is just taken and one that is not,
\* records of 0, 1, 2 and 5 bytes and rods shorter and longer than the record, so
\* that rows are full, partly full and missing.
CONSTANTS
    Size = 8
    Reduction = 3
    Thresholds = {2, 3}
    TotalShares = 3
    IdLists <- MCIdLists
    Participants <- MCParticipants
    Secrets = {0, 5}
    Drawn = {0, 6}
    Requests = {r1}
    MaxDealings = 2
    MaxHeader = 4
    TcapAnchor = 5
    Plaintexts <- MCPlaintexts
    Subjects <- MCSubjects
    Materials <- MCMaterials
    Noise = {7}
SPECIFICATION MCSpec
INVARIANTS
    RoundTrip
    SignsWithMaster
    FewerSayNothing
CHECK_DEADLOCK FALSE
