SPECIFICATION FairScanSpec
CONSTANTS
    Scans = {clean, both, empty}
    Addresses = {Ip}
    MAX_REQUESTS_PER_MINUTE = 1
    address <- MCAddress
    hits <- MCHits
    malformed <- MCMalformed
    clean = clean
    both = both
    empty = empty
    Ip = Ip
CHECK_DEADLOCK FALSE
INVARIANTS
    ScanTypeOK
    RowsAgree
    FiresOnce
    PassesBounded
    BlockedAfterLimit
    UnlimitedOnlyByFault
PROPERTIES
    KeepsContract
    ScansAnswered
