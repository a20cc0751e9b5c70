SPECIFICATION PipelineSpec
CONSTANTS
    Requests = {plain, attack}
    AdminCalls = {a1}
    Backends = {b1}
    Addresses = {Ip}
    MAX_REQUESTS_PER_MINUTE = 1
    content <- MCContent
    BackendStatuses = {200, 403, 404, 502, 503}
    address <- MCAddress
    hits <- MCHits
    Nil = Nil
    plain = plain
    attack = attack
    Ip = Ip
    a1 = a1
    b1 = b1
CHECK_DEADLOCK FALSE
INVARIANTS
    LoggedIsNotForwarded
    LogNamesBackend
PROPERTY
    KeepsProxy
