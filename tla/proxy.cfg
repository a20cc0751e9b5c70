SPECIFICATION FairSpec
CONSTANTS
    Requests = {plain, attack}
    AdminCalls = {a1, a2}
    Backends = {b1, b2}
    content <- MCContent
    BackendStatuses = {200, 403, 404, 502, 503}
    Nil = Nil
    plain = plain
    attack = attack
    a1 = a1
    a2 = a2
    b1 = b1
    b2 = b2
CHECK_DEADLOCK FALSE
INVARIANTS
    TypeOK
    DeactivatedIsClosed
    KeylessOnlyByFault
PROPERTIES
    KeepsGateway
    RequestsSettled
