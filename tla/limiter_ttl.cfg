SPECIFICATION LimiterSpec
CONSTANTS
    Scans = {s1, s2, s3}
    Addresses = {Ip}
    MAX_REQUESTS_PER_MINUTE = 1
    address <- MCAddress
    Ip = Ip
    s1 = s1
    s2 = s2
    s3 = s3
CHECK_DEADLOCK FALSE
INVARIANT
    CounterAutoExpires
