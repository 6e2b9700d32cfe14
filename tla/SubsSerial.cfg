SPECIFICATION FairSpec
CONSTANTS
    s1 = s1  s2 = s2  s3 = s3
    c1 = c1  c2 = c2
    p1 = p1  p2 = p2
    w1 = w1
    Subs = {s1, s2, s3}
    Clients = {c1}
    Paths = {p1}
    Periods = {1}
    Rates <- AnyRates
    Live = Live
    UnsubscribeAllPath = none
    Sweepers = {w1}
    Everyone = Everyone
    MaxArray = 2
    SendMayFail = TRUE
    Serial = TRUE
    Nobody = Nobody
INVARIANTS NoZombie OneFeedPerKey
PROPERTIES UnsubscribeStopsStream SubscribeGivesStreamOrFailed KeepsContract
