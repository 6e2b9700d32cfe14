SPECIFICATION FairSpec
CONSTANTS
    c1 = c1  c2 = c2
    Clients = {c1, c2}
    Requests = {"subscribe"}
    MaxBacklog = 1
    MaxInbox = 1
    Nobody = Nobody
INVARIANTS UdpTypeOK RegisteredIsReachable WelcomeComesFirst OneConsumer
PROPERTIES UnwritableIsCut
