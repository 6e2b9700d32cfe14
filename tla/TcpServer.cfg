SPECIFICATION FairSpec
CONSTANTS
    c1 = c1  c2 = c2
    Clients = {c1}
    Requests = {"subscribe", "unsubscribe", "other"}
    MaxBacklog = 2
    MaxInbox = 2
    Nobody = Nobody
INVARIANTS TcpTypeOK GoneIsNotConsumed EntryIsOpenConsumer
PROPERTIES SlowClientIsCut QuietClientIsCleanedUp
CHECK_DEADLOCK FALSE
