SPECIFICATION FairSpec
CONSTANTS
    r1 = r1
    r2 = r2
    r3 = r3
    a1 = a1
    a2 = a2
    NoProducer = NoProducer
    Seed = Seed
    Nobody = Nobody
    Requests = {r1, r2}
    Emails = {a1, a2}
    SeedList <- TwoSeeds
    Attempts = 2
    FaultKinds = {"start", "ack", "send", "api", "call", "iterator", "logger"}
    MaxFaults = 2
INVARIANT OneAccountEach
INVARIANT EventsAreTrue
INVARIANT EventsLostByFailureOnly
INVARIANT ProducersBounded
PROPERTY WelcomeIsLogged
CHECK_DEADLOCK FALSE
