SPECIFICATION Spec
CONSTANTS
    s1 = s1
    s2 = s2
    a1 = a1
    a2 = a2
    Servers = {s1, s2}
    Addresses = {a1, a2}
    NoAddress = NoAddress
    Offers <- SomeOffers
    Leases = {2}
    RenewalTimes = {}
    RebindingTimes = {}
    SendMayFail = TRUE
    ReleaseCalled = TRUE
    MaxTime = 2
    MaxXid = 3
    MaxReplies = 2
INVARIANT LeaseSound
PROPERTIES AddressNeverSwitches Acquires
