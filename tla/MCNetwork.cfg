SPECIFICATION FairPing
CONSTANTS
    h1 = h1
    h2 = h2
    m0 = m0
    m1 = m1
    m2 = m2
    NoMac = NoMac
    LO = LO
    ME = ME
    LO_MAC = m0
    ETH_MAC = ETH_MAC
    Ips = {LO, h1, h2}
    Macs = {m0, m1, m2}
    Local = {h1}
    ARP_TABLE_SIZE = 2
    TIME_MODULUS = 2
    MAX_PACKET_QUEUE = 2
    RX_SLOTS = 1
    Arrivals <- MCArrivals
    Traffic = {"udp", "tcp"}
    PING_COUNT = 2
    TIMEOUT = 1
    DELAY = 1
    MaxEvents = 3
INVARIANTS TableSound RepliesCountedOnce
PROPERTIES ForgetsOnlyWhenFull ImplementsLink PollReturns PingReturns
