SPECIFICATION Spec
CONSTANTS
    MAX_FDS = 2
    MAX_SOCKETS = 2
    MAX_CONNECTIONS = 2
    LocalIps = {0, 1}
    RemoteIps = {2}
    Ports = {1, 2}
    RemotePorts = {1}
    EPHEMERAL_BASE = 3
    EPHEMERAL_PORTS = 1
    SEQ_MODULUS = 1
    FIRST_SEQUENCE = 0
    Lengths = {1}
    PeerSequences = {0}
INVARIANT OwnershipSound
PROPERTIES ClosedStaysClosed
