CONSTANTS
    Objs = {"p", "q", "r"}
    Hosts = {"a", "b"}
    TableSize = 2
    MdnsHosts = {1, 2}
    MdnsNames = 5
    MDNS_PROBE_COUNT = 3
    MDNS_PROBE_DELAY = 2
    MDNS_ANNOUNCE_COUNT = 2
    MDNS_ANNOUNCE_DELAY = 4
    MdnsMaxRestarts = 1
    MdnsLateRename = FALSE
    DhcpMacs = {m1, m2, m3}
    DhcpNet = 8
    DhcpLocals = {9, 14}
    DHCPS_MAX_LEASE = 2
    DhcpHalf = 4
    DhcpLeases <- DhcpRanges
    DhcpStatics = {m1, m2}
    DhcpClaims = {9, 12, 14}
SPECIFICATION NamesSpec
INVARIANTS Ownership OwnAnswer DhcpNoConflict DhcpServes MdnsUnique
PROPERTIES MemoryReturns MdnsSettles
CHECK_DEADLOCK FALSE
