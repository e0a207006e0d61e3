CONSTANTS
    MdnsHosts = {1, 2}
    MdnsNames = 5
    MDNS_PROBE_COUNT = 3
    MDNS_PROBE_DELAY = 2
    MDNS_ANNOUNCE_COUNT = 3
    MDNS_ANNOUNCE_DELAY = 4
    MdnsMaxRestarts = 0
    MdnsLateRename = TRUE
SPECIFICATION MdnsSpec
INVARIANTS MdnsUnique
CHECK_DEADLOCK FALSE
