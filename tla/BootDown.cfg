SPECIFICATION Spec
CONSTANT LWIP_MAX_DHCP_TRIES = 4
INVARIANT FallbackIsUp
CHECK_DEADLOCK FALSE
