SPECIFICATION Spec
CONSTANT LWIP_MAX_DHCP_TRIES = 4
INVARIANT StaticIsKept
CHECK_DEADLOCK FALSE
