SPECIFICATION Spec
CONSTANT LWIP_MAX_DHCP_TRIES = 4
INVARIANT Exclusive
CHECK_DEADLOCK FALSE
