SPECIFICATION Spec
CONSTANT LWIP_MAX_DHCP_TRIES = 4
INVARIANTS TypeOK LeasedIsUsable PassedHasAddress
PROPERTIES EveryoneStarts Decides
CHECK_DEADLOCK FALSE
