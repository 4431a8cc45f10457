\* A ring client: the port roles after the PT_IDLE swap.
CONSTANTS
    r1 = r1
    r2 = r2
    NonBlockingMRC = FALSE
    NoTopologyChange = FALSE
    TimingProfile = 200
    TestMonitoringExtendedCount = 4
    TopologyChangeMaxRepeatCount = 2
    LinkMaxChange = 2
    MonNRmax = 1
    CounterMod = 8
    LastTopologyId = 0
    MaxPendingDelay = 1
    ChangeFields = {"F_STATE"}
    Ports <- MC_Ports
    Setups <- MC_ClientSetup
    Macs <- MC_Macs
    LocalBridgeAddress <- MC_Local
    BroadcastAddress <- MC_Broadcast
    DEFAULT <- MC_Default
    MRADEFAULT <- MC_MraDefault
    LowestPriority <- MC_Lowest
SPECIFICATION Spec
SYMMETRY MC_Symmetry
INVARIANT PortRolesFollowRingPorts
