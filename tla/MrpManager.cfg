\* A ring manager and a ring client (mrpRole MANAGER, CLIENT) with reactOnLinkChange and
\* blocking MRC, stopped, crashed and restarted, and a client with enableLinkCheckOnRing.
CONSTANTS
    r1 = r1
    r2 = r2
    NonBlockingMRC = FALSE
    NoTopologyChange = FALSE
    TimingProfile = 200
    TestMonitoringExtendedCount = 4
    TopologyChangeMaxRepeatCount = 2
    LinkMaxChange = 2
    MonNRmax = 0
    CounterMod = 8
    LastTopologyId = 0
    MaxPendingDelay = 1
    ChangeFields = {"F_STATE"}
    Ports <- MC_Ports
    Setups <- MC_MixedSetups
    Macs <- MC_Macs
    LocalBridgeAddress <- MC_Local
    BroadcastAddress <- MC_Broadcast
    DEFAULT <- MC_Default
    MRADEFAULT <- MC_MraDefault
    LowestPriority <- MC_Lowest
SPECIFICATION Spec
SYMMETRY MC_Symmetry
VIEW MC_View
INVARIANT TypeOK
INVARIANT TestRetransmissionBounded
INVARIANT ManagerKeepsTesting
INVARIANT RingStateFollowsState
INVARIANT ClientPortDiscipline
PROPERTY RingTopologyChangeRefinement
INVARIANT CcmSilentPortNotForwarding
INVARIANT ClientStateFollowsLinks
