------------------------------ MODULE MrpNode ------------------------------
(***************************************************************************)
(* One MRP node (src/inet/linklayer/mrp/Mrp.cc): the per-node state       *)
(* machine of IEC 62439-2 as the class Mrp implements it, with its timer   *)
(* set, its two ring ports and the forwarding entries it installs.         *)
(*                                                                         *)
(* Every handler of Mrp is an operator from a node record to a node        *)
(* record, so that the nested calls of the code (mrcInit calling           *)
(* mauTypeChangeInd, handleTestTimer calling mrmInit, ...) compose exactly *)
(* as they do in C++, including the caller overwriting currentState after  *)
(* the callee has set it.  An action runs one whole event: a timer expiry, *)
(* a received PDU, an interface signal or a lifecycle operation.           *)
(*                                                                         *)
(* Simulation time is abstracted: an armed timer may expire at any point.  *)
(* PDUs received from the ring are chosen from small sets of all the       *)
(* contents the peers can send.                                            *)
(***************************************************************************)
EXTENDS Integers, Sequences, FiniteSets

CONSTANTS
    Ports,                    \* par("ringPort1"), par("ringPort2")
    Setups,                   \* the configurations a run explores: par("mrpRole"),
                              \* par("enableLinkCheckOnRing"),
                              \* par("reactOnLinkChange"), whether the lifecycle
                              \* stops, crashes and restarts the node, whether
                              \* its links change, and what the ring delivers
    NonBlockingMRC,           \* par("nonBlockingMRC")
    NoTopologyChange,         \* par("noTopologyChange"), initial value
    Macs,                     \* bridge addresses, ordered as numbers
    LocalBridgeAddress,       \* relay->getBridgeAddress()
    BroadcastAddress,         \* MacAddress(0xFFFFFFFFFFFF), the largest
    DEFAULT, MRADEFAULT,      \* MrpPriority values; lower is better
    LowestPriority,           \* static_cast<MrpPriority>(0xFFFF)
    TimingProfile,            \* par("timingProfile"): maxRecoveryTime in ms
    TestMonitoringExtendedCount,
    TopologyChangeMaxRepeatCount,
    LinkMaxChange,
    MonNRmax,
    CounterMod,               \* 2^width of the unsigned linkChangeCount
    LastTopologyId,           \* initial lastTopologyId (never assigned)
    MaxPendingDelay,          \* bound: pending DelayTimers per port and field
    ChangeFields              \* the interface fields the environment changes

(* A setup: the node's parameters, and the environment it runs in: the   *)
(* source addresses, priorities, MRP_Option sub-TLVs and TOPOLOGYCHANGE    *)
(* sequence ids of the PDUs that arrive, and whether the links change.     *)
SetupType ==
    [role : {"CLIENT", "MANAGER", "MANAGER_AUTO"}, linkCheck : BOOLEAN,
     reactOnLinkChange : BOOLEAN, lifecycle : BOOLEAN, linksChange : BOOLEAN,
     sources : SUBSET Macs, prios : SUBSET {DEFAULT, MRADEFAULT, LowestPriority},
     subs : SUBSET {"TEST_MGR_NACK", "TEST_PROPAGATE", "AUTOMGR"},
     seqIds : SUBSET Nat]

ASSUME /\ Cardinality(Ports) = 2
       /\ Setups \subseteq SetupType
       /\ LocalBridgeAddress \in Macs /\ BroadcastAddress \in Macs
       /\ \A m \in Macs : m <= BroadcastAddress
       /\ DEFAULT < MRADEFAULT /\ MRADEFAULT < LowestPriority
       /\ LinkMaxChange < CounterMod
       /\ ChangeFields \subseteq {"F_STATE", "F_CARRIER"}
       \* setTimingProfile throws cRuntimeError for any other profile, so
       \* initialize() never completes and the node has no behaviour.
       /\ TimingProfile \in {500, 200, 30, 10}

(* setTimingProfile: of the values the profile sets, only the number of   *)
(* MRP_Test frames a manager may miss counts here; the intervals are     *)
(* abstracted by letting any armed timer expire at any time.              *)
SetTimingProfile(maxRecoveryTime) ==
    [testMonitoringCount |-> IF maxRecoveryTime = 500 THEN 5 ELSE 3]

TestMonitoringCount == SetTimingProfile(TimingProfile).testMonitoringCount

NodeStates == {"POWER_ON", "AC_STAT1", "PRM_UP", "CHK_RO", "CHK_RC",
               "DE_IDLE", "PT", "DE", "PT_IDLE"}
ManagerStates == {"PRM_UP", "CHK_RO", "CHK_RC"}
ClientStates == {"DE_IDLE", "PT", "DE", "PT_IDLE"}
RingStates == {"OPEN", "CLOSED", "UNDEFINED"}
Roles == {"DISABLED", "CLIENT", "MANAGER", "MANAGER_AUTO"}
PortRoles == {"NOTASSIGNED", "PRIMARY", "SECONDARY"}
PortStates == {"DISABLED", "BLOCKED", "FORWARDING"}
LinkStates == {"UP", "DOWN"}
Fields == {"F_STATE", "F_CARRIER"}   \* NetworkInterface change fields
Groups == {"MC_TEST", "MC_CONTROL"}  \* multicast groups of ring forwarding
Priorities == {DEFAULT, MRADEFAULT, LowestPriority}
Timers == {"testTimer", "topologyChangeTimer", "linkUpTimer",
           "linkDownTimer", "fdbClearTimer", "fdbClearDelay",
           "startUpTimer", "linkUpHysteresisTimer"}

(* The CCM lifetime of a port is nextUpdate = now + 3.5 * interval, and   *)
(* its ContinuityCheckTimer fires once per interval on the grid set by    *)
(* start() at time 0.  Counted in expiries since nextUpdate was last set, *)
(* the 1st to 3rd expiry come before the deadline, the 4th after it or    *)
(* not (by the phase of the update within its interval), every later one *)
(* after it.  The count saturates at CcmLifetime + 1.                      *)
CcmLifetime == 4

VARIABLES
    expectedRole, currentState, currentRingState,
    primaryRingPort, secondaryRingPort,
    portRole, portState,          \* MrpInterfaceData of each ring port
    isUp, carrier,                \* NetworkInterface state of each port
    timers,                       \* the armed (scheduled) named timers
    timersDeleted,                \* stop() has cancelAndDelete'd them
    addTest, noTopologyChange, reactOnLinkChange,
    testRetransmissionCount, testMaxRetransmissionCount,
    topologyChangeRepeatCount, linkChangeCount, monNReturn,
    localManagerPrio, hostBestMRMPriority, hostBestMRMSourceAddress,
    fdbEntries,                   \* <<port, group>> MRP forwarding entries
    ccmArmed,                     \* ports with a ContinuityCheckTimer pending
    ccmSilence,                   \* CCM timer expiries since nextUpdate was set
    enableLinkCheckOnRing,        \* par("enableLinkCheckOnRing")
    faults,                       \* the faults the last event committed
    up,                           \* the module is operational
    delayPending,                 \* scheduled ProcessDelayTimers
    setup,                        \* the setup of this run, fixed by Init
    tcAccepted                    \* TOPOLOGYCHANGE ids already acted on

nodeVars == <<expectedRole, currentState, currentRingState, primaryRingPort,
              secondaryRingPort, portRole, portState, isUp, carrier, timers,
              timersDeleted, addTest, noTopologyChange, reactOnLinkChange,
              testRetransmissionCount, testMaxRetransmissionCount,
              topologyChangeRepeatCount, linkChangeCount, monNReturn,
              localManagerPrio, hostBestMRMPriority,
              hostBestMRMSourceAddress, fdbEntries, ccmArmed, ccmSilence,
              enableLinkCheckOnRing, faults>>
vars == <<nodeVars, up, delayPending, tcAccepted, setup>>

(* The node as a record, and the step that makes a record the new state. *)
Node == [expectedRole |-> expectedRole, currentState |-> currentState,
         currentRingState |-> currentRingState,
         primaryRingPort |-> primaryRingPort,
         secondaryRingPort |-> secondaryRingPort, portRole |-> portRole,
         portState |-> portState, isUp |-> isUp, carrier |-> carrier,
         timers |-> timers, timersDeleted |-> timersDeleted,
         addTest |-> addTest, noTopologyChange |-> noTopologyChange,
         reactOnLinkChange |-> reactOnLinkChange,
         testRetransmissionCount |-> testRetransmissionCount,
         testMaxRetransmissionCount |-> testMaxRetransmissionCount,
         topologyChangeRepeatCount |-> topologyChangeRepeatCount,
         linkChangeCount |-> linkChangeCount, monNReturn |-> monNReturn,
         localManagerPrio |-> localManagerPrio,
         hostBestMRMPriority |-> hostBestMRMPriority,
         hostBestMRMSourceAddress |-> hostBestMRMSourceAddress,
         fdbEntries |-> fdbEntries, ccmArmed |-> ccmArmed,
         ccmSilence |-> ccmSilence,
         enableLinkCheckOnRing |-> enableLinkCheckOnRing, out |-> <<>>]

(* An event records what it does to packets and timers in the log out of *)
(* the record; what is kept of it is the faults it shows: a deleted timer  *)
(* object used, a runtime error thrown, a packet used after its delete,    *)
(* a TOPOLOGYCHANGE id acted on a second time.                             *)
Faults(log) ==
    LET ops == {log[i].op : i \in 1..Len(log)}
        uaf == \E i, j \in 1..Len(log) :
                   i < j /\ log[i].op = "delete" /\ log[j].obj = log[i].obj
    IN  (ops \cap {"useDeleted", "error", "tcAgain"})
        \cup (IF uaf THEN {"useAfterFree"} ELSE {})

\* The handler's result t is bound once (r), not re-evaluated per variable.
Commit(t) ==
    \E r \in {t} :
        /\ expectedRole' = r.expectedRole
        /\ currentState' = r.currentState
        /\ currentRingState' = r.currentRingState
        /\ primaryRingPort' = r.primaryRingPort
        /\ secondaryRingPort' = r.secondaryRingPort
        /\ portRole' = r.portRole
        /\ portState' = r.portState
        /\ isUp' = r.isUp
        /\ carrier' = r.carrier
        /\ timers' = r.timers
        /\ timersDeleted' = r.timersDeleted
        /\ addTest' = r.addTest
        /\ noTopologyChange' = r.noTopologyChange
        /\ reactOnLinkChange' = r.reactOnLinkChange
        /\ testRetransmissionCount' = r.testRetransmissionCount
        /\ testMaxRetransmissionCount' = r.testMaxRetransmissionCount
        /\ topologyChangeRepeatCount' = r.topologyChangeRepeatCount
        /\ linkChangeCount' = r.linkChangeCount
        /\ monNReturn' = r.monNReturn
        /\ localManagerPrio' = r.localManagerPrio
        /\ hostBestMRMPriority' = r.hostBestMRMPriority
        /\ hostBestMRMSourceAddress' = r.hostBestMRMSourceAddress
        /\ fdbEntries' = r.fdbEntries
        /\ ccmArmed' = r.ccmArmed
        /\ ccmSilence' = r.ccmSilence
        /\ enableLinkCheckOnRing' = r.enableLinkCheckOnRing
        /\ faults' = Faults(r.out)

-----------------------------------------------------------------------------
(* Effects.  A timer object touched after stop() deleted it is logged.   *)

Emit(s, e) == [s EXCEPT !.out = Append(@, e)]

Touch(s, t) ==
    IF s.timersDeleted THEN Emit(s, [op |-> "useDeleted", obj |-> t]) ELSE s

Arm(s, t) == [Touch(s, t) EXCEPT !.timers = @ \cup {t}]
Disarm(s, t) == [Touch(s, t) EXCEPT !.timers = @ \ {t}]

(* sendFrameReq hands the frame to the relay; the single node keeps no    *)
(* record of it, the ring composition turns it into a channel message.    *)
Send(s, pdu) == s

Goto(s, st) == [s EXCEPT !.currentState = st]
Ring(s, rs) == [s EXCEPT !.currentRingState = rs]

(* LinkState of the interface as getState() reports it: admin state only. *)
IfState(s, p) == IF s.isUp[p] THEN "UP" ELSE "DOWN"

-----------------------------------------------------------------------------
(* Port model and requests (Mrp.cc 83-126, 400-407, 770-798, 979-1016).  *)

SetPortState(s, p, st) == [s EXCEPT !.portState[p] = st]

ToggleRingPorts(s) ==
    [s EXCEPT !.primaryRingPort = s.secondaryRingPort,
              !.secondaryRingPort = s.primaryRingPort,
              !.portRole = [@ EXCEPT ![s.secondaryRingPort] = "PRIMARY",
                                     ![s.primaryRingPort] = "SECONDARY"]]

(* clearFDB(time): arm fdbClearTimer, or move it earlier if armed; with   *)
(* time abstracted both leave it armed.                                   *)
ClearFDB(s) == Arm(s, "fdbClearTimer")

(* clearLocalFDB: restart the processing delay before clearTable().      *)
ClearLocalFDB(s) == Arm(Disarm(s, "fdbClearDelay"), "fdbClearDelay")

IsBetterThanOwnPrio(s, prio, mac) ==
    \/ prio < s.localManagerPrio
    \/ prio = s.localManagerPrio /\ mac < LocalBridgeAddress

IsBetterThanBestPrio(s, prio, mac) ==
    \/ prio < s.hostBestMRMPriority
    \/ prio = s.hostBestMRMPriority /\ mac < s.hostBestMRMSourceAddress

(* setupTestRingReq: a TEST frame out of both ring ports.                *)
SetupTestRingReq(s) ==
    Send(s, [type |-> "TEST", ringState |-> s.currentRingState,
             prio |-> s.localManagerPrio])

SetupTopologyChangeReq(s) == Send(s, [type |-> "TOPOLOGYCHANGE"])

\* Mutant: with addTest the test timer is cancelled and not restarted.
TestRingReqNoRearm(s) ==
    IF s.addTest THEN Disarm(s, "testTimer")
    ELSE LET s2 == Touch(s, "testTimer") IN
         IF "testTimer" \notin s2.timers
         THEN SetupTestRingReq(Arm(s2, "testTimer")) ELSE s2

(* testRingReq: with addTest the running test timer is restarted.        *)
TestRingReq(s) ==
    LET s1 == IF s.addTest THEN Disarm(s, "testTimer") ELSE s
        s2 == Touch(s1, "testTimer")
    IN  IF "testTimer" \notin s2.timers
        THEN SetupTestRingReq(Arm(s2, "testTimer"))
        ELSE s2

(* topologyChangeReq(time); zero is time == 0.                           *)
TopologyChangeReq(s, zero) ==
    IF zero
    THEN SetupTopologyChangeReq(ClearLocalFDB(s))
    ELSE LET s1 == Touch(s, "topologyChangeTimer") IN
         IF "topologyChangeTimer" \notin s1.timers
         THEN SetupTopologyChangeReq(Arm(s1, "topologyChangeTimer"))
         ELSE s1

\* setupLinkChangeReq: LINKUP or LINKDOWN, with the role of the port.
SetupLinkChangeReq(s, ls) ==
    Send(s, [type |-> "LINK" \o ls, portRole |-> s.portRole[s.primaryRingPort]])

\* Mutant: linkChangeCount as a plain int, decremented without wrapping.
LinkChangeReqSigned(s, ls) ==
    LET t  == IF ls = "DOWN" THEN "linkDownTimer" ELSE "linkUpTimer"
        s1 == Touch(s, t)
    IN  IF t \notin s1.timers
        THEN [SetupLinkChangeReq(Arm(s1, t), ls)
                 EXCEPT !.linkChangeCount = @ - 1]
        ELSE s1

\* Mutant: the LINKUP repeat is sent but linkUpTimer is not scheduled.
LinkChangeReqNoUpTimer(s, ls) ==
    LET t  == IF ls = "DOWN" THEN "linkDownTimer" ELSE "linkUpTimer"
        s1 == Touch(s, t)
    IN  IF t \notin s1.timers
        THEN [SetupLinkChangeReq(IF ls = "DOWN" THEN Arm(s1, t) ELSE s1, ls)
                 EXCEPT !.linkChangeCount = (@ - 1) % CounterMod]
        ELSE s1

(* linkChangeReq: a LINKUP/LINKDOWN PDU carrying the role the interface   *)
(* data gives the primary port; linkChangeCount-- wraps as unsigned.      *)
LinkChangeReq(s, ls) ==
    LET t  == IF ls = "DOWN" THEN "linkDownTimer" ELSE "linkUpTimer"
        s1 == Touch(s, t)
    IN  IF t \notin s1.timers
        THEN [SetupLinkChangeReq(Arm(s1, t), ls)
                 EXCEPT !.linkChangeCount = (@ - 1) % CounterMod]
        ELSE s1

TestMgrNackReq(s) == Send(s, [type |-> "TEST_MGR_NACK"])
TestPropagateReq(s) == Send(s, [type |-> "TEST_PROPAGATE"])

-----------------------------------------------------------------------------
(* mauTypeChangeInd(ringPort, linkState), one operator per node state.   *)

\* AC_STAT1: the first port that comes up becomes primary and forwards.
MauAcStat1(s, p, ls) ==
    LET s1 == IF p = s.secondaryRingPort THEN ToggleRingPorts(s) ELSE s
        s2 == SetPortState(s1, s1.primaryRingPort, "FORWARDING")
    IN  IF ls = "UP" /\ p \in {s.primaryRingPort, s.secondaryRingPort}
        THEN CASE s.expectedRole = "CLIENT" -> Goto(s2, "DE_IDLE")
               [] s.expectedRole \in {"MANAGER", "MANAGER_AUTO"} ->
                      Ring(Goto(TestRingReq(s2), "PRM_UP"), "OPEN")
               [] OTHER -> s
        ELSE s

MauPrmUp(s, p, ls) ==
    CASE p = s.primaryRingPort /\ ls = "DOWN" ->
           Ring(Goto(SetPortState(Disarm(s, "testTimer"), p, "BLOCKED"),
                     "AC_STAT1"), "OPEN")
      [] p = s.secondaryRingPort /\ ls = "UP" ->
           LET s1 == [s EXCEPT !.testMaxRetransmissionCount =
                                   TestMonitoringCount - 1,
                               !.testRetransmissionCount = 0,
                               !.noTopologyChange = TRUE]
           IN  Ring(Goto(TestRingReq(s1), "CHK_RC"), "CLOSED")
      [] OTHER -> s

MauChkRo(s, p, ls) ==
    CASE ls = "DOWN" /\ p = s.primaryRingPort ->
           LET s1 == ToggleRingPorts(s)
               s2 == SetPortState(s1, s1.secondaryRingPort, "BLOCKED")
           IN  Ring(Goto(TopologyChangeReq(TestRingReq(s2), FALSE),
                         "PRM_UP"), "OPEN")
      [] ls = "DOWN" /\ p = s.secondaryRingPort ->
           Ring(Goto(SetPortState(s, p, "BLOCKED"), "PRM_UP"), "OPEN")
      [] OTHER -> s

\* Mutant: on secondary loss in CHK_RC the ring state is left CLOSED.
MauChkRcNoOpen(s, p, ls) ==
    CASE ls = "DOWN" /\ p = s.primaryRingPort ->
           Ring(Goto(TopologyChangeReq(TestRingReq(ToggleRingPorts(s)),
                                       FALSE), "PRM_UP"), "OPEN")
      [] ls = "DOWN" /\ p = s.secondaryRingPort -> Goto(s, "PRM_UP")
      [] OTHER -> s

\* CHK_RC: on primary loss the ports are toggled and no port state is set.
MauChkRc(s, p, ls) ==
    CASE ls = "DOWN" /\ p = s.primaryRingPort ->
           Ring(Goto(TopologyChangeReq(TestRingReq(ToggleRingPorts(s)),
                                       FALSE), "PRM_UP"), "OPEN")
      [] ls = "DOWN" /\ p = s.secondaryRingPort ->
           Ring(Goto(s, "PRM_UP"), "OPEN")
      [] OTHER -> s

\* Mutant: DE_IDLE misses the loss of its primary link.
MauDeIdleNoPrimaryLoss(s, p, ls) ==
    IF p = s.secondaryRingPort /\ ls = "UP"
    THEN Goto(LinkChangeReq(s, "UP"), "PT")
    ELSE s

MauDeIdle(s, p, ls) ==
    CASE p = s.secondaryRingPort /\ ls = "UP" ->
           Goto(LinkChangeReq(s, "UP"), "PT")
      [] p = s.primaryRingPort /\ ls = "DOWN" ->
           Goto(SetPortState(s, p, "BLOCKED"), "AC_STAT1")
      [] OTHER -> s

\* Mutant: on primary loss in PT the new secondary is not blocked.
MauPtKeepForwarding(s, p, ls) ==
    CASE ls = "DOWN" /\ p = s.secondaryRingPort ->
           LET s1 == SetPortState(Disarm(s, "linkUpTimer"), p, "BLOCKED")
           IN  Goto(LinkChangeReq(s1, "DOWN"), "DE")
      [] ls = "DOWN" /\ p = s.primaryRingPort ->
           LET s1 == ToggleRingPorts(Disarm(s, "linkUpTimer"))
               s2 == SetPortState(s1, s1.primaryRingPort, "FORWARDING")
           IN  Goto(LinkChangeReq(s2, "DOWN"), "DE")
      [] OTHER -> s

MauPt(s, p, ls) ==
    CASE ls = "DOWN" /\ p = s.secondaryRingPort ->
           LET s1 == SetPortState(Disarm(s, "linkUpTimer"), p, "BLOCKED")
           IN  Goto(LinkChangeReq(s1, "DOWN"), "DE")
      [] ls = "DOWN" /\ p = s.primaryRingPort ->
           LET s1 == ToggleRingPorts(Disarm(s, "linkUpTimer"))
               s2 == SetPortState(s1, s1.primaryRingPort, "FORWARDING")
               s3 == SetPortState(s2, s2.secondaryRingPort, "BLOCKED")
           IN  Goto(LinkChangeReq(s3, "DOWN"), "DE")
      [] OTHER -> s

MauDe(s, p, ls) ==
    CASE p = s.secondaryRingPort /\ ls = "UP" ->
           Goto(LinkChangeReq(Disarm(s, "linkDownTimer"), "UP"), "PT")
      [] p = s.primaryRingPort /\ ls = "DOWN" ->
           Goto(SetPortState([s EXCEPT !.linkChangeCount = LinkMaxChange],
                             p, "BLOCKED"), "AC_STAT1")
      [] OTHER -> s

\* PT_IDLE: on primary loss the ports are swapped by hand, roles untouched.
MauPtIdle(s, p, ls) ==
    CASE ls = "DOWN" /\ p = s.secondaryRingPort ->
           Goto(LinkChangeReq(SetPortState(s, p, "BLOCKED"), "DOWN"), "DE")
      [] ls = "DOWN" /\ p = s.primaryRingPort ->
           LET s1 == [s EXCEPT !.primaryRingPort = s.secondaryRingPort,
                               !.secondaryRingPort = p]
           IN  Goto(LinkChangeReq(SetPortState(s1, p, "BLOCKED"), "DOWN"),
                    "DE")
      [] OTHER -> s

MauTypeChangeInd(s, p, ls) ==
    CASE s.currentState = "POWER_ON" -> s
      [] s.currentState = "AC_STAT1" -> MauAcStat1(s, p, ls)
      [] s.currentState = "PRM_UP"   -> MauPrmUp(s, p, ls)
      [] s.currentState = "CHK_RO"   -> MauChkRo(s, p, ls)
      [] s.currentState = "CHK_RC"   -> MauChkRc(s, p, ls)
      [] s.currentState = "DE_IDLE"  -> MauDeIdle(s, p, ls)
      [] s.currentState = "PT"       -> MauPt(s, p, ls)
      [] s.currentState = "DE"       -> MauDe(s, p, ls)
      [] s.currentState = "PT_IDLE"  -> MauPtIdle(s, p, ls)

(* The two synthetic MAU_TYPE_CHANGE events that end every role init;    *)
(* the second reads secondaryRingPort after the first may have toggled.  *)
MauBothPorts(s) ==
    LET s1 == MauTypeChangeInd(s, s.primaryRingPort,
                               IfState(s, s.primaryRingPort))
    IN  MauTypeChangeInd(s1, s1.secondaryRingPort,
                         IfState(s1, s1.secondaryRingPort))

-----------------------------------------------------------------------------
(* Role initialisation (Mrp.cc 290-398).                                 *)

RingForwarding == Ports \X Groups

MrcInit(s) ==
    LET s1 == [s EXCEPT !.linkChangeCount = LinkMaxChange,
                        !.fdbEntries = @ \cup RingForwarding]
        s2 == IF s.expectedRole = "CLIENT"
              THEN Goto(Ring(s1, "UNDEFINED"), "AC_STAT1") ELSE s1
    IN  MauBothPorts(s2)

\* Mutant: mrmInit sets the limit but leaves the retransmission counter.
MrmInitKeepCount(s) ==
    LET s1 == [s EXCEPT !.localManagerPrio = DEFAULT,
                        !.currentRingState = "OPEN",
                        !.addTest = FALSE,
                        !.testMaxRetransmissionCount = TestMonitoringCount - 1]
        s2 == IF s.expectedRole = "MANAGER" THEN Goto(s1, "AC_STAT1") ELSE s1
        s3 == IF s.expectedRole = "MANAGER_AUTO"
              THEN [s2 EXCEPT !.fdbEntries = @ \ RingForwarding] ELSE s2
    IN  MauBothPorts(s3)

MrmInit(s) ==
    LET s1 == [s EXCEPT !.localManagerPrio = DEFAULT,
                        !.currentRingState = "OPEN",
                        !.addTest = FALSE,
                        !.testRetransmissionCount = 0,
                        !.testMaxRetransmissionCount = TestMonitoringCount - 1]
        s2 == IF s.expectedRole = "MANAGER" THEN Goto(s1, "AC_STAT1") ELSE s1
        s3 == IF s.expectedRole = "MANAGER_AUTO"
              THEN [s2 EXCEPT !.fdbEntries = @ \ RingForwarding] ELSE s2
    IN  MauBothPorts(s3)

MraInit(s) ==
    MauBothPorts([s EXCEPT !.localManagerPrio = MRADEFAULT,
                           !.currentRingState = "OPEN",
                           !.addTest = FALSE,
                           !.testRetransmissionCount = 0,
                           !.testMaxRetransmissionCount =
                               TestMonitoringCount - 1,
                           !.reactOnLinkChange = FALSE,
                           !.hostBestMRMSourceAddress = BroadcastAddress,
                           !.hostBestMRMPriority = LowestPriority,
                           !.monNReturn = 0,
                           !.currentState = "AC_STAT1"])

\* startContinuityCheck: initRingPorts set continuityCheck on both ring
\* ports to enableLinkCheckOnRing; each such port sends its first CCM and
\* gets a ContinuityCheckTimer, and the CCM group address is registered.
StartContinuityCheck(s) == [s EXCEPT !.ccmArmed = Ports]

Start(s) ==
    LET s0 == [s EXCEPT !.topologyChangeRepeatCount =
                            TopologyChangeMaxRepeatCount - 1]
        s1 == IF s.enableLinkCheckOnRing THEN StartContinuityCheck(s0)
              ELSE s0
    IN  CASE s.expectedRole = "CLIENT"       -> MrcInit(s1)
          [] s.expectedRole = "MANAGER"      -> MrmInit(s1)
          [] s.expectedRole = "MANAGER_AUTO" -> MraInit(s1)
          [] OTHER -> s1

Stop(s) ==
    [Touch(s, "fdbClearTimer") EXCEPT !.portRole = [p \in Ports |-> "NOTASSIGNED"],
              !.portState = [p \in Ports |-> "DISABLED"],
              !.expectedRole = "DISABLED",
              !.timers = {},
              !.timersDeleted = TRUE]

-----------------------------------------------------------------------------
(* Indications from received PDUs (Mrp.cc 1247-1545).                    *)

\* Mutant: a returning test frame lowers the limit but keeps the counter.
ResetRetransmissionKeepCount(s) ==
    [s EXCEPT !.testMaxRetransmissionCount = TestMonitoringCount - 1,
              !.noTopologyChange = FALSE]

ResetRetransmission(s) ==
    [s EXCEPT !.testMaxRetransmissionCount = TestMonitoringCount - 1,
              !.testRetransmissionCount = 0,
              !.noTopologyChange = FALSE]

\* An MRA answers a test frame of a manager that is not better than itself.
NackIfWorse(s, sa, prio) ==
    IF s.expectedRole = "MANAGER_AUTO" /\ ~IsBetterThanOwnPrio(s, prio, sa)
    THEN TestMgrNackReq(s) ELSE s

TestRingInd(s, sa, prio) ==
    CASE s.currentState = "PRM_UP" ->
           IF sa = LocalBridgeAddress
           THEN Ring(Goto(TestRingReq(ResetRetransmission(s)), "CHK_RC"),
                     "CLOSED")
           ELSE NackIfWorse(s, sa, prio)
      [] s.currentState = "CHK_RO" ->
           IF sa = LocalBridgeAddress
           THEN LET s1 == ResetRetransmission(
                            SetPortState(s, s.secondaryRingPort, "BLOCKED"))
                    s2 == TopologyChangeReq(TestRingReq(s1),
                                            s.reactOnLinkChange)
                IN  Ring(Goto(s2, "CHK_RC"), "CLOSED")
           ELSE NackIfWorse(s, sa, prio)
      [] s.currentState = "CHK_RC" ->
           IF sa = LocalBridgeAddress THEN ResetRetransmission(s)
           ELSE NackIfWorse(s, sa, prio)
      [] s.currentState \in ClientStates ->
           IF /\ s.expectedRole = "MANAGER_AUTO"
              /\ sa # LocalBridgeAddress
              /\ sa = s.hostBestMRMSourceAddress
           THEN [s EXCEPT !.monNReturn =
                            IF IsBetterThanOwnPrio(s, prio, sa) THEN 0 ELSE @,
                          !.hostBestMRMPriority = prio]
           ELSE s
      [] OTHER -> s

\* DE_IDLE falls through into the PT_IDLE arm: clearFDB runs twice.
TopologyChangeInd(s, sa) ==
    CASE s.currentState \in ManagerStates ->
           IF sa # LocalBridgeAddress THEN ClearFDB(s) ELSE s
      [] s.currentState = "PT" ->
           LET s1 == [Disarm(s, "linkUpTimer")
                        EXCEPT !.linkChangeCount = LinkMaxChange]
           IN  Goto(ClearFDB(SetPortState(s1, s.secondaryRingPort,
                                          "FORWARDING")), "PT_IDLE")
      [] s.currentState = "DE" ->
           Goto(ClearFDB([Disarm(s, "linkDownTimer")
                            EXCEPT !.linkChangeCount = LinkMaxChange]),
                "DE_IDLE")
      [] s.currentState = "DE_IDLE" ->
           LET s1 == Touch(ClearFDB(s), "linkUpHysteresisTimer")
               s2 == IF /\ s.expectedRole = "MANAGER_AUTO"
                        /\ "linkUpHysteresisTimer" \in s1.timers
                     THEN Goto(SetPortState(s1, s1.secondaryRingPort,
                                            "FORWARDING"), "PT_IDLE")
                     ELSE s1
           IN  ClearFDB(s2)
      [] s.currentState = "PT_IDLE" -> ClearFDB(s)
      [] OTHER -> s

\* CHK_RO on LINKUP without nonBlockingMRC: block and close the ring.
CloseOnLinkUp(s, addTestNow) ==
    LET s1 == [SetPortState(s, s.secondaryRingPort, "BLOCKED")
                 EXCEPT !.testMaxRetransmissionCount =
                            TestMonitoringExtendedCount - 1,
                        !.testRetransmissionCount = 0,
                        !.addTest = IF addTestNow THEN TRUE ELSE @]
    IN  Ring(Goto(TopologyChangeReq(TestRingReq(s1), TRUE), "CHK_RC"),
             "CLOSED")

AddTest(s) == TestRingReq([s EXCEPT !.addTest = TRUE])

LinkChangeInd(s, ls) ==
    CASE s.currentState = "PRM_UP" ->
           IF ~s.addTest
           THEN CASE NonBlockingMRC -> AddTest(s)
                  [] ls = "UP" -> TopologyChangeReq(AddTest(s), TRUE)
                  [] OTHER -> s
           ELSE IF ~NonBlockingMRC /\ ls = "UP"
                THEN TopologyChangeReq(s, TRUE) ELSE s
      [] s.currentState = "CHK_RO" ->
           IF ~s.addTest
           THEN CASE ls = "DOWN" -> AddTest(s)
                  [] NonBlockingMRC -> AddTest(s)
                  [] OTHER -> CloseOnLinkUp(s, TRUE)
           ELSE IF ~NonBlockingMRC /\ ls = "UP"
                THEN CloseOnLinkUp(s, FALSE) ELSE s
      [] s.currentState = "CHK_RC" ->
           CASE s.reactOnLinkChange /\ ls = "DOWN" ->
                  LET s1 == SetPortState(s, s.secondaryRingPort, "FORWARDING")
                  IN  Ring(Goto(TopologyChangeReq(s1, TRUE), "CHK_RO"), "OPEN")
             [] s.reactOnLinkChange ->
                  TopologyChangeReq(
                    [s EXCEPT !.testMaxRetransmissionCount =
                                IF NonBlockingMRC
                                THEN TestMonitoringCount - 1
                                ELSE TestMonitoringExtendedCount - 1], TRUE)
             [] NonBlockingMRC /\ ~s.addTest -> AddTest(s)
             [] OTHER -> s
      [] OTHER -> s

\* An MRA that receives a NACK for itself steps down to client.
TestMgrNackInd(s, sa, prio, bestSa) ==
    IF /\ s.currentState \in ManagerStates
       /\ s.expectedRole = "MANAGER_AUTO"
       /\ sa # LocalBridgeAddress
       /\ bestSa = LocalBridgeAddress
    THEN LET s1 == IF IsBetterThanBestPrio(s, prio, sa)
                   THEN [s EXCEPT !.hostBestMRMSourceAddress = sa,
                                  !.hostBestMRMPriority = prio]
                   ELSE s
             s2 == TestPropagateReq(MrcInit(Disarm(s1, "topologyChangeTimer")))
         IN  CASE s.currentState = "PRM_UP" -> Goto(s2, "DE_IDLE")
               [] s.currentState = "CHK_RO" -> Goto(s2, "PT_IDLE")
               [] OTHER -> Goto(SetPortState(s2, s2.secondaryRingPort,
                                             "FORWARDING"), "PT_IDLE")
    ELSE s

TestPropagateInd(s, sa, bestSa, bestPrio) ==
    IF /\ s.currentState \in ClientStates
       /\ s.expectedRole = "MANAGER_AUTO"
       /\ sa # LocalBridgeAddress
       /\ sa = s.hostBestMRMSourceAddress
    THEN [s EXCEPT !.hostBestMRMSourceAddress = bestSa,
                   !.hostBestMRMPriority = bestPrio,
                   !.monNReturn = 0]
    ELSE s

-----------------------------------------------------------------------------
(* Timer handlers (Mrp.cc 816-954, 770-782).                             *)

\* Mutant: the count of short test intervals is off by one.
MraMonitorOffByOne(s, promoteTo) ==
    IF s.expectedRole = "MANAGER_AUTO"
    THEN LET s1 == Arm(s, "testTimer") IN
         IF s1.monNReturn <= MonNRmax + 1
         THEN [s1 EXCEPT !.monNReturn = @ + 1]
         ELSE Goto(MrmInit(s1), promoteTo)
    ELSE s

\* Mutant: the test timer is rescheduled only while still counting.
MraMonitorLateArm(s, promoteTo) ==
    IF s.expectedRole = "MANAGER_AUTO"
    THEN IF s.monNReturn <= MonNRmax
         THEN [Arm(s, "testTimer") EXCEPT !.monNReturn = @ + 1]
         ELSE Goto(MrmInit(s), promoteTo)
    ELSE s

\* A demoted MRA counts short test intervals and returns to manager.
MraMonitor(s, promoteTo) ==
    IF s.expectedRole = "MANAGER_AUTO"
    THEN LET s1 == Arm(s, "testTimer") IN
         IF s1.monNReturn <= MonNRmax
         THEN [s1 EXCEPT !.monNReturn = @ + 1]
         ELSE Goto(MrmInit(s1), promoteTo)
    ELSE s

\* Mutant: a missing test frame is not counted.
TestTimerChkRcNoCount(s) ==
    IF s.testRetransmissionCount >= s.testMaxRetransmissionCount
    THEN LET s1 == [SetPortState(s, s.secondaryRingPort, "FORWARDING")
                      EXCEPT !.testMaxRetransmissionCount = TestMonitoringCount - 1,
                             !.testRetransmissionCount = 0,
                             !.addTest = FALSE]
             s2 == IF ~s.noTopologyChange THEN TopologyChangeReq(s1, FALSE)
                   ELSE s1
         IN  Ring(Goto(TestRingReq(s2), "CHK_RO"), "OPEN")
    ELSE TestRingReq([s EXCEPT !.addTest = FALSE])

\* CHK_RC: count a missing test frame, or open the ring after the last.
TestTimerChkRc(s) ==
    IF s.testRetransmissionCount >= s.testMaxRetransmissionCount
    THEN LET s1 == [SetPortState(s, s.secondaryRingPort, "FORWARDING")
                      EXCEPT !.testMaxRetransmissionCount = TestMonitoringCount - 1,
                             !.testRetransmissionCount = 0,
                             !.addTest = FALSE]
             s2 == IF ~s.noTopologyChange THEN TopologyChangeReq(s1, FALSE)
                   ELSE s1
         IN  Ring(Goto(TestRingReq(s2), "CHK_RO"), "OPEN")
    ELSE TestRingReq([s EXCEPT !.testRetransmissionCount = @ + 1,
                               !.addTest = FALSE])

HandleTestTimer(s) ==
    CASE s.currentState \in {"POWER_ON", "AC_STAT1"} ->
           IF s.expectedRole = "MANAGER"
           THEN MauTypeChangeInd(s, s.primaryRingPort,
                                 IfState(s, s.primaryRingPort))
           ELSE s
      [] s.currentState \in {"PRM_UP", "CHK_RO"} ->
           TestRingReq([s EXCEPT !.addTest = FALSE])
      [] s.currentState = "CHK_RC" -> TestTimerChkRc(s)
      [] s.currentState \in {"DE", "DE_IDLE"} -> MraMonitor(s, "PRM_UP")
      [] s.currentState = "PT" -> MraMonitor(s, "CHK_RC")
      [] s.currentState = "PT_IDLE" -> MraMonitor(s, "CHK_RO")

\* Mutant: the last expiry flushes without reloading the repeat counter.
HandleTopologyChangeTimerNoReload(s) ==
    IF s.topologyChangeRepeatCount > 0
    THEN Arm([SetupTopologyChangeReq(s)
                EXCEPT !.topologyChangeRepeatCount = @ - 1],
             "topologyChangeTimer")
    ELSE ClearLocalFDB(s)

\* Repeat the TOPOLOGYCHANGE PDU, then flush the local FDB.
HandleTopologyChangeTimer(s) ==
    IF s.topologyChangeRepeatCount > 0
    THEN Arm([SetupTopologyChangeReq(s)
                EXCEPT !.topologyChangeRepeatCount = @ - 1],
             "topologyChangeTimer")
    ELSE ClearLocalFDB([s EXCEPT !.topologyChangeRepeatCount =
                                     TopologyChangeMaxRepeatCount - 1])

HandleLinkUpTimer(s) ==
    IF s.currentState = "PT"
    THEN IF s.linkChangeCount = 0
         THEN Goto([SetPortState(s, s.secondaryRingPort, "FORWARDING")
                      EXCEPT !.linkChangeCount = LinkMaxChange], "PT_IDLE")
         ELSE LinkChangeReq(s, "UP")
    ELSE s

HandleLinkDownTimer(s) ==
    IF s.currentState = "DE"
    THEN IF s.linkChangeCount = 0
         THEN Goto([s EXCEPT !.linkChangeCount = LinkMaxChange], "DE_IDLE")
         ELSE LinkChangeReq(s, "DOWN")
    ELSE s

\* clearLocalFDBDelayed: mrpMacForwardingTable->clearTable().
ClearLocalFDBDelayed(s) == Emit(s, [op |-> "clearTable", obj |-> "fdb"])

\* handleDelayTimer: report the interface state current at expiry; a
\* port under continuity check also gets a new CCM deadline.
HandleDelayTimer(s, p, f) ==
    IF f = "F_STATE" \/ (f = "F_CARRIER" /\ s.isUp[p])
    THEN LET s1 == IF s.enableLinkCheckOnRing
                   THEN [s EXCEPT !.ccmSilence[p] = 0] ELSE s
         IN  MauTypeChangeInd(s1, p, IF s.isUp[p] /\ s.carrier[p]
                                     THEN "UP" ELSE "DOWN")
    ELSE s

\* setupContinuityCheck: a CCM out of the ring port (sendCCM); its flags,
\* sequence number and endpoint name are not modelled.
SetupContinuityCheck(s, p) == Send(s, [type |-> "CCM"])

\* Mutant: the CCM is reported as link up but its deadline is not renewed.
HandleContinuityCheckMessageNoDeadline(s, p) == MauTypeChangeInd(s, p, "UP")

\* handleContinuityCheckMessage: a CCM received on a ring port sets its
\* deadline anew and is reported as the link coming up, every time.  The
\* endpoint-id tiebreak only renames the port.
HandleContinuityCheckMessage(s, p) ==
    MauTypeChangeInd([s EXCEPT !.ccmSilence[p] = 0], p, "UP")

\* handleContinuityCheckTimer: past the deadline the link is reported
\* down, on every expiry until a CCM comes; then a CCM is sent
\* (setupContinuityCheck, sendCCM) and a new timer is scheduled.
HandleContinuityCheckTimer(s, p, late) ==
    LET s1 == IF late THEN MauTypeChangeInd(s, p, "DOWN") ELSE s
    IN  [SetupContinuityCheck(s1, p) EXCEPT !.ccmArmed = @ \cup {p}]

-----------------------------------------------------------------------------
(* Received frames: handleMrpPDU and the interconnection handlers        *)
(* (Mrp.cc 487-722, 1751-1859).  The received packet "rx" and the copy    *)
(* handed to an interconnection handler "dup" are freed or forwarded.     *)

Free(s, obj) == Emit(s, [op |-> "delete", obj |-> obj])
Peek(s, obj) == Emit(s, [op |-> "peek", obj |-> obj])
Forward(s, obj) == Emit(s, [op |-> "forward", obj |-> obj])
RuntimeError(s, what) == Emit(s, [op |-> "error", obj |-> what])

\* interconnForwardReq out of the other ring port.
ForwardToOtherPort(s, port) ==
    IF port \in {s.primaryRingPort, s.secondaryRingPort}
    THEN Forward(s, "dup") ELSE s

\* INTEST, INLINKUP/DOWN and INLINKSTATUSPOLL: forwarded only in CHK_RO.
\* The switch has no case DE: it reaches the "Unknown NodeState" default.
InterconnInd(s, port) ==
    CASE s.currentState = "CHK_RO" -> ForwardToOtherPort(s, port)
      [] s.currentState = "DE" -> RuntimeError(s, "Unknown NodeState")
      [] OTHER -> Free(s, "dup")

\* INTOPOLOGYCHANGE: in CHK_RO the copy is freed, then still forwarded.
InterconnTopologyChangeInd(s, zero, port) ==
    LET s0   == Touch(s, "topologyChangeTimer")
        idle == "topologyChangeTimer" \notin s0.timers
        s1   == IF idle THEN TopologyChangeReq(s0, zero) ELSE s0
    IN  CASE s.currentState \in {"PRM_UP", "CHK_RC"} -> Free(s1, "dup")
          [] s.currentState = "CHK_RO" ->
                 ForwardToOtherPort(IF idle THEN Free(s1, "dup") ELSE s1, port)
          [] s.currentState = "DE" -> RuntimeError(s, "Unknown NodeState")
          [] OTHER -> Free(s, "dup")

\* The OPTION TLV: its sub-TLV, acted on by an MRA only.
OptionInd(s, pdu) ==
    CASE pdu.sub = "TEST_MGR_NACK" /\ s.expectedRole = "MANAGER_AUTO" ->
           TestMgrNackInd(s, pdu.sa, pdu.prio, pdu.otherSa)
      [] pdu.sub = "TEST_PROPAGATE" /\ s.expectedRole = "MANAGER_AUTO" ->
           TestPropagateInd(s, pdu.sa, pdu.otherSa, pdu.otherPrio)
      [] OTHER -> s

\* A TOPOLOGYCHANGE that passes the sequence check.
TcAccepted(pdu) ==
    pdu.type = "TOPOLOGYCHANGE" /\ pdu.domain /\ pdu.seq > LastTopologyId

\* The first TLV, dispatched; a duplicate TOPOLOGYCHANGE frees the packet.
FirstTlvInd(s, pdu, port) ==
    CASE pdu.type \in {"TEST", "TOPOLOGYCHANGE", "LINKUP", "LINKDOWN",
                       "OPTION"} /\ ~pdu.domain -> s
      [] pdu.type = "TEST" -> TestRingInd(s, pdu.sa, pdu.prio)
      [] pdu.type = "TOPOLOGYCHANGE" ->
           IF TcAccepted(pdu) THEN TopologyChangeInd(s, pdu.sa)
           ELSE Free(s, "rx")
      [] pdu.type = "LINKUP" -> LinkChangeInd(s, "UP")
      [] pdu.type = "LINKDOWN" -> LinkChangeInd(s, "DOWN")
      [] pdu.type = "OPTION" -> OptionInd(s, pdu)
      [] pdu.type = "INTOPOLOGYCHANGE" ->
           InterconnTopologyChangeInd(s, pdu.zero, port)
      [] OTHER -> InterconnInd(s, port)

\* After the switch: the TLV after CommonTlv is peeked; an MRP_Option
\* there (an MRA puts AUTOMGR after its MRP_Test) has its sub-TLV handled
\* as the first TLV's is, if the ring id matched.  Then the packet is freed.
SecondTlvInd(s, pdu) ==
    IF pdu.type = "TEST" /\ pdu.domain /\ pdu.second # "END"
    THEN OptionInd(s, [sub |-> pdu.second])
    ELSE s

HandleMrpPDU(s, pdu, port) ==
    Free(SecondTlvInd(Peek(FirstTlvInd(s, pdu, port), "rx"), pdu), "rx")

(* What the ring can deliver in setup c.  Frames of a foreign domain     *)
(* differ only in the failed ring id check, so one per type is enough.   *)
OwnDomainPdus(c) ==
    [type : {"TEST"}, sa : c.sources, prio : c.prios,
     second : {"END"} \cup (c.subs \cap {"AUTOMGR"}), domain : {TRUE}]
    \cup [type : {"TOPOLOGYCHANGE"}, sa : c.sources, seq : c.seqIds,
          domain : {TRUE}]
    \cup [type : {"LINKUP", "LINKDOWN"}, domain : {TRUE}]
    \cup [type : {"OPTION"}, sub : c.subs \cap {"TEST_MGR_NACK"},
          sa : c.sources, prio : c.prios,
          otherSa : {LocalBridgeAddress, BroadcastAddress}, domain : {TRUE}]
    \cup [type : {"OPTION"}, sub : c.subs \cap {"TEST_PROPAGATE"},
          sa : c.sources, otherSa : c.sources,
          otherPrio : c.prios, domain : {TRUE}]
    \cup [type : {"OPTION"}, sub : c.subs \cap {"AUTOMGR"}, domain : {TRUE}]
ForeignDomainPdus ==
    [type : {"TEST", "TOPOLOGYCHANGE", "LINKUP", "LINKDOWN", "OPTION"},
     domain : {FALSE}]
InterconnPdus ==
    [type : {"INTEST", "INLINKUP", "INLINKDOWN", "INLINKSTATUSPOLL"},
     domain : BOOLEAN]
    \cup [type : {"INTOPOLOGYCHANGE"}, zero : BOOLEAN, domain : BOOLEAN]
Pdus(c) == OwnDomainPdus(c) \cup ForeignDomainPdus \cup InterconnPdus

-----------------------------------------------------------------------------
(* The node and its environment.                                         *)

\* initRingPorts: ringInterface1 is PRIMARY, ringInterface2 SECONDARY, both
\* BLOCKED (continuityCheck is the per-node enableLinkCheckOnRing).
InitRingPorts(ring1) ==
    [portRole |-> [p \in Ports |-> IF p = ring1 THEN "PRIMARY" ELSE "SECONDARY"],
     portState |-> [p \in Ports |-> "BLOCKED"]]

Init ==
    /\ setup \in Setups
    /\ expectedRole = setup.role
    /\ enableLinkCheckOnRing = setup.linkCheck
    /\ currentState = "POWER_ON"
    /\ currentRingState = "UNDEFINED"
    /\ primaryRingPort \in Ports
    /\ secondaryRingPort \in Ports \ {primaryRingPort}
    /\ portRole = InitRingPorts(primaryRingPort).portRole
    /\ portState = InitRingPorts(primaryRingPort).portState
    /\ isUp \in [Ports -> BOOLEAN]
    /\ carrier \in IF "F_CARRIER" \in ChangeFields THEN [Ports -> BOOLEAN]
                   ELSE {[p \in Ports |-> TRUE]}
    /\ timers = {"startUpTimer"}
    /\ timersDeleted = FALSE
    /\ addTest = FALSE
    /\ noTopologyChange = NoTopologyChange
    /\ reactOnLinkChange = setup.reactOnLinkChange
    /\ testRetransmissionCount = 0
    /\ testMaxRetransmissionCount = TestMonitoringCount - 1
    /\ topologyChangeRepeatCount = 0
    /\ linkChangeCount = LinkMaxChange
    /\ monNReturn = 0
    /\ localManagerPrio = DEFAULT
    /\ hostBestMRMPriority = LowestPriority
    /\ hostBestMRMSourceAddress = BroadcastAddress
    /\ fdbEntries = {}
    /\ ccmArmed = {}
    /\ ccmSilence = [p \in Ports |-> 0]
    /\ faults = {}
    /\ up = TRUE
    /\ delayPending = [p \in Ports |-> [f \in Fields |-> 0]]
    /\ tcAccepted = {}

Expire(t) == [Node EXCEPT !.timers = @ \ {t}]

\* The module state and the environment outside the node record.
EnvUnchanged == UNCHANGED <<up, delayPending, tcAccepted, setup>>

\* handleMessageWhenUp dispatches an expired timer to its handler.
Expires(t) == up /\ t \in timers

StartUpTimer ==
    Expires("startUpTimer") /\ Commit(Start(Expire("startUpTimer")))
    /\ EnvUnchanged
TestTimer ==
    Expires("testTimer") /\ Commit(HandleTestTimer(Expire("testTimer")))
    /\ EnvUnchanged
TopologyChangeTimer ==
    /\ Expires("topologyChangeTimer")
    /\ Commit(HandleTopologyChangeTimer(Expire("topologyChangeTimer")))
    /\ EnvUnchanged
LinkUpTimer ==
    Expires("linkUpTimer") /\ Commit(HandleLinkUpTimer(Expire("linkUpTimer")))
    /\ EnvUnchanged
LinkDownTimer ==
    /\ Expires("linkDownTimer")
    /\ Commit(HandleLinkDownTimer(Expire("linkDownTimer")))
    /\ EnvUnchanged
FdbClearTimer ==
    Expires("fdbClearTimer") /\ Commit(ClearLocalFDB(Expire("fdbClearTimer")))
    /\ EnvUnchanged
FdbClearDelay ==
    /\ Expires("fdbClearDelay")
    /\ Commit(ClearLocalFDBDelayed(Expire("fdbClearDelay")))
    /\ EnvUnchanged
\* "action done by handleDelayTimer": the expiry changes nothing else.
LinkUpHysteresisTimer ==
    Expires("linkUpHysteresisTimer") /\ Commit(Expire("linkUpHysteresisTimer"))
    /\ EnvUnchanged

\* The ContinuityCheckTimer of port p (kind 1).  stop() does not cancel it;
\* one that expires while the module is down is dropped, and with it the
\* chain of CCM timers of the port.  Whether the deadline has passed is
\* read off the expiries counted since it was set (CcmLifetime).
ContinuityCheckTimer(p) ==
    /\ p \in ccmArmed
    /\ LET n == IF ccmSilence[p] > CcmLifetime THEN ccmSilence[p]
                ELSE ccmSilence[p] + 1
           s1 == [Node EXCEPT !.ccmArmed = @ \ {p}]
       IN  IF up
           THEN \E late \in IF n < CcmLifetime THEN {FALSE}
                           ELSE IF n = CcmLifetime THEN BOOLEAN ELSE {TRUE} :
                    Commit(HandleContinuityCheckTimer(
                               [s1 EXCEPT !.ccmSilence[p] = n], p, late))
           ELSE Commit(s1)
    /\ EnvUnchanged

\* A CCM from the ring neighbour on port p, delivered once start() has
\* registered the CCM group address.
ReceiveCcm(p) ==
    /\ up /\ enableLinkCheckOnRing /\ currentState # "POWER_ON"
    /\ Commit(HandleContinuityCheckMessage(Node, p))
    /\ EnvUnchanged

\* The admin state (F_STATE) or the carrier (F_CARRIER) of a ring port
\* changes; receiveSignal restarts the hysteresis timer and schedules a
\* DelayTimer.  The signal subscription outlives stop().
InterfaceChange(p, f) ==
    /\ delayPending[p][f] < MaxPendingDelay
    /\ setup.linksChange
    /\ LET s1 == IF f = "F_STATE" THEN [Node EXCEPT !.isUp[p] = ~@]
                 ELSE [Node EXCEPT !.carrier[p] = ~@]
           s2 == Touch(s1, "linkUpHysteresisTimer")
       IN  Commit(Arm(Disarm(s2, "linkUpHysteresisTimer"),
                      "linkUpHysteresisTimer"))
    /\ delayPending' = [delayPending EXCEPT ![p][f] = @ + 1]
    /\ UNCHANGED <<up, tcAccepted, setup>>

DelayTimer(p, f) ==
    /\ delayPending[p][f] > 0
    /\ delayPending' = [delayPending EXCEPT ![p][f] = @ - 1]
    /\ IF up THEN Commit(HandleDelayTimer(Node, p, f))
       ELSE Commit(Node)     \* dropped while the module is down
    /\ UNCHANGED <<up, tcAccepted, setup>>

\* A frame from the relay, rescheduled by processingDelay, then handled.
Receive(pdu, port) ==
    /\ up
    /\ LET again == TcAccepted(pdu) /\ pdu.seq \in tcAccepted
           t == HandleMrpPDU(Node, pdu, port)
       IN  Commit(IF again THEN Emit(t, [op |-> "tcAgain", obj |-> "tc"])
                  ELSE t)
    /\ tcAccepted' = IF TcAccepted(pdu) THEN tcAccepted \cup {pdu.seq}
                     ELSE tcAccepted
    /\ UNCHANGED <<up, delayPending, setup>>

\* handleStopOperation / handleCrashOperation: stop().
Crash ==
    /\ setup.lifecycle /\ up
    /\ up' = FALSE
    /\ Commit(Stop(Node))
    /\ UNCHANGED <<delayPending, tcAccepted, setup>>

\* handleStartOperation: the call of start() is commented out.
Restart ==
    /\ setup.lifecycle /\ ~up
    /\ up' = TRUE
    /\ Commit(Node)
    /\ UNCHANGED <<delayPending, tcAccepted, setup>>

Next ==
    \/ StartUpTimer \/ TestTimer \/ TopologyChangeTimer
    \/ LinkUpTimer \/ LinkDownTimer \/ FdbClearTimer \/ FdbClearDelay
    \/ LinkUpHysteresisTimer
    \/ \E p \in Ports, f \in ChangeFields :
           InterfaceChange(p, f) \/ DelayTimer(p, f)
    \/ \E pdu \in Pdus(setup), port \in Ports : Receive(pdu, port)
    \/ \E p \in Ports : ContinuityCheckTimer(p) \/ ReceiveCcm(p)
    \/ Crash \/ Restart

\* The simulation kernel delivers every scheduled timer.
Fairness ==
    /\ WF_vars(TestTimer)
    /\ WF_vars(StartUpTimer)
    /\ WF_vars(LinkUpTimer)
    /\ WF_vars(LinkDownTimer)

Spec == Init /\ [][Next]_vars /\ Fairness


-----------------------------------------------------------------------------
(* Properties.                                                            *)

TypeOK ==
    /\ expectedRole \in Roles
    /\ currentState \in NodeStates
    /\ currentRingState \in RingStates
    /\ {primaryRingPort, secondaryRingPort} = Ports
    /\ portRole \in [Ports -> PortRoles]
    /\ portState \in [Ports -> PortStates]
    /\ isUp \in [Ports -> BOOLEAN] /\ carrier \in [Ports -> BOOLEAN]
    /\ timers \subseteq Timers
    /\ faults \subseteq {"useDeleted", "error", "useAfterFree", "tcAgain"}
    /\ setup \in Setups /\ tcAccepted \subseteq setup.seqIds
    /\ testRetransmissionCount \in Nat
    /\ testMaxRetransmissionCount \in Nat
    /\ topologyChangeRepeatCount \in 0..(TopologyChangeMaxRepeatCount - 1)
    /\ linkChangeCount \in 0..(CounterMod - 1)
    /\ monNReturn \in 0..(MonNRmax + 1)
    /\ localManagerPrio \in Priorities /\ hostBestMRMPriority \in Priorities
    /\ hostBestMRMSourceAddress \in Macs
    /\ fdbEntries \subseteq RingForwarding
    /\ ccmArmed \subseteq Ports
    /\ ccmSilence \in [Ports -> 0..(CcmLifetime + 1)]
    /\ enableLinkCheckOnRing \in BOOLEAN

(* The retransmission counter of the ring test never passes its limit:    *)
(* handleTestTimer in CHK_RC counts up only below the limit, and every     *)
(* place that lowers the limit (testRingInd, mrmInit, the LINKUP handling  *)
(* of CHK_RO and PRM_UP) resets the counter with it.  Spec section 8 (4)   *)
(* asks for count <= limit + 1.                                            *)
TestRetransmissionBounded ==
    testRetransmissionCount <= testMaxRetransmissionCount

(* A running manager always has its ring test timer armed in PRM_UP,      *)
(* CHK_RO and CHK_RC: testRingReq rearms it, and only the primary-port    *)
(* loss of PRM_UP (to AC_STAT1) cancels it.  Otherwise the ring is never   *)
(* tested again.                                                           *)
ManagerKeepsTesting ==
    expectedRole \in {"MANAGER", "MANAGER_AUTO"} /\ currentState \in ManagerStates
        => "testTimer" \in timers

(* A client forwards on its primary port in every client state and on its *)
(* secondary port only in PT_IDLE (mauTypeChangeInd, topologyChangeInd,    *)
(* handleLinkUpTimer); anything else breaks the ring or the path.          *)
ClientPortDiscipline ==
    expectedRole = "CLIENT" =>
        \A p \in Ports :
            portState[p] = "FORWARDING" <=>
                \/ p = primaryRingPort /\ currentState \in ClientStates
                \/ p = secondaryRingPort /\ currentState = "PT_IDLE"

(* A manager in CHK_RC (ring closed) with both links up keeps one ring    *)
(* port BLOCKED, or the closed ring is a forwarding loop.  Spec section 8 (2) requires the      *)
(* secondary port BLOCKED there.                                           *)
NoLoopInClosedRing ==
    (currentState = "CHK_RC" /\ \A p \in Ports : isUp[p] /\ carrier[p])
        => \E q \in Ports : portState[q] # "FORWARDING"

(* linkChangeReq counts linkChangeCount down from linkMaxChange; the      *)
(* counter stays in 0..linkMaxChange (it is unsigned).                     *)
LinkChangeCountInRange == linkChangeCount <= LinkMaxChange

(* In a client state the port roles match the ring ports: the primary    *)
(* ring port has role PRIMARY and the secondary SECONDARY (spec section 3  *)
(* invariant 2); LINKUP/LINKDOWN PDUs carry the primary port's role.       *)
PortRolesFollowRingPorts ==
    currentState \in ClientStates =>
        /\ portRole[primaryRingPort] = "PRIMARY"
        /\ portRole[secondaryRingPort] = "SECONDARY"

(* A TOPOLOGYCHANGE PDU is acted on at most once per sequence id: the     *)
(* check sequence > lastTopologyId suppresses duplicates (spec section 3   *)
(* invariant 6, section 8 scenario 5).                                     *)
TopologyChangeAcceptedOnce == "tcAgain" \notin faults

(* No event handler uses a packet after deleting it: handleMrpPDU and the *)
(* interconnection handlers free "rx" or "dup" last.                       *)
NoPacketUseAfterFree ==
    "useAfterFree" \notin faults

(* The ring state follows the manager state: CLOSED in CHK_RC, OPEN in    *)
(* PRM_UP and CHK_RO (spec section 3 invariant 3).  mauTypeChangeInd,       *)
(* testRingInd, linkChangeInd and handleTestTimer each set the state and    *)
(* the ring state apart, and mrmInit sets OPEN before its synthetic link    *)
(* events run in the state being left.  The MRA monitor's promotions        *)
(* (mrmInit, then the state) keep it from DE_IDLE and PT_IDLE; the one      *)
(* from PT does not (MrpMraRingState).                                     *)
RingStateFollowsState ==
    /\ currentState = "CHK_RC" => currentRingState = "CLOSED"
    /\ currentState \in {"PRM_UP", "CHK_RO"} => currentRingState = "OPEN"

(* A node acting as manager does not forward MC_TEST/MC_CONTROL frames on *)
(* its ring ports: mrmInit removes the client's forwarding entries when an *)
(* MRA takes the manager role (spec section 4, mrmInit).                   *)
ManagerHasNoRingForwarding ==
    currentState \in ManagerStates => fdbEntries = {}

(* A demoted MRA (in a client state) keeps its test timer armed, so that  *)
(* handleTestTimer counts monNReturn and can promote it back to manager.   *)
DemotedMraMonitors ==
    expectedRole = "MANAGER_AUTO" /\ currentState \in ClientStates
        => "testTimer" \in timers

(* A ring client's state says which of its links are up: PT and PT_IDLE  *)
(* both, DE and DE_IDLE the primary only, AC_STAT1 neither.  Once every    *)
(* ProcessDelayTimer of the interface changes has been handled, the state  *)
(* agrees with the interfaces, whatever order the changes and their        *)
(* delayed reports came in (mrcInit reads getState(), handleDelayTimer      *)
(* state and carrier).  Without CCM: a silent neighbour is not a link      *)
(* change of the interface.                                                *)
LinkUp(p) == isUp[p] /\ carrier[p]

ClientStateFollowsLinks ==
    (/\ expectedRole = "CLIENT" /\ ~enableLinkCheckOnRing
     /\ \A p \in Ports, f \in Fields : delayPending[p][f] = 0)
        => CASE currentState \in {"PT", "PT_IDLE"} ->
                    LinkUp(primaryRingPort) /\ LinkUp(secondaryRingPort)
             [] currentState \in {"DE", "DE_IDLE"} ->
                    LinkUp(primaryRingPort) /\ ~LinkUp(secondaryRingPort)
             [] currentState = "AC_STAT1" ->
                    ~LinkUp(primaryRingPort) /\ ~LinkUp(secondaryRingPort)
             [] OTHER -> TRUE

(* A ring client does not forward on a ring port whose neighbour has     *)
(* gone silent: once the deadline of handleContinuityCheckTimer has       *)
(* certainly passed with no CCM and no interface event since, the port    *)
(* has been reported down (mauTypeChangeInd) and is not FORWARDING,       *)
(* whatever frames, link changes and timers came in between.              *)
CcmSilentPortNotForwarding ==
    \A p \in Ports :
        expectedRole = "CLIENT" /\ ccmSilence[p] > CcmLifetime
            => portState[p] # "FORWARDING"

(* A manager whose test frames no longer come back leaves CHK_RC:         *)
(* handleTestTimer counts the missing frames and opens the ring once      *)
(* testMaxRetransmissionCount is reached.                                  *)
RingOpenDetected == currentState = "CHK_RC" ~> currentState # "CHK_RC"

(* A ring client does not stay in PT or DE, the states in which one link *)
(* has changed and the change is being announced: linkChangeReq schedules  *)
(* linkUpTimer (PT) or linkDownTimer (DE), and the handler repeats LINKUP  *)
(* or LINKDOWN until linkChangeCount runs out, then moves to PT_IDLE (the   *)
(* secondary port starts forwarding) or DE_IDLE.  A path into PT or DE    *)
(* that leaves its timer idle keeps the client there for good.            *)
ClientLinkChangeEnds ==
    \A st \in {"PT", "DE"} :
        (expectedRole = "CLIENT" /\ currentState = st)
            ~> (expectedRole # "CLIENT" \/ currentState # st)

(* The topology change bursts of the node, seen through MrpTopologyChange: *)
(* a burst runs while topologyChangeTimer is scheduled, and the repeats    *)
(* still due are topologyChangeRepeatCount.  After stop() the timer        *)
(* object is deleted: scheduling it again is a use after free, not a       *)
(* burst, so a stopped node runs none.                                     *)
(* Spec sections 3 and 5: stop() forces both ring ports to DISABLED and   *)
(* the role to DISABLED, cancels every armed timer, and events delivered  *)
(* after it are dropped.  So once handleStopOperation or                  *)
(* handleCrashOperation has run stop(), the node stays as stop() left it: *)
(* no timer pending, no port forwarding or blocking, no role, whatever    *)
(* interface signals, CCM timers, DelayTimers and restarts come later.    *)
StopIsFinal ==
    timersDeleted =>
        /\ expectedRole = "DISABLED"
        /\ \A p \in Ports : portState[p] = "DISABLED" /\ portRole[p] = "NOTASSIGNED"
        /\ timers = {} /\ ccmArmed = {}

TCRunning == "topologyChangeTimer" \in timers /\ ~timersDeleted

TC == INSTANCE MrpTopologyChange
        WITH MaxRepeat <- TopologyChangeMaxRepeatCount,
             running <- TCRunning,
             remaining <- IF TCRunning THEN topologyChangeRepeatCount
                          ELSE TopologyChangeMaxRepeatCount - 1

(* Every burst that topologyChangeReq starts announces the change         *)
(* topologyChangeMaxRepeatCount times before handleTopologyChangeTimer      *)
(* flushes the FDB, whatever stop(), the MRA demotion of testMgrNackInd    *)
(* (which cancels the timer) and later requests do in between.            *)
TopologyChangeRefinement == TC!Spec

(* The same promise for the setups other than MANAGER_AUTO, whose         *)
(* demotion breaks it (TopologyChangeRefinement in the MrpMraTcBurst run): *)
(* a run that explores an MRA next to a manager and clients checks the     *)
(* bursts of the others with it.  The setup never changes, so for them    *)
(* this is TC!Spec.                                                        *)
NotMra == setup.role # "MANAGER_AUTO"
RingTopologyChangeRefinement ==
    /\ NotMra => TC!Init
    /\ [][NotMra => TC!Next]_TC!vars

=============================================================================
