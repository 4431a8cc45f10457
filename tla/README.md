# TLA+ model of the MRP node (`src/inet/linklayer/mrp/Mrp.cc`)

This directory holds a TLC-checkable model of one Media Redundancy Protocol
(IEC 62439-2) node as INET implements it in `Mrp.cc`. It also holds the
configurations that check it and the findings those checks produced.

## The system

An MRP node is a switch with two ring ports. It runs in one of three roles:

- a ring **manager** (MRM, role `MANAGER`);
- a **client** (MRC, role `CLIENT`);
- an **automatic manager** (MRA, role `MANAGER_AUTO`). An MRA competes for the
  manager role by priority. When it loses, it is demoted to client. When the
  better manager goes quiet, it promotes itself again.

Everything a node does is triggered by one of three kinds of event, each run to
completion by the OMNeT++ kernel (one event at a time, no threads):

- **Self-messages.** There are eight named timers: `testTimer`,
  `topologyChangeTimer`, `linkUpTimer`, `linkDownTimer`, `fdbClearTimer`,
  `fdbClearDelay`, `startUpTimer` and `linkUpHysteresisTimer`. Besides these,
  `ProcessDelayTimer`s are scheduled by `receiveSignal` when a ring interface
  changes state or carrier. `handleMessageWhenUp` dispatches all of them.
- **MRP PDUs from the relay.** They are rescheduled by `processingDelay` and
  then handled by `handleMrpPDU`. That function dispatches on the first TLV:
  - `TEST` goes to `testRingInd`;
  - `TOPOLOGYCHANGE` goes to `topologyChangeInd`;
  - `LINKUP`/`LINKDOWN` go to `linkChangeInd`;
  - `OPTION` goes to `testMgrNackInd`/`testPropagateInd`;
  - the interconnection TLVs go to the `interconn*Ind` handlers.

  After the first TLV and the common TLV, an MRP_Option TLV may follow; an MRA
  puts one with an `AUTOMGR` sub-TLV after its MRP_Test. Its sub-TLV is handled
  as that of a first OPTION TLV is.
- **Lifecycle operations.** Stop and crash call `stop()`. Start is empty.
- **Continuity check (CCM), with `enableLinkCheckOnRing`.** `start()` gives each
  ring port a `ContinuityCheckTimer`. Every expiry sends a CCM, reports the link
  DOWN if the port's deadline `nextUpdate` has passed, and schedules the next
  timer. A CCM received from the neighbour sets `nextUpdate = now + 3.5 *
  interval` and is reported as the link coming UP.

The state machine has nine node states. `POWER_ON` and `AC_STAT1` are shared.
`PRM_UP`, `CHK_RO` and `CHK_RC` are manager states. `DE_IDLE`, `PT`, `DE` and
`PT_IDLE` are client states. `mauTypeChangeInd` is the link-change handler of
every state. The role inits (`mrcInit`, `mrmInit`, `mraInit`) end with two
synthetic `mauTypeChangeInd` calls, one per ring port. Those calls run in
whatever state the node is in at that moment, and several findings below come
from that.

## Modules

| module | what it is |
|---|---|
| `MrpNode.tla` | One node: its state, every handler, the environment (interface changes, frames from the ring, lifecycle) and the properties. |
| `MrpTopologyChange.tla` | What a manager promises about its topology change bursts: a burst starts only when none runs, announces the change `topologyChangeMaxRepeatCount` times, then flushes the FDB, unless it is cancelled. `MrpNode` instantiates it as `TC`. |
| `MC_MrpNode.tla` | The model values and small sets that the `.cfg` files substitute for the constants, the symmetry set and the view. |

### How the model corresponds to the code

**State.** The variables of `MrpNode` are the members of `class Mrp` that
control depends on:

- `expectedRole`, `currentState`, `currentRingState`;
- the two ring ports, and `portRole`/`portState` (the `MrpInterfaceData` of each
  port);
- `isUp`/`carrier` of each `NetworkInterface`;
- `timers`, the set of scheduled named timers, and `timersDeleted`, which is
  TRUE after `stop()` has `cancelAndDelete`d them;
- `addTest`, `noTopologyChange`, `reactOnLinkChange`;
- the retransmission, topology-change, link-change and monitor counters;
- the manager priorities and the best-manager address;
- `fdbEntries`, the MRP forwarding entries that `mrcInit` adds and `mrmInit`
  removes;
- `enableLinkCheckOnRing`, and for CCM `ccmArmed` (the ports with a pending
  `ContinuityCheckTimer`) and `ccmSilence` (the timer expiries of each port
  since its `nextUpdate` was last set).

The environment has three more variables:

- `up`: the module is operational;
- `delayPending`: pending `ProcessDelayTimer`s per port and field;
- `tcAccepted`: the TOPOLOGYCHANGE ids already acted on. It is history kept for
  one property;
- `setup`: the setup of the run, chosen by `Init` and never changed.

`Init` picks one of the `Setups` of the run (`SetupType`). A setup holds the
node's parameters: `mrpRole`, `enableLinkCheckOnRing` and `reactOnLinkChange`.
It also holds the environment of the node:
- whether the lifecycle stops, crashes and restarts it;
- whether its links change;
- what the ring delivers (source addresses, priorities, MRP_Option sub-TLVs
  and TOPOLOGYCHANGE sequence ids, from which `Pdus(setup)` is built).

A run can so check several configurations at once, an MRA among other
managers next to a client whose links flap.

**Handlers.** Each C++ handler is an operator from a node record `s` to the
record after it, written in the code's order:

- `TestRingReq`, `TopologyChangeReq`, `LinkChangeReq`, and the frame
  builders `SetupTestRingReq`, `SetupTopologyChangeReq`, `SetupLinkChangeReq`,
  `SetupContinuityCheck`;
- `SetTimingProfile` (of which only `testMonitoringCount` matters) and
  `InitRingPorts`, the state `initialize` leaves;
- `MauAcStat1` … `MauPtIdle`, one per case of `mauTypeChangeInd`;
- `MrcInit`, `MrmInit`, `MraInit`, `Start`, `Stop`;
- `TestRingInd`, `TopologyChangeInd`, `LinkChangeInd`, `TestMgrNackInd`,
  `TestPropagateInd`;
- `HandleTestTimer`, `HandleTopologyChangeTimer`, `HandleLinkUpTimer`,
  `HandleLinkDownTimer`, `HandleDelayTimer`, `ClearLocalFDB`;
- `StartContinuityCheck`, `HandleContinuityCheckTimer`,
  `HandleContinuityCheckMessage`;
- `HandleMrpPDU` with `FirstTlvInd`, `OptionInd`, `SecondTlvInd` (the
  additional Option TLV), `InterconnInd` and `InterconnTopologyChangeInd`.

A nested call is a nested operator application. For example, `testMgrNackInd`
calling `mrcInit`, which calls `mauTypeChangeInd` in the old state, is modelled
exactly so. One event is one TLC step, with the whole handler inside it.

**Actions.** `Next` has one action per event kind:

- the expiry of each timer: `StartUpTimer`, `TestTimer`, …,
  `LinkUpHysteresisTimer`;
- `InterfaceChange(p, f)` (`receiveSignal`);
- `DelayTimer(p, f)`;
- `Receive(pdu, port)`;
- `ContinuityCheckTimer(p)` and `ReceiveCcm(p)`;
- `Crash` and `Restart`.

`PROJECT.json`'s `map` names the lines each definition translates.

**Faults.** Within one event, the record carries a log `out` of what the
handler did to packets and timer objects: deletes, peeks, forwards, uses of
deleted timers and runtime errors. `Commit` keeps only the faults the log
shows, in `faults`:

- `useAfterFree`: a packet used after its `delete`;
- `useDeleted`: a timer object used after `stop()`;
- `error`: a `cRuntimeError`;
- `tcAgain`: a TOPOLOGYCHANGE id acted on twice.

**Abstractions.**

- **Time.** Any armed timer may expire at any moment. This covers every
  relation of the intervals that `setTimingProfile` configures. The profile
  (`TimingProfile`, one of 500, 200, 30 and 10 ms; any other value makes
  `setTimingProfile` throw in `initialize`) gives `testMonitoringCount`: 5
  for 500 ms, 3 otherwise.
- **Frames sent.** They are not recorded (`Send(s, pdu) == s`), because a
  single node's properties do not read them.
- **Frame fields.** Only those that `handleMrpPDU` branches on are kept: type,
  source, priority, sequence id, the ring-domain check, the sub-TLV, the
  best-manager fields, and whether an MRP_Test frame carries an additional
  Option TLV. Addresses and priorities are small ordered integers,
  compared the way `MacAddress` and `MrpPriority` compare.
- **CCM deadline.** The timers of a port fire on a grid of one interval from
  time 0, and the deadline is 3.5 intervals after the last CCM or interface
  event. So the 1st to 3rd expiry after it come before the deadline, the 4th
  may come before or after it (by the phase of the event in its interval), and
  every later one after it. `ccmSilence` counts the expiries up to
  `CcmLifetime + 1` (5), and `ContinuityCheckTimer` chooses only outcomes that
  count allows. (The very first deadline, at 3.5 intervals from time 0, is
  certainly passed at the 4th expiry; the model also allows it not to be.)
- **CCM contents.** The endpoint id tiebreak, the CFM name, the flags and the
  sequence counters are not modelled: nothing in the state machine reads them.
- **`linkChangeCount`.** It is kept modulo `CounterMod` (8), because the code
  decrements an unsigned counter.

## Runs

Each run is listed in `PROJECT.json` with its properties.

| run | expect | what it shows |
|---|---|---|
| `MrpManager` | pass | Four setups: a manager and a client under stop, crash and restart, a client with `enableLinkCheckOnRing`, and an MRA among better, equal and worse managers that is demoted by NACKs and promoted back by its monitor. A client without CCM, once every delayed interface report has been handled, is in the state its links call for: PT/PT_IDLE with both links up, DE/DE_IDLE with the primary only, AC_STAT1 with neither (`ClientStateFollowsLinks`). A manager keeps its test timer armed (`ManagerKeepsTesting`), its retransmission counter within its limit (`TestRetransmissionBounded`), and its ring state in step with its state (`RingStateFollowsState`). For the ring state, this covers the manager's transitions under flapping links and the MRA's promotions from `DE_IDLE` to `PRM_UP` and from `PT_IDLE` to `CHK_RO`. The MRA's promotion from `PT` breaks the property, and `MrpMraRingState` shows it. That promotion is out of this run's reach, because the MRA's links are fixed here. A client forwards on its primary port always, and on its secondary port only in `PT_IDLE` (`ClientPortDiscipline`). Every topology change burst of the setups other than the MRA behaves as `MrpTopologyChange` says (`RingTopologyChangeRefinement`); the MRA's bursts do not, which `MrpMraTcBurst` shows. A client does not forward on a port whose neighbour has been silent past the CCM deadline (`CcmSilentPortNotForwarding`). All of this holds under link flaps, frames, and CCMs arriving or not. |
| `MrpManagerLive` | pass | Four setups that run for good: a manager, an MRA, a client, and a client under CCM. A manager whose own test frames never return leaves `CHK_RC` (`RingOpenDetected`). A client never stays in `PT` or `DE`: its LINKUP or LINKDOWN repeats run out and it moves on to `PT_IDLE` or `DE_IDLE`, unless a link change takes it elsewhere first (`ClientLinkChangeEnds`). |
| `MrpManagerLoop` | violation | `NoLoopInClosedRing`: the manager is in `CHK_RC` with both ports FORWARDING and both links up. |
| `MrpClientRoles` | violation | `PortRolesFollowRingPorts`: the primary-port swap in `PT_IDLE` leaves the roles behind. |
| `MrpClientLinkCount` | violation | `LinkChangeCountInRange`: `linkChangeCount--` at zero wraps. |
| `MrpClientTcDup` | violation | `TopologyChangeAcceptedOnce`: `lastTopologyId` is never assigned. |
| `MrpPacketFree` | violation | `NoPacketUseAfterFree`, with a client and a manager: the duplicate-TOPOLOGYCHANGE branch deletes the packet that `handleMrpPDU` then peeks and deletes. TLC reports this shorter client trace. The manager reaches the same fault in `CHK_RO`: `interconnTopologyChangeInd` deletes the duplicated packet and then forwards it (1770-1775). |
| `MrpMraRingState` | violation | `RingStateFollowsState`: an MRA promoted from `PT` is in `CHK_RC` with ring state OPEN. |
| `MrpMraForwarding` | violation | `ManagerHasNoRingForwarding`: an MRA that becomes manager through `AC_STAT1` keeps the client's forwarding entries. |
| `MrpMraMonitor` | violation | `DemotedMraMonitors`: `mrcInit`'s synthetic link event in `PRM_UP` cancels `testTimer`, so the demoted MRA stops monitoring. Only a later path through `AC_STAT1` can make it manager again. |
| `MrpMraTcBurst` | violation | `TopologyChangeRefinement`: an MRA demoted during a topology change burst starts its next burst, after promotion, with a stale repeat counter. |
| `MrpStop` | violation | `StopIsFinal`: a client with `enableLinkCheckOnRing` that is stopped keeps its `ContinuityCheckTimer`s, which `stop()` does not cancel. Spec §5 says stop cancels every timer. With the CCM left out, the same property fails in two other ways. `receiveSignal` re-arms the deleted `linkUpHysteresisTimer` after `stop()`. A restarted node, which is never started again, handles a `DelayTimer` and sets a DISABLED port to BLOCKED. |

Each property of a passing run has a mutant in `PROJECT.json`. The mutant is a
plausible bug in the definition the property depends on, and TLC finds it under
the run's own configuration:

- the TC repeat counter not reloaded after the last repeat;
- a received CCM that does not renew the deadline;
- a counter not reset with its limit;
- the test timer not restarted;
- the ring state not opened;
- an unsigned decrement done as a signed one;
- the new secondary port not blocked;
- an off-by-one in the MRA monitor;
- the timer rearmed too late;
- a missing test frame not counted;
- `DE_IDLE` missing the loss of the primary link;
- a LINKUP sent without scheduling `linkUpTimer`.

### What the findings mean

**Loop in the closed ring.** Source: `Mrp.cc` 1648-1668, the CHK_RC case of
`mauTypeChangeInd`.

1. The primary port goes down in `CHK_RC`. The code calls `toggleRingPorts()`
   (1651) and sets no port state. The old primary, which is FORWARDING, becomes
   the secondary and stays FORWARDING. The old secondary, which is BLOCKED,
   becomes the primary. The node goes to `PRM_UP` with the ring OPEN.
2. The link of the old primary (now the secondary) comes back. Its UP report
   waits in a `DelayTimer`.
3. The link of the new primary drops. `PRM_UP` blocks the primary and goes to
   `AC_STAT1` (1600-1606).
4. The new primary's link returns. `AC_STAT1` sets the primary FORWARDING and
   goes back to `PRM_UP` (1576-1580).
5. The pending UP report of the secondary arrives. `PRM_UP` goes to `CHK_RC`
   with the ring CLOSED (1610-1616) and touches no port.

The result is a node in `CHK_RC` with both links up and both ports FORWARDING:
a broadcast loop. Without steps 3 and 4 the new primary stays BLOCKED, and the
closed ring has no loop: the only code that sets a manager's primary
FORWARDING is the `AC_STAT1` branch (1576, 1585).

The `CHK_RO` case, a few lines above, blocks the new secondary port, and spec §8
scenario 2 requires it.

**Client roles.** In `PT_IDLE` the primary-loss branch (1735-1742) swaps the
two port variables by hand instead of calling `toggleRingPorts()`. The roles
are never updated.

**Counter wrap.** `linkChangeReq` (1001-1016) decrements `linkChangeCount`
unconditionally. The `PT` primary-loss branch calls it after the LINKUP repeats
have brought the counter to zero.

**TOPOLOGYCHANGE duplicates.** `handleMrpPDU` compares the sequence id with
`lastTopologyId` (539), but nothing in `Mrp.cc` ever assigns `lastTopologyId`.
Every id above its initial value is therefore accepted every time, and every
other id takes the "already received" branch. That branch deletes the packet
(544), which is then peeked (661) and deleted again (721).

**Short topology change burst after a demotion.** `testMgrNackInd` (1482)
cancels `topologyChangeTimer` when the MRA is demoted, but it does not reload
`topologyChangeRepeatCount`. Only `handleTopologyChangeTimer` (900) and
`start()` (298) reload it. If the demotion falls in the middle of a burst, the
count stays where the burst stopped. After the MRA promotes itself again, its
next `topologyChangeReq` starts a burst with that count. The burst then sends
fewer than `topologyChangeMaxRepeatCount` TOPOLOGYCHANGE frames before the
flush, and with a count of 0 it sends only one. TLC shows it in 8 steps, as a
violation of the refinement of `MrpTopologyChange`.

**MRA re-promotion.**

- `handleTestTimer` calls `mrmInit()`, which sets the ring OPEN, and then sets
  `CHK_RC` (865-876).
- The `AC_STAT1` manager branch (1572-1595) never calls `mrmInit()`.
- `testMgrNackInd` runs `mrcInit()` while the state is still `PRM_UP`. Its
  synthetic link event cancels `testTimer` (1603), and the state is then
  overwritten.

## Constants and bounds

| constant | value | why it is enough |
|---|---|---|
| `Ports` | two model values | A node has exactly two ring ports. The symmetry set permutes them, which is sound because `Init` lets either port be primary, as the `ringPort1` parameter may. |
| `TimingProfile` | 200 | Gives `testMonitoringCount` 3, as for 200, 30 and 10 ms; only 500 ms gives 5, which only lengthens the count. |
| `TestMonitoringExtendedCount` | 4 | It is set in the header, not in `src/`. IEC 62439-2 makes the extended count larger than the normal one; 4 keeps the MRA's extended limit above the normal limit, so the places that go back to the normal limit really lower it. |
| `TopologyChangeMaxRepeatCount` | 2 | One repeat, then the flush: both branches of `handleTopologyChangeTimer`. |
| `LinkMaxChange` | 2 | The LINKUP/LINKDOWN repeats run down to 0, where the wrap happens. |
| `MonNRmax` | 0, 1 where no MRA is explored | Only the MRA reads it. 0 is the smallest value with which the MRA monitor both counts and promotes. |
| `CounterMod` | 8 | Stands for the unsigned width of `linkChangeCount`. A wrap to 7 is as far out of range as a wrap to 2^w-1. |
| `seqIds` of a setup, `LastTopologyId` | {0,1} or {1}, and 0 | One id at the initial `lastTopologyId` and one above it. |
| `MaxPendingDelay` | 1 | One pending `ProcessDelayTimer` per port and field. The handler reads the interface state when it expires, so more pending timers add only repetitions. |
| `Setups` | one setup; two in `MrpStop`, four in `MrpManager` and `MrpManagerLive` | A passing run of a node with both the lifecycle and CCM takes longer than a run may, so the CCM client of `MrpManager` runs without the lifecycle. `MrpStop` has one, because a violation is found in a few steps. |
| `CcmLifetime` | 4 (a definition) | It follows from the code's factor 3.5, as explained under Abstractions. |
| `ChangeFields` | `{"F_STATE"}` | Only the admin state changes; the carrier stays up. |
| `linksChange` of a setup | TRUE; FALSE for the MRA of `MrpManager` and `MrpMraTcBurst` | An MRA with changing links and every PDU kind is out of reach of a passing run, so its links keep their state at start. The other MRA runs let them change. |
| `sources`, `prios`, `subs` of a setup | small sets | For a manager or client, its own address and one peer. For an MRA, a better peer, itself and a worse peer, and priorities equal to and better than `MRADEFAULT`. |

`MC_View` leaves out the two FDB-flush timers, `faults` and `tcAccepted`. The
flush timers lead only to `clearTable()`, or after a stop to a use of a deleted
timer, which only `faults` records. `faults` and `tcAccepted` record history and
never enable or disable an action. Runs whose properties read none of these use
the view: `MrpManager` and `MrpManagerLive`.

## Fairness

`Spec` assumes weak fairness of `TestTimer`, `StartUpTimer`, `LinkUpTimer` and
`LinkDownTimer`. All are self-messages that the code has scheduled, and the
OMNeT++ kernel delivers every scheduled event that is not cancelled. Nothing is assumed about frames or link changes, which
come from outside the node.

`RingOpenDetected` needs only the test timer: the manager counts missing test
frames and opens the ring at the limit. `MrpManagerLive` lets only peers' frames
arrive, so the manager's own test frames never return.
`ClientLinkChangeEnds` needs the link timers: each expiry in `PT` or `DE`
repeats the announcement and counts `linkChangeCount` down, and at zero moves
the client on. Interface changes, frames and CCMs may still come at any time,
and may take the client out of `PT` or `DE` first.

## Refinement

`MrpNode` defines `TC == INSTANCE MrpTopologyChange WITH ...`, and the property
`TopologyChangeRefinement == TC!Spec`. `MrpManager` checks
`RingTopologyChangeRefinement`. That property is `TC!Init` and
`[][TC!Next]_TC!vars` for every setup but the MRA. The setup never changes, so
for those setups it is `TC!Spec`. TLC does not accept `[][A]_v` under an
implication, so the property is written as the two conjuncts. The refinement
mapping is:

- a burst runs while `topologyChangeTimer` is scheduled and not deleted by
  `stop()`;
- the repeats still due are `topologyChangeRepeatCount`.

The two actions that act on a burst map as follows:

- `topologyChangeReq` with a non-zero interval is `Begin`, or a stutter when a
  burst already runs;
- `handleTopologyChangeTimer` is `Repeat` or `Finish`.

Two kinds of step end a burst early:

- `stop()`, and the `cancelEvent` of the MRA demotion, are `Cancel`;
- a topology change with interval 0 flushes at once and is not a burst.

After `stop()` the timer object is deleted. Scheduling it again is a use after
free (recorded in `faults`), not a burst, so a stopped node runs none.

## What is not modelled, and why

- **A passing run of a node with both the CCM and the lifecycle.**
  `ContinuityCheckTimer` models it: `stop()` does not cancel the CCM timers, and
  one that expires while the module is down is dropped. `MrpStop` finds the
  violation this causes. A full exploration does not fit in a run's time.
- **The content of the frames built by `setup*Req`, and the intervals of the
  timing profile.** The model abstracts time and keeps no sent frames.
- **Carrier changes.** All runs keep the carrier up. With carrier changes,
  `ClientStateFollowsLinks` fails in one step: `mrcInit` reports a port by
  `getState()` alone (347-348), so a client started with a port up but without
  carrier enters `DE_IDLE` as if its primary link worked. No run keeps this
  case; `PROJECT.json` lists it as a hazard.
- **The destructor.** `~Mrp` (38-47) `cancelAndDelete`s the timers again, after
  `stop()` deleted them and left the pointers set, so a stopped or crashed node
  deletes its timers twice at teardown. Teardown comes after the last event
  and is not an action of the model.
- **`clearTable()` of the MAC table.** It is implemented outside `src/`. The
  model keeps the MRP forwarding entries it adds and removes, and it does not
  say what `clearTable()` does to them.
- **Other files under `src/`.** The packet filter, ICMP serializer, SCTP ALG,
  netfilter hook, analog model, gate-scheduling tree, namespace context and FCS
  checker are unrelated to MRP. `PROJECT.json` lists each with its reason.
  `PacketFilterBase` is the one with state of its own: the stream in progress
  and the drop counters. Its state changes go through
  `PacketProcessorBase` (start, check and end of streaming, `dropPacket`) and
  the abstract `matchesPacket`. That code is not in `src/` and the spec does
  not describe it, so a model would have to invent what it does.

## Plan for later work

1. **`MrpRing`**: a ring of two or three `MrpNode` instances joined by channels
   that may lose and reorder frames, with `Send` turned into channel messages.
   It will check the ring-wide promises of spec §8: exactly one manager, no
   loop, and recovery after a link loss.
2. **`MrpManagerAbstract`**: an abstract manager (ring OPEN or CLOSED, following
   whether the ring is whole) with `MrpNode` shown to refine it through
   `INSTANCE ... WITH`, as `MrpTopologyChange` is refined already.
3. **Runs with `F_CARRIER` changes** (the `getState()` vs carrier hazard), and
   a CCM manager in a smaller setup.
4. The interconnection `case DE` error and the carrier case of
   `ClientStateFollowsLinks`, each as a run of its own. The checker allows
   12 runs, and all are in use.
