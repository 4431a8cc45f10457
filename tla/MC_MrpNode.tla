----------------------------- MODULE MC_MrpNode -----------------------------
(* Model values and small instances of the constants of MrpNode for TLC. *)
EXTENDS MrpNode, TLC

CONSTANTS r1, r2      \* the two ring interfaces, as model values

MC_Ports == {r1, r2}

(* Either interface may be ringPort1: Init leaves it open, so the two     *)
(* ring ports are interchangeable.                                         *)
MC_Symmetry == Permutations(MC_Ports)

(* Bridge addresses ordered as MacAddress compares them: 1 is a peer      *)
(* better than this node, 2 is this node, 3 a worse peer, 4 broadcast.    *)
MC_Macs == 1..4
MC_Local == 2
MC_Broadcast == 4
MC_PeerMacs == MC_Macs \ {MC_Local}
\* For a role that only tells its own frames from the others': one of each.
MC_Sources == {MC_Local, 3}
MC_PeerSources == {3}
\* For an MRA the order matters: a better peer, itself, a worse peer.
MC_MraSources == {1, 2, 3}

(* MrpPriority values keep their order: DEFAULT 0x8000 < MRADEFAULT      *)
(* 0xA000 < 0xFFFF.                                                        *)
MC_Default == 1
MC_MraDefault == 2
MC_Lowest == 3
MC_AllPrios == {MC_Default, MC_MraDefault, MC_Lowest}
MC_OnePrio == {MC_Default}
\* Better than MRADEFAULT, and equal to it (the address decides).
MC_MraPrios == {MC_Default, MC_MraDefault}

(* TOPOLOGYCHANGE sequence ids around lastTopologyId = 0.                 *)
MC_SeqIds == {0, 1}
MC_NoSeqIds == {1}

MC_AllSubs == {"TEST_MGR_NACK", "TEST_PROPAGATE", "AUTOMGR"}
MC_NoSubs == {"AUTOMGR"}

(* What the ring delivers, and whether the node reacts to and sees link  *)
(* changes: par("reactOnLinkChange") and whether the interface signals    *)
(* fire at all.                                                            *)
MC_Env(react, links, sources, prios, subs, seqIds) ==
    [reactOnLinkChange |-> react, linksChange |-> links, sources |-> sources,
     prios |-> prios, subs |-> subs, seqIds |-> seqIds]
\* A ring of managers and clients: no MRP_Option PDUs but the AUTOMGR one.
MC_RingEnv(react, seqIds) ==
    MC_Env(react, TRUE, MC_Sources, MC_OnePrio, MC_NoSubs, seqIds)
\* A ring of MRAs: better, equal and worse managers, every sub-TLV.
MC_MraEnv(links) ==
    MC_Env(FALSE, links, MC_MraSources, MC_MraPrios, MC_AllSubs, MC_NoSeqIds)

(* Node setups: mrpRole, enableLinkCheckOnRing, whether the lifecycle     *)
(* stops, crashes and restarts the node, and its environment.             *)
MC_Setup(role, linkCheck, lc, env) ==
    [role |-> role, linkCheck |-> linkCheck, lifecycle |-> lc,
     reactOnLinkChange |-> env.reactOnLinkChange,
     linksChange |-> env.linksChange, sources |-> env.sources,
     prios |-> env.prios, subs |-> env.subs, seqIds |-> env.seqIds]
MC_ClientSetup == {MC_Setup("CLIENT", FALSE, FALSE, MC_RingEnv(FALSE, MC_NoSeqIds))}
\* A client that receives TOPOLOGYCHANGE PDUs around lastTopologyId.
MC_ClientTcSetup == {MC_Setup("CLIENT", FALSE, FALSE, MC_RingEnv(FALSE, MC_SeqIds))}
MC_ManagerSetup == {MC_Setup("MANAGER", FALSE, FALSE, MC_RingEnv(FALSE, MC_NoSeqIds))}
\* A client receiving TOPOLOGYCHANGE ids around lastTopologyId, and a manager.
MC_FreeSetups == MC_ClientTcSetup \cup
    {MC_Setup("MANAGER", FALSE, FALSE, MC_RingEnv(FALSE, MC_NoSeqIds))}
MC_MraSetupFixed == {MC_Setup("MANAGER_AUTO", FALSE, FALSE, MC_MraEnv(FALSE))}
MC_MraSetupLinks == {MC_Setup("MANAGER_AUTO", FALSE, FALSE, MC_MraEnv(TRUE))}
\* Each role running for good, and a client under CCM; the peers' frames
\* come from a worse node.
MC_LiveEnv == MC_Env(TRUE, TRUE, MC_PeerSources, MC_OnePrio, MC_NoSubs, MC_NoSeqIds)
MC_LiveSetups == {MC_Setup("MANAGER", FALSE, FALSE, MC_LiveEnv),
                  MC_Setup("MANAGER_AUTO", FALSE, FALSE, MC_LiveEnv),
                  MC_Setup("CLIENT", FALSE, FALSE, MC_LiveEnv),
                  MC_Setup("CLIENT", TRUE, FALSE, MC_LiveEnv)}
\* A manager and a client under the lifecycle, a client whose ring links
\* are watched by CCM, and an MRA among other managers, its links as they
\* are at start.
MC_MixedSetups == {MC_Setup("MANAGER", FALSE, TRUE, MC_RingEnv(TRUE, MC_SeqIds)),
                   MC_Setup("CLIENT", FALSE, TRUE, MC_RingEnv(TRUE, MC_SeqIds)),
                   MC_Setup("CLIENT", TRUE, FALSE, MC_RingEnv(TRUE, MC_SeqIds)),
                   MC_Setup("MANAGER_AUTO", FALSE, FALSE, MC_MraEnv(FALSE))}

\* A client under CCM and a manager, both under the lifecycle.
MC_StopSetups == {MC_Setup("CLIENT", TRUE, TRUE, MC_RingEnv(FALSE, MC_NoSeqIds)),
                  MC_Setup("MANAGER", FALSE, TRUE, MC_RingEnv(FALSE, MC_NoSeqIds))}

(* The state as far as the future of the node depends on it.  The two    *)
(* FDB flush timers (clearFDB -> clearLocalFDB -> clearLocalFDBDelayed)   *)
(* only lead to clearTable(), and after stop() to a use of a deleted     *)
(* timer, which only faults records; faults and tcAccepted only record    *)
(* what happened.  Runs whose properties read none of these use this      *)
(* view; the runs of the fault properties do not.                        *)
MC_View ==
    <<expectedRole, currentState, currentRingState, primaryRingPort,
      secondaryRingPort, portRole, portState, isUp, carrier,
      timers \ {"fdbClearTimer", "fdbClearDelay"}, timersDeleted, addTest,
      noTopologyChange, reactOnLinkChange, testRetransmissionCount,
      testMaxRetransmissionCount, topologyChangeRepeatCount, linkChangeCount,
      monNReturn, localManagerPrio, hostBestMRMPriority,
      hostBestMRMSourceAddress, fdbEntries, ccmArmed, ccmSilence,
      enableLinkCheckOnRing, up, delayPending, setup>>

=============================================================================
