---------------------------- MODULE CrossProgram ---------------------------
(***************************************************************************)
(* The two programs of examples/cross_prog on one hook: main.c runs        *)
(* Katran's balancer_ingress and then Electrode's fastPaxos_main on what   *)
(* the first has made of the packet, whatever its verdict.  The driver is  *)
(* compiled with FAST_QUORUM_PRUNE only, and calls the next program of     *)
(* Electrode through a function pointer, which returns.  The host is       *)
(* Electrode's leader.                                                     *)
(***************************************************************************)
EXTENDS Katran, Electrode

CONSTANT XPackets  \* packets, and the message each carries for Electrode

\* A packet has headers, whatever they hold.
ASSUME XPacketsHaveHeaders == \A x \in XPackets : {"eth", "proto", "dport"} \subseteq DOMAIN x.pkt

PaxosPort == 12345

\* balancer_ingress with its one run; the packet it leaves in the buffer is
\* the one it sends, or the one that arrived with what was taken off it.
XBalance(p) == balancer_ingress(KRun(p))
\* Mutant: Electrode is given the packet as it arrived.
XBuffer_before(k) == k.pkt
XBuffer(k) == IF k.verdict = "XDP_TX" THEN k.out ELSE k.pkt

\* The checks before the type of the message is read; an IPv4 header is taken
\* for granted.
XIsPaxos(p, e) ==
  p.eth = "IP" /\ {"ip", "l4"} \subseteq p.has /\ p.proto = "UDP" /\ p.dport = PaxosPort /\ e # ENone

\* bpf_xdp_adjust_head leaves the fields of an acknowledgement at the start,
\* unless too little of the packet is left: then nobody notices, and the frame
\* is still there.
XHandlePrepareOK(s, e) ==
  CountAck(s, e, IF e.size = "short" THEN FrameStart(e) ELSE [view |-> e.view, opnum |-> e.last, idx |-> e.idx])

\* The acknowledgement is counted; whatever HandlePrepareOK answers, the
\* caller returns XDP_PASS.  What user space is given is left out.
XFastPaxos(s, p, e) ==
  IF XIsPaxos(p, e) /\ compute_message_type(e) = "PrepareOK"
  THEN [XHandlePrepareOK([s EXCEPT !.msg_lastOp = "offset"], e) EXCEPT !.up = s.up] ELSE s

(***************************************************************************)
(* FastBroadCast_main, where packets leave the leader.  A Prepare opens    *)
(* its entry of the quorum map.  The packet is cloned for the next replica *)
(* before it is addressed to its own, and each clone comes here again;     *)
(* map_configure is read with a key that is a char, so any of the packets  *)
(* may be dropped.                                                         *)
(***************************************************************************)
OpenEntry(s, p) ==
  LET i == p.last % QUORUM_BITSET_ENTRY
  IN  IF s.quorum[i].view = p.view /\ s.quorum[i].opnum = p.last THEN s
      ELSE [s EXCEPT !.quorum[i] = [view |-> p.view, opnum |-> p.last, bitset |-> {}]]
BroadcastIds ==
  LET id[i \in 0..CLUSTER_SIZE] ==
        IF i = 0 THEN (IF ELeader = 0 THEN 1 ELSE 0)
        ELSE id[i - 1] + (IF ELeader = id[i - 1] + 1 THEN 2 ELSE 1)
  IN  {id[i] : i \in {j \in DOMAIN id : id[j] < CLUSTER_SIZE}}
FastBroadCast_main(last, got) ==
  /\ ETick
  /\ got \subseteq BroadcastIds
  /\ EStore(ELeader, OpenEntry(erep[ELeader], EPrepare(EView, last, last, "fits", ELeader)))
  /\ enet' = enet \cup {[EPrepare(EView, last, last, "fits", to) EXCEPT !.proto = UDP] : to \in got}
  /\ UNCHANGED ecpu

\* One packet through both.
XArrive(x) ==
  LET k == XBalance(x.pkt) IN
  /\ KOutcome(k)
  /\ EStore(ELeader, XFastPaxos(erep[ELeader], XBuffer(k), x.msg))
  /\ UNCHANGED <<enet, ecpu, eleft>>

\* The leader broadcasts its first operation.
CrossNext ==
  \/ \E x \in XPackets : XArrive(x)
  \/ \E got \in {{}, EFollowers} : FastBroadCast_main(1, got) /\ UNCHANGED kvars
  \/ \E i \in DOMAIN ch_rings, r \in DOMAIN reals : KSetRing(i, r) /\ UNCHANGED evars

CrossSpec == KatranInit /\ ElectrodeInit /\ [][CrossNext]_<<kvars, evars>>
-----------------------------------------------------------------------------
\* A packet that Katran sends on to a real server is not Electrode's: the
\* acknowledgements in it count for the server that gets it, never for this
\* host.  It holds because every kind of tunnel hides the port of the packet.
ForwardedIsLeftAlone ==
  [][klast' # klast /\ klast'.verdict = "XDP_TX" =>
      erep'[ELeader].quorum = erep[ELeader].quorum]_<<klast, erep>>
=============================================================================
