------------------------------- MODULE MCApps -------------------------------
(***************************************************************************)
(* Small instances of the example programs that stand alone.  Each         *)
(* behaviour is one of one program: app names it.                          *)
(***************************************************************************)
EXTENDS CrossProgram, Sock, SnatMapping, AssertExample, Firewall, FwNat, Bmc, TLC

VARIABLE app

\* The small examples have their states next to each other.
xvars == <<crabVars, exampleRun, fwVars, natVars, bmcVars>>
vars == <<app, kvars, svars, nvars, evars, xvars>>

(* Katran: one client with two ports, two reals, every kind of VIP.        *)
MCHash(f, v6) == f.src + f.sport + f.dport
KAll == {"eth", "ip", "l4", "inner_ip", "inner_l4"}
KPkt(proto, src, sport, dst, dport, syn) ==
  [eth |-> "IP", proto |-> proto, src |-> src, dst |-> dst, sport |-> sport, dport |-> dport,
   syn |-> syn, quic |-> "initial", icmp |-> "", ttl |-> 2, frag |-> FALSE, ipopts |-> FALSE,
   big |-> FALSE, room |-> TRUE, has |-> KAll, mark |-> 0, inner |-> KNone]
KPorts == {<<1, 80>>, <<2, 80>>, <<1, 81>>}
KTcp == {KPkt("TCP", 1, c[1], "vip", c[2], syn) : c \in KPorts, syn \in BOOLEAN}
KUdp == {KPkt("UDP", 1, sp, "vip", 53, FALSE) : sp \in {1, 2}}
KIcmp == {[KPkt("ICMP", 9, 0, "vip", 0, FALSE) EXCEPT !.icmp = "unreach",
             !.inner = KPkt("TCP", "vip", dp, 1, 1, syn)] : dp \in {80, 81}, syn \in BOOLEAN}
KTunnel(p, proto, dst) == [KPkt(proto, 5, 7, dst, GUE_DPORT, FALSE) EXCEPT !.inner = p]
KOdd == LET t == KPkt("TCP", 1, 1, "vip", 80, FALSE)
            q == KPkt("UDP", 1, 1, "vip", 53, FALSE)
            e == KPkt("ICMP", 1, 0, "vip", 0, FALSE)
        IN  {[t EXCEPT !.frag = TRUE], [t EXCEPT !.big = TRUE], [t EXCEPT !.has = {"eth", "ip"}],
             [t EXCEPT !.has = {}], [t EXCEPT !.eth = "ARP"], [t EXCEPT !.dst = "host"],
             [t EXCEPT !.room = FALSE], [q EXCEPT !.quic = "short"], [e EXCEPT !.icmp = "echo"],
             KTunnel(t, "IPIP", "here"), KTunnel(q, "UDP", "here"), KTunnel(t, "IPIP", "vip"),
             KTunnel([t EXCEPT !.ttl = 1], "IPIP", "here")}
KV6Of(p) == [p EXCEPT !.eth = "IPV6",
                      !.inner = IF @ = KNone \/ p.proto = "IPIP" THEN @ ELSE [@ EXCEPT !.eth = "IPV6"]]
KVip(port, proto) == [ip |-> "vip", port |-> port, proto |-> proto]
MCKPackets(vips) ==
  IF DOMAIN vips # {KVip(80, "TCP"), KVip(53, "UDP")} THEN KTcp \cup KUdp \cup KIcmp
  ELSE KOdd \cup KUdp \cup {p \in KTcp : ~p.syn}
         \cup {KV6Of(p) : p \in KOdd \cup {KPkt("TCP", 1, 1, "vip", 80, FALSE)}}
MCKProbes == {[KPkt("TCP", 1, 1, 5, 80, FALSE) EXCEPT !.mark = mk] : mk \in {0, 1, 2}}
               \cup {[KPkt("TCP", 1, 1, 5, 80, FALSE) EXCEPT !.mark = 1, !.big = TRUE]}

KMeta(flags) == [flags |-> flags, vip_num |-> 0]
KVips ==
  {[v \in {KVip(80, "TCP"), KVip(0, "TCP"), KVip(53, "UDP")} |-> KMeta({})],
   [v \in {KVip(80, "TCP"), KVip(53, "UDP")} |-> KMeta({"F_HASH_NO_SRC_PORT"})],
   [v \in {KVip(0, "TCP"), KVip(53, "UDP")} |->
      KMeta(IF v.proto = "UDP" THEN {"F_QUIC_VIP"} ELSE {"F_HASH_DPORT_ONLY"})],
   [v \in {KVip(0, "TCP"), KVip(53, "UDP")} |->
      KMeta(IF v.proto = "UDP" THEN {"F_LRU_BYPASS"} ELSE {"F_SRC_ROUTING"})]}

XVips == {[v \in {KVip(port, "UDP"), KVip(80, "TCP")} |-> KMeta({})] : port \in {0, PaxosPort}}

MCKatranInit ==
  /\ vip_map \in IF app = "cross" THEN XVips ELSE KVips
  /\ ch_rings = [i \in 7 * RING_SIZE .. 7 * RING_SIZE + RING_SIZE - 1 |-> 1]
  /\ reals = [r \in {0, 1, 2} |-> [v6 |-> r = 2, dst |-> r]]
  /\ quic_mapping = [i \in 0..3 |-> IF i = 3 THEN 2 ELSE 0]
  /\ decap_dst = {"here"}
  /\ lpm_src = [s \in {1} |-> 2]
  /\ root_array \in {{[slot |-> 1, prog |-> "balancer"]}} \cup
       IF DOMAIN vip_map = {KVip(80, "TCP"), KVip(53, "UDP")}
       THEN {{}, {[slot |-> 0, prog |-> "pktcntr"], [slot |-> 1, prog |-> "balancer"]}} ELSE {}
  /\ hc_reals_map = [m \in {1, 2} |-> m]
  /\ KatranInit

(* The socket programs: a v4 socket of the host and a v6 socket of a pod,  *)
(* services that share a backend, node ports, host ports and redirects.    *)
MCV4InV6 == [a \in {"svcA", "svcB", "ext", "redir", "l7", "node", "b1", "b2", "lo", "zero4"} |->
               CASE a = "svcA" -> "::svcA" [] a = "svcB" -> "::svcB" [] a = "ext" -> "::ext"
                 [] a = "redir" -> "::redir" [] a = "l7" -> "::l7" [] a = "node" -> "::node"
                 [] a = "b1" -> "::b1" [] a = "b2" -> "::b2" [] a = "lo" -> "::lo" [] OTHER -> "::zero4"]
MCLoopback(v) == IF v = 4 THEN "lo" ELSE "lo6"
MCWildcard(v) == IF v = 4 THEN "zero4" ELSE "zero6"
MCSockBackends == [id \in {1, 2, 3} |->
  [address |-> CASE id = 1 -> "b1" [] id = 2 -> "b2" [] OTHER -> "b6", port |-> 8, flags |-> "ACTIVE"]]
MCSockIpcache == [a \in {"node", "node2", "ext"} |->
  [sec_identity |-> IF a = "node" THEN "HOST" ELSE IF a = "node2" THEN "REMOTE_NODE" ELSE "WORLD"]]
Svc(n, flags, slots) ==
  [count |-> Cardinality(DOMAIN slots), slots |-> slots, flags |-> flags, rev_nat_index |-> n,
   affinity_timeout |-> 1, l7_lb_proxy_port |-> 15]
SvcAt(a, p) == [address |-> a, dport |-> p, scope |-> "EXT"]
Services1 ==
  (SvcAt("svcA", 80) :> Svc(1, {"AFFINITY"}, <<1, 2>>)) @@ (SvcAt("svcB", 80) :> Svc(2, {}, <<1>>))
  @@ (SvcAt("svc6", 80) :> Svc(3, {}, <<3>>)) @@ (SvcAt("zero4", 31) :> Svc(4, {"NODEPORT"}, <<1>>))
  @@ (SvcAt("zero4", 90) :> Svc(5, {"HOSTPORT", "LOOPBACK"}, <<2>>))
  @@ (SvcAt("ext", 80) :> Svc(6, {"EXTERNAL_IP"}, <<2>>))
  @@ (SvcAt("redir", 80) :> Svc(7, {"LOCALREDIRECT"}, <<1>>))
  @@ (SvcAt("l7", 80) :> Svc(8, {"L7LOADBALANCER"}, << >>))
MCSockServices == {Services1,
  (SvcAt("svcA", 80) :> Svc(9, {}, <<1>>)) @@ (SvcAt("svc6", 80) :> Svc(3, {}, << >>)) @@ Services1}

SCall(op, c, a, p) == [op |-> op, v6 |-> c = 2, proto |-> IF op = "connect" THEN "TCP" ELSE "UDP",
                       addr |-> a, port |-> p, cookie |-> c, netns |-> IF c = 1 THEN 100 ELSE 7,
                       health |-> FALSE]
V4Targets == {<<"svcA", 80>>, <<"svcB", 80>>, <<"node", 31>>, <<"lo", 90>>, <<"ext", 80>>,
              <<"redir", 80>>, <<"l7", 80>>}
MCSockCalls ==
  {SCall("sendmsg", 1, t[1], t[2]) : t \in V4Targets}
  \cup {SCall("connect", 2, t[1], t[2]) : t \in {<<"::svcA", 80>>, <<"::svcB", 80>>, <<"svc6", 80>>}}
  \cup {SCall("recvmsg", 1, t[1], t[2]) : t \in {<<"b1", 8>>, <<"b2", 8>>, <<"lo", 15>>}}
  \cup {SCall("getpeername", 2, t[1], t[2]) : t \in {<<"::b1", 8>>, <<"b6", 8>>}}
  \cup {SCall("post_bind", 1, t[1], t[2]) : t \in {<<"node", 31>>, <<"b1", 8>>}}
  \cup {SCall("post_bind", 2, "::node", 31)}
  \cup {[SCall(op, c, IF c = 1 THEN "node" ELSE "::node", 22) EXCEPT !.health = TRUE] :
           op \in {"pre_bind", "connect"}, c \in {1, 2}}

SockInit ==
  /\ sk = [services |-> Services1, aff |-> << >>, affmatch |-> {<<1, 1>>, <<1, 2>>},
           revsk |-> << >>, health |-> << >>, socks |-> {}, now |-> 0]
  /\ sent = << >>
  /\ slast = [op |-> "", cookie |-> 0, from |-> << >>, to |-> << >>, verdict |-> ""]
  /\ sleft = MaxSockSteps

(* Source ports: two flows to a peer that want one port of three, and one  *)
(* whose own port is outside the range.                                    *)
MCPeerOf == [f \in SnatFlows |-> 1]
MCSportOf == [f \in SnatFlows |-> IF f = "f" THEN 2 ELSE 70]

(* Electrode: three replicas; a follower with two CPUs; packets of an      *)
(* older and a newer view, one cut short, one of another kind, and of the  *)
(* protocol and the port that are not taken.  A frame of follower 2 begins *)
(* with its addresses; those of follower 1 are of a loopback, all zeros.   *)
MCECpus == [r \in 0..2 |-> IF r = 1 THEN {"c1", "c2"} ELSE {"c1"}]
MCEFrames == [r \in EFollowers |-> [view |-> IF r = 1 THEN 0 ELSE 7, opnum |-> 0, idx |-> 0]]
MCEStray ==
  {EPrepare(0, 1, 1, "fits", 1), EPrepare(2, 1, 2, "fits", 1), EPrepare(1, 1, 1, "short", 1),
   [EPrepare(1, 1, 1, "fits", 1) EXCEPT !.type = "Request"],
   [EPrepare(1, 1, 1, "fits", 1) EXCEPT !.proto = UDP], [EPrepare(1, 2, 2, "fits", 1) EXCEPT !.port = 14640]}

(* The two on one hook: acknowledgements for a VIP of Katran and for the    *)
(* host, and packets that are none.                                        *)
XAck(view, op, idx) == EPrepareOK(view, op, idx, UDP)
XPkt(dst, msg) == [pkt |-> KPkt("UDP", 1, 1, dst, PaxosPort, FALSE), msg |-> msg]
MCXPackets ==
  {XPkt(dst, msg) : dst \in {"vip", "host"},
                    msg \in {XAck(1, 1, 1), XAck(1, 1, 2), XAck(2, 1, 1), EPrepare(1, 1, 1, "fits", 0)}}
  \cup {[pkt |-> p, msg |-> ENone] : p \in KTcp}
  \cup {[XPkt("vip", XAck(1, 1, 1)) EXCEPT !.pkt.room = FALSE],
         XPkt("host", [XAck(1, 1, 1) EXCEPT !.size = "short"])}

(* Crab: three servers and a counter that wraps within the run.            *)
MCVips == {100, 101}
MCIpaddrs == [i \in Targets |-> i + 1]

(* The firewall: a flow, its answers, the flow that differs from it in how *)
(* addresses and ports belong together, and one flow more than fits.       *)
FwPkt(proto, a, p, b, q) == [ip_proto |-> proto, ip_src |-> a, ip_dst |-> b, l4_src |-> p, l4_dst |-> q]
MCFwPackets ==
  {FwPkt("tcp", 1, 7, 2, 8), FwPkt("tcp", 2, 8, 1, 7), FwPkt("tcp", 1, 8, 2, 7), FwPkt("udp", 2, 8, 1, 7),
   FwPkt("udp", 1, 7, 2, 7)}

(* The cache: two keys in one slot, one of them with no bytes, and one in  *)
(* the other slot.                                                         *)
MCHashOf == [k \in BKeys |-> CASE k = "empty" -> 3 [] k = "a" -> 5 [] OTHER -> 4]
MCLenOf == [k \in BKeys |-> IF k = "empty" THEN 0 ELSE 1]

\* The programs that do not run have one state.
Idle(a) == app # a
SmallExamples == {"crab", "assert", "fw", "fw_nat", "bmc"}
Init ==
  /\ app \in {"katran", "sock", "snat", "electrode", "cross"} \cup SmallExamples
  /\ MCKatranInit /\ SockInit /\ SnatInit /\ ElectrodeInit
  /\ CrabInit /\ ExampleInit /\ FwInit /\ FwNatInit /\ BmcInit
  /\ Idle("katran") /\ Idle("cross") => root_array = {} /\ "F_HASH_NO_SRC_PORT" \in vip_map[KVip(53, "UDP")].flags
  /\ Idle("electrode") => erep[ELeader].progs = EPrograms
SmallNext ==
  \/ app = "crab" /\ CrabNext /\ UNCHANGED <<exampleRun, fwVars, natVars, bmcVars>>
  \/ app = "assert" /\ ExampleNext /\ UNCHANGED <<crabVars, fwVars, natVars, bmcVars>>
  \/ app = "fw" /\ FwNext /\ UNCHANGED <<crabVars, exampleRun, natVars, bmcVars>>
  \/ app = "fw_nat" /\ FwNatNext /\ UNCHANGED <<crabVars, exampleRun, fwVars, bmcVars>>
  \/ app = "bmc" /\ BmcNext /\ UNCHANGED <<crabVars, exampleRun, fwVars, natVars>>
Next ==
  /\ UNCHANGED app
  /\ \/ app = "katran" /\ KatranNext /\ UNCHANGED <<svars, nvars, evars, xvars>>
     \/ app = "sock" /\ SockNext /\ UNCHANGED <<kvars, nvars, evars, xvars>>
     \/ app = "snat" /\ SnatNext /\ UNCHANGED <<kvars, svars, evars, xvars>>
     \/ app = "electrode" /\ ElectrodeNext /\ UNCHANGED <<kvars, svars, nvars, xvars>>
     \/ app = "cross" /\ CrossNext /\ UNCHANGED <<svars, nvars, xvars>>
     \/ app \in SmallExamples /\ SmallNext /\ UNCHANGED <<kvars, svars, nvars, evars>>
Spec == Init /\ [][Next]_vars
\* Electrode by itself.
ElectrodeOnly == app = "electrode" /\ Init /\ [][Next]_vars
=============================================================================
