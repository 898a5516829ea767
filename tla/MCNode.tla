--------------------------------- MODULE MCNode ---------------------------------
(***************************************************************************)
(* Node for model checking: what the instances have in common.             *)
(***************************************************************************)
EXTENDS Node

CONSTANTS
  ipA, ipB, ipC, ipS, ipNode, ipNode2, ipClient, ipRemote,            \* addresses
  ip6A, ip6S, ip6Node, ip6Client, ip6Remote,
  lxcA, lxcB, lxcC, ifHost, ifTun, ifEth       \* endpoints and interfaces

\* Constants of node_config.h, with lifetimes in proportion.
MCNat46(x) == <<"nat46", x>>
MCNat46Rfc(x) == <<"nat46_rfc8215", x>>
Ipv4Addrs == {ipA, ipB, ipC, ipS, ipNode, ipNode2, ipClient, ipRemote}
MCLow32(x) ==
  IF \E v \in Ipv4Addrs : x \in {MCNat46(v), MCNat46Rfc(v)}
  THEN CHOOSE v \in Ipv4Addrs : x \in {MCNat46(v), MCNat46Rfc(v)} ELSE x
MCClusterOf(id) == 0
CpuSymmetry == Permutations(Cpus)
OneRnd == {<<0, 0>>, <<1, 0>>}

Pkt(fam, saddr, sport, daddr, dport, tcp) ==
  [fam |-> fam, proto |-> "TCP", saddr |-> saddr, daddr |-> daddr, sport |-> sport,
   dport |-> dport, tcp |-> tcp, icmp |-> "other", frag |-> "no", id |-> 0, short |-> FALSE,
   ttl |-> 64, inner |-> None, ext |-> <<>>, outer |-> None, csum |-> TRUE, ipopts |-> FALSE,
   mac |-> None, router |-> FALSE, target |-> None, smac |-> "smac", dmac |-> "dmac",
   arpop |-> "", tstamp |-> 0, dsropt |-> None, big |-> FALSE, cookie |-> 0, vlan |-> 0]
At4(hook, at, pkt) == [hook |-> hook, at |-> at, pkt |-> pkt, mark |-> NoMark, tun |-> None]

MCPods ==
  [x \in {lxcA, lxcB, lxcC} |->
     CASE x = lxcA -> [lxc_id |-> lxcA, sec_id |-> "idA", ip |-> ipA]
       [] x = lxcB -> [lxc_id |-> lxcB, sec_id |-> "idB", ip |-> ipB]
       [] x = lxcC -> [lxc_id |-> lxcC, sec_id |-> "idC", ip |-> ipC]]
MCHostSelf == [lxc_id |-> ifHost, sec_id |-> "HOST", ip |-> ipNode]

Allow == [deny |-> FALSE, auth_type |-> 0, proxy_port |-> 0]
EgressAny == PolicyKey("UNKNOWN", TRUE, "any", AnyPort)
Ingress(id, port) == PolicyKey(id, FALSE, "TCP", port)
Ep(id, sec) == [lxc_id |-> id, sec_id |-> sec, flags |-> {}]
Info(sec, tunnel) == [sec_identity |-> sec, tunnel_endpoint |-> tunnel, key |-> 0]

-----------------------------------------------------------------------------
(* Pods of one node and a service: the build of the Makefile.              *)

PodBuilds == {{"ENABLE_IPV4", "HAVE_LARGE_INSN_LIMIT", "ENABLE_ROUTING", "ENABLE_IPV4_FRAGMENTS"}}
SvcKey == [address |-> ipS, dport |-> 80, scope |-> "EXT"]
Backend(ip, flags) == [address |-> ip, port |-> 8080, flags |-> flags]
PodTables ==
  [NoTables EXCEPT
     !.services = SvcKey :> [count |-> 2, flags |-> {"ROUTABLE"}, rev_nat_index |-> 1,
                             slots |-> <<1, 2>>, affinity_timeout |-> 0, l7_lb_proxy_port |-> 0],
     !.backends = 1 :> Backend(ipB, "ACTIVE") @@ 2 :> Backend(ipC, "ACTIVE"),
     !.revnat = 1 :> [address |-> ipS, port |-> 80],
     !.eps = ipA :> Ep(lxcA, "idA") @@ ipB :> Ep(lxcB, "idB") @@ ipC :> Ep(lxcC, "idC"),
     !.ipcache = ipA :> Info("idA", None) @@ ipB :> Info("idB", None) @@ ipC :> Info("idC", None),
     !.policy = [x \in DOMAIN @ |->
        CASE x = lxcA -> EgressAny :> Allow
          [] x \in {lxcB, lxcC} -> Ingress("idA", 8080) :> Allow @@ EgressAny :> Allow
          [] OTHER -> <<>>]]
\* Pod B is opened for nobody, or A for pod B; a backend goes.
PodChanges(t) ==
  {[t EXCEPT !.policy[lxcB] = EgressAny :> Allow],
   [t EXCEPT !.policy[lxcA] = EgressAny :> Allow @@ Ingress("UNKNOWN", AnyPort) :> Allow],
   [t EXCEPT !.backends = MapDelete(@, 2),
             !.services[SvcKey] = [@ EXCEPT !.count = 1, !.slots = <<1>>]]}
\* A talks to the service and to B itself, the backends answer, B speaks
\* unasked.
PodArrivals(b) ==
  {At4("from_container", lxcA, Pkt(4, ipA, 1000, ipS, 80, f)) : f \in {{"SYN"}, {"ACK"}}}
  \cup {At4("from_container", lxcA, Pkt(4, ipA, 1000, ipB, 8080, {"SYN"})),
        At4("from_container", lxcB, Pkt(4, ipB, 8080, ipA, 1000, {"SYN", "ACK"})),
        At4("from_container", lxcC, Pkt(4, ipC, 8080, ipA, 1000, {"ACK"})),
        At4("from_container", lxcB, Pkt(4, ipB, 1000, ipC, 8080, {"SYN"}))}
\* A connection of A with the service that is opened, used, closed by either
\* side or reset, and opened again.
CtArrivals(b) ==
  {At4("from_container", lxcA, Pkt(4, ipA, 1000, ipS, 80, f)) :
     f \in {{"SYN"}, {"ACK"}, {"FIN", "ACK"}}}
  \cup {At4("from_container", lxcB, Pkt(4, ipB, 8080, ipA, 1000, f)) :
     f \in {{"SYN", "ACK"}, {"FIN", "ACK"}, {"RST"}}}
================================================================================
