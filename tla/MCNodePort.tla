------------------------------- MODULE MCNodePort -------------------------------
(***************************************************************************)
(* A NodePort service of the node, of either family, with a local backend, *)
(* pod A, and a remote one.                                                *)
(***************************************************************************)
EXTENDS MCNode

Base == {"ENABLE_IPV4", "HAVE_LARGE_INSN_LIMIT", "ENABLE_ROUTING", "ENABLE_IPV4_FRAGMENTS",
         "ENABLE_NODEPORT", "HAVE_FIB_IFINDEX", "HAVE_FIB_NEIGH"}
Tunnel == {"TUNNEL_MODE", "HAVE_ENCAP", "HOST_IFINDEX"}
Dsr(mode) == {"ENABLE_DSR", mode}
V6(b) == (b \ {"ENABLE_IPV4", "ENABLE_MASQUERADE_IPV4"}) \cup {"ENABLE_IPV6"}
NpBuilds ==
  {Base, Base \cup {"ENABLE_MASQUERADE_IPV4"}, Base \cup {"ENABLE_HOST_ROUTING"},
   (Base \ {"HAVE_LARGE_INSN_LIMIT"}) \cup {"USE_BPF_PROG_FOR_INGRESS_POLICY"},
   Base \cup {"ENABLE_NODEPORT_ACCELERATION"}, Base \cup Tunnel,
   Base \cup Tunnel \cup {"ENABLE_NODEPORT_ACCELERATION"},
   Base \cup Dsr("DSR_OPT"), Base \cup Tunnel \cup Dsr("DSR_GENEVE"),
   Base \cup {"ENABLE_NODEPORT_ACCELERATION"} \cup Dsr("DSR_IPIP"),
   V6(Base), V6(Base) \cup {"ENABLE_MASQUERADE_IPV6"}, V6(Base \cup Tunnel),
   V6(Base) \cup Dsr("DSR_OPT"), V6(Base) \cup {"ENABLE_NODEPORT_ACCELERATION"}}
DsrBuilds == {Base \cup Dsr("DSR_OPT")}

NpKey(ip) == [address |-> ip, dport |-> 30080, scope |-> "EXT"]
NpService(nr, slots) ==
  [count |-> 2, flags |-> {"ROUTABLE", "NODEPORT"}, rev_nat_index |-> nr, slots |-> slots,
   affinity_timeout |-> 0, l7_lb_proxy_port |-> 0]
HostEp == [Ep(ifHost, "HOST") EXCEPT !.flags = {"HOST"}]
Route(oif) == [ret |-> "SUCCESS", oif |-> oif]
NpTables ==
  [NoTables EXCEPT
     !.services = NpKey(ipNode) :> NpService(1, <<1, 2>>) @@ NpKey(ip6Node) :> NpService(2, <<3, 4>>),
     !.backends = 1 :> Backend(ipA, "ACTIVE") @@ 2 :> Backend(ipRemote, "ACTIVE")
                  @@ 3 :> Backend(ip6A, "ACTIVE") @@ 4 :> Backend(ip6Remote, "ACTIVE"),
     !.revnat = 1 :> [address |-> ipNode, port |-> 30080] @@ 2 :> [address |-> ip6Node, port |-> 30080],
     !.eps = [x \in {ipA, ip6A} |-> Ep(lxcA, "idA")] @@ [x \in HostIps |-> HostEp],
     !.ipcache = [x \in {ipA, ip6A} |-> Info("idA", None)] @@ [x \in HostIps |-> Info("HOST", None)]
                 @@ [x \in {ipClient, ip6Client} |-> Info("WORLD", None)]
                 @@ [x \in {ipRemote, ip6Remote} |-> Info("idB", ipNode2)],
     !.routes = [x \in {ipClient, ipRemote, ip6Client, ip6Remote, ipNode2} |-> Route(ifEth)]
                @@ [x \in {ipA, ip6A} |-> Route(lxcA)],
     !.policy = [x \in DOMAIN @ |->
        IF x = lxcA THEN Ingress("UNKNOWN", AnyPort) :> Allow @@ EgressAny :> Allow ELSE <<>>]]
NoChanges(t) == {}

\* The addresses of a family.
Node_(fam) == IF fam = 4 THEN ipNode ELSE ip6Node
Pod(fam) == IF fam = 4 THEN ipA ELSE ip6A
Client(fam) == IF fam = 4 THEN ipClient ELSE ip6Client
Remote(fam) == IF fam = 4 THEN ipRemote ELSE ip6Remote
Service(fam) == IF fam = 4 THEN ipS ELSE ip6S

FromClient(fam, port, f) ==
  At4("from_netdev", ifEth, Pkt(fam, Client(fam), port, Node_(fam), 30080, f))
PodReply(fam, port) ==
  At4("from_container", lxcA, Pkt(fam, Pod(fam), 8080, Client(fam), port, {"SYN", "ACK"}))
FromNode2(id, pkt, opt) ==
  [At4("from_overlay", ifTun, pkt) EXCEPT
     !.tun = [endpoint |-> ipNode2, local |-> ipNode, id |-> id, opt |-> opt]]
Reply(b, fam, port) ==
  LET p == Pkt(fam, Remote(fam), 8080, Node_(fam), port, {"SYN", "ACK"}) IN
  IF Tunnel \subseteq b
  THEN FromNode2("idB", [p EXCEPT !.daddr = IF fam = 4 THEN IPV4_GATEWAY ELSE ROUTER_IP], None)
  ELSE At4("from_netdev", ifEth, p)
\* A request that another node sends here for direct return.
Direct(b, fam, port, f, opt) ==
  LET p == Pkt(fam, Client(fam), port, Pod(fam), 8080, f) IN
  IF Tunnel \subseteq b THEN FromNode2("WORLD", p, opt)
  ELSE At4("from_netdev", ifEth,
           [p EXCEPT !.dsropt = opt, !.ext = IF fam = 6 /\ opt # None THEN <<"DSR">> ELSE <<>>])

\* Two clients' ports, the replies of both backends, a request of the node
\* itself from a port that the NAT uses, one of the pod, and what other
\* nodes send for direct return.
NpArrivals(b) ==
  LET fam == IF "ENABLE_IPV4" \in b THEN 4 ELSE 6 IN
  {FromClient(fam, 5000, {"SYN"}), FromClient(fam, 5001, {"SYN"}), FromClient(fam, 5000, {"ACK"})}
  \cup {Reply(b, fam, port) : port \in {2000, 2001}} \cup {PodReply(fam, 5000)}
  \cup {At4("to_netdev", ifEth, Pkt(fam, Node_(fam), 2000, Remote(fam), 8080, {"SYN"})),
        At4("from_container", lxcA, Pkt(fam, Pod(fam), 3000, Remote(fam), 8080, {"SYN"}))}
  \cup (IF "ENABLE_DSR" \in b /\ "DSR_IPIP" \notin b
        THEN {Direct(b, fam, 5002, {"SYN"}, Svc(Service(fam), 80)), Direct(b, fam, 5002, {"ACK"}, None),
              PodReply(fam, 5002)}
        ELSE {})
NpRnds == {<<0, 1>>, <<1, 0>>}
\* A direct return connection and a direct one of the same ports.
DsrArrivals(b) ==
  {Direct(b, 4, 5000, {"SYN"}, Svc(ipS, 80)), Direct(b, 4, 5000, {"ACK"}, None),
   Direct(b, 4, 5000, {"SYN"}, None), PodReply(4, 5000)}
================================================================================
