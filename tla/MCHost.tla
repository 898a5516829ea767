--------------------------------- MODULE MCHost ---------------------------------
(***************************************************************************)
(* The host and a pod of the node, each with a policy, a client outside    *)
(* and a pod of another node.                                              *)
(***************************************************************************)
EXTENDS MCNode

Fw == {"ENABLE_IPV4", "HAVE_LARGE_INSN_LIMIT", "ENABLE_ROUTING", "ENABLE_IPV4_FRAGMENTS",
       "ENABLE_HOST_FIREWALL", "SECCTX_FROM_IPCACHE_OK"}
Tunnel == {"TUNNEL_MODE", "HAVE_ENCAP", "HOST_IFINDEX"}
V6(b) == (b \ {"ENABLE_IPV4"}) \cup {"ENABLE_IPV6"}
HostBuilds ==
  {Fw, Fw \cup {"ENABLE_MASQUERADE_IPV4"}, Fw \cup {"ENABLE_HOST_ROUTING"}, Fw \cup Tunnel,
   (Fw \ {"ENABLE_ROUTING"}) \cup {"ENABLE_IPV6", "USE_BPF_PROG_FOR_INGRESS_POLICY"},
   Fw \cup {"ENABLE_NODEPORT", "ENABLE_NODEPORT_ACCELERATION"}, V6(Fw), V6(Fw) \cup Tunnel}

Addr(fam, x4, x6) == IF fam = 4 THEN x4 ELSE x6
Node_(fam) == Addr(fam, ipNode, ip6Node)
Pod(fam) == Addr(fam, ipA, ip6A)
Client(fam) == Addr(fam, ipClient, ip6Client)
Remote(fam) == Addr(fam, ipRemote, ip6Remote)
Egress(id, port) == PolicyKey(id, TRUE, "TCP", port)
HostTables ==
  [NoTables EXCEPT
     !.eps = [x \in {ipA, ip6A} |-> Ep(lxcA, "idA")]
             @@ [x \in HostIps |-> [Ep(ifHost, "HOST") EXCEPT !.flags = {"HOST"}]],
     !.ipcache = [x \in {ipA, ip6A} |-> Info("idA", None)] @@ [x \in HostIps |-> Info("HOST", None)]
                 @@ [x \in {ipClient, ip6Client} |-> Info("WORLD", None)]
                 @@ [x \in {ipRemote, ip6Remote} |-> Info("idB", ipNode2)],
     !.routes = [x \in {ipClient, ipRemote, ip6Client, ip6Remote, ipNode2} |->
                   [ret |-> "SUCCESS", oif |-> ifEth]]
                @@ [x \in {ipA, ip6A} |-> [ret |-> "SUCCESS", oif |-> lxcA]],
     !.policy = [x \in DOMAIN @ |->
        CASE x = ifHost -> Ingress("WORLD", 443) :> Allow @@ Ingress("idA", 22) :> Allow
                           @@ Egress("WORLD", 53) :> Allow @@ Egress("idA", 8080) :> Allow
          [] x = lxcA -> Ingress("HOST", 8080) :> Allow @@ Ingress("idB", 8080) :> Allow
                         @@ EgressAny :> Allow
          [] OTHER -> <<>>]]
HostChanges(t) == {[t EXCEPT !.policy[ifHost] = Egress("WORLD", 53) :> Allow]}

FromHostStack(hook, at, pkt) ==
  [At4(hook, at, pkt) EXCEPT !.mark = [NoMark EXCEPT !.magic = "HOST"]]
FromNode2(id, pkt) ==
  [At4("from_overlay", ifTun, pkt) EXCEPT
     !.tun = [endpoint |-> ipNode2, local |-> ipNode, id |-> id, opt |-> None]]
\* For the host: what its policy admits and what it does not, from outside
\* and from the pod; its own requests, and their replies; for the pod: from
\* the host, from the other node, and in the host's name from a tunnel.
HostArrivals(b) ==
  LET fam == IF "ENABLE_IPV4" \in b THEN 4 ELSE 6
      n == Node_(fam)
      p == Pod(fam)
      c == Client(fam)
      r == Remote(fam)
  IN  {At4("from_netdev", ifEth, Pkt(fam, c, 5000, n, port, {"SYN"})) : port \in {443, 22}}
      \cup {At4("from_netdev", ifEth, Pkt(fam, c, 53, n, 4000, {"SYN", "ACK"})),
            At4("from_container", lxcA, Pkt(fam, p, 3000, n, 22, {"SYN"})),
            At4("from_container", lxcA, Pkt(fam, p, 3000, n, 443, {"SYN"})),
            At4("from_container", lxcA, Pkt(fam, p, 8080, n, 4001, {"SYN", "ACK"})),
            FromHostStack("to_netdev", ifEth, Pkt(fam, n, 443, c, 5000, {"SYN", "ACK"})),
            FromHostStack("to_netdev", ifEth, Pkt(fam, n, 4000, c, 53, {"SYN"})),
            FromHostStack("to_netdev", ifEth, Pkt(fam, n, 4000, c, 80, {"SYN"})),
            FromHostStack("from_host", ifHost, Pkt(fam, n, 4001, p, 8080, {"SYN"}))}
      \cup (IF Tunnel \subseteq b
            THEN {FromNode2("idB", Pkt(fam, r, 6000, p, 8080, {"SYN"})),
                  FromNode2("HOST", Pkt(fam, r, 6000, p, 8080, {"SYN"})),
                  FromNode2("idC", Pkt(fam, r, 6000, p, 8080, {"SYN"})),
                  FromNode2("idB", Pkt(fam, r, 6000, n, 22, {"SYN"}))}
            ELSE {})
OneRnd1 == {<<0, 0>>}
================================================================================
