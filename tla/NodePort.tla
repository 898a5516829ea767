------------------------------- MODULE NodePort -------------------------------
(***************************************************************************)
(* NodePort services of the Cilium datapath                                *)
(* (examples/cilium-lxc/bpf/lib/nodeport.h): requests from outside are     *)
(* translated to a backend and forwarded, with source NAT or with direct   *)
(* server return (DSR); replies are translated back.  Fields of m used     *)
(* here:                                                                   *)
(*   pkt.dsropt, pkt.big  the DSR option, and whether the packet with the  *)
(*                        option or the outer header is over the MTU       *)
(*   tunopt               the DSR option of the tunnel the packet came by  *)
(*   dsr, xfer            the flags dsr and XFER_PKT_NO_SVC                *)
(*   cb.addr, cb.port, cb.nat46, cb.dsrlabel   meta slots                  *)
(* The options DSR_IPIP, DSR_OPT and DSR_GENEVE stand for DSR_ENCAP_MODE,  *)
(* IS_BPF_HOST, IS_BPF_OVERLAY, IS_BPF_LXC and IS_BPF_XDP for the program  *)
(* the code is compiled into.  A helper that returns CTX_ACT_OK leaves m   *)
(* running: no verdict, no tail call, no error.                            *)
(***************************************************************************)
EXTENDS Nat

CONSTANTS NODEPORT_PORT_MIN_NAT, NODEPORT_PORT_MAX_NAT,
          IPV4_DIRECT_ROUTING, IPV6_DIRECT_ROUTING, IPV4_RSS_PREFIX, IPV6_RSS_PREFIX

ASSUME NatPortsAssumption ==
  /\ {NODEPORT_PORT_MIN_NAT, NODEPORT_PORT_MAX_NAT} \subseteq Nat
  /\ NODEPORT_PORT_MIN_NAT < NODEPORT_PORT_MAX_NAT

Running(m) == m.err = "" /\ m.verdict = "" /\ m.next = ""
Continue(m, Step(_)) == IF Running(m) THEN Step(m) ELSE m
\* A packet whose protocol services do not have is none of theirs.
NoService(err) == err \in {"DROP_UNSUPP_SERVICE_PROTO", "DROP_UNKNOWN_L4"}
Ignore(m) == [m EXCEPT !.err = ""]

nodeport_uses_dsr(m, nexthdr) ==
  On(m, "ENABLE_DSR") /\ (On(m, "ENABLE_DSR_HYBRID") => nexthdr = "TCP")
nodeport_uses_dsr4(m) == nodeport_uses_dsr(m, m.tuple.nexthdr)
nodeport_uses_dsr6(m) == nodeport_uses_dsr(m, m.tuple.nexthdr)
bpf_skip_recirculation(m) == "SKIP_RECIRCULATION" \in m.tcidx

Snats(m) == ~On(m, "ENABLE_DSR") \/ On(m, "ENABLE_DSR_HYBRID")
\* DSR information is read where this mode's carrier is seen.
ReadsDsr(m) == On(m, "ENABLE_DSR") /\ (On(m, "IS_BPF_OVERLAY") <=> On(m, "DSR_GENEVE"))

\* On a network device the kernel adds the outer header (the packet is
\* redirected to the tunnel device); XDP writes it itself and routes it.
xdp_set_encap_info(m, daddr, seclabel, opt) ==
  [m EXCEPT !.tun = None,
            !.pkt.outer = [saddr |-> IPV4_DIRECT_ROUTING, daddr |-> daddr, id |-> get_tunnel_id(m, seclabel),
                           opt |-> opt, srh |-> FALSE]]
nodeport_add_tunnel_encap(m, dst_ip, src_id) ==
  IF On(m, "IS_BPF_XDP")
  THEN fib_redirect(xdp_set_encap_info(m, dst_ip, EncapLabel(src_id), None), dst_ip, TRUE, FALSE)
  ELSE ctx_redirect(encap_with_nodeid(m, dst_ip, src_id, None), ENCAP_IFINDEX)
nodeport_add_tunnel_encap_opt(m, dst_ip, src_id, opt) ==
  IF On(m, "IS_BPF_XDP")
  THEN fib_redirect(xdp_set_encap_info(m, dst_ip, EncapLabel(src_id), opt), dst_ip, TRUE, FALSE)
  ELSE ctx_redirect(encap_with_nodeid_opt(m, dst_ip, src_id, opt), ENCAP_IFINDEX)

nodeport_fib_lookup_and_redirect(m, dst) ==
  LET route == fib_lookup(m, dst) IN
  IF route.ret \notin {"SUCCESS", "NO_NEIGH"} THEN Drop(m, "DROP_NO_FIB")
  ELSE IF route.oif = m.ifindex THEN m
  ELSE fib_do_redirect([m EXCEPT !.fibret = route.ret, !.oif = m.ifindex], TRUE, route, dst, TRUE)

-----------------------------------------------------------------------------
(* Source NAT of what the node itself sends.                               *)

NatTarget(addr) ==
  [addr |-> addr, min_port |-> NODEPORT_PORT_MIN_NAT, max_port |-> NODEPORT_PORT_MAX_NAT,
   from_local_endpoint |-> FALSE, egress_gateway |-> FALSE, needs_ct |-> FALSE]

\* The node's own flows share the address the NAT uses: the address of such
\* a packet, None for any other.
nat_conflict(m, router, direct) ==
  IF On(m, "TUNNEL_MODE") /\ On(m, "IS_BPF_OVERLAY") /\ m.pkt.saddr = router THEN router
  ELSE IF /\ On(m, "IS_BPF_HOST") /\ DIRECT_ROUTING_DEV_IFINDEX = m.ifindex
          /\ m.pkt.saddr = direct THEN direct
  ELSE None
nodeport_has_nat_conflict_ipv4(m) == nat_conflict(m, IPV4_GATEWAY, IPV4_DIRECT_ROUTING)
nodeport_has_nat_conflict_ipv6(m) == nat_conflict(m, ROUTER_IP, IPV6_DIRECT_ROUTING)

snat_fwd(m, conflict, dsr, NeedsMasquerade(_), Snat(_)) ==
  IF lb_is_svc_proto(m, m.tuple.nexthdr) /\ ~dsr /\ conflict # None
  THEN Snat([m EXCEPT !.target.addr = conflict, !.target.needs_ct = TRUE])
  ELSE Then(NeedsMasquerade(m), Snat)
Punted(m) == IF m.err = "NAT_PUNT_TO_STACK" THEN Ignore(m) ELSE m

nodeport_snat_fwd_ipv4(m) ==
  LET m0 == snat_v4_init_tuple([m EXCEPT !.target = NatTarget(None),
                                         !.hasl4 = ipv4_has_l4_header(m.pkt)], {})
      Done(n) == IF n.target.egress_gateway /\ On(n, "IS_BPF_HOST")
                 THEN egress_gw_fib_lookup_and_redirect(ctx_snat_done_set(n), n.tuple.daddr)
                 ELSE ctx_snat_done_set(n)
  IN  Punted(Then(snat_fwd(m0, nodeport_has_nat_conflict_ipv4(m), nodeport_uses_dsr4(m0),
                           snat_v4_needs_masquerade, snat_v4_nat), Done))
nodeport_snat_fwd_ipv6(m) ==
  LET m0 == snat_v6_init_tuple([m EXCEPT !.target = NatTarget(None)], {})
      Fwd(n) == snat_fwd(n, nodeport_has_nat_conflict_ipv6(n), nodeport_uses_dsr6(n),
                         snat_v6_needs_masquerade, snat_v6_nat)
  IN  Punted(Then(Then(ipv6_hdrlen(m0), Fwd), ctx_snat_done_set))

-----------------------------------------------------------------------------
(* DSR: the request tells the backend's node the service it was sent to.   *)

dsr_fail_needs_reply(m) == On(m, "ENABLE_DSR_ICMP_ERRORS") /\ m.err = "DROP_FRAG_NEEDED"
dsr_is_too_big(m) == On(m, "ENABLE_DSR_ICMP_ERRORS") /\ m.pkt.big

\* The hash of the client in the source address only spreads the load.
rss_gen_src4(client) == IPV4_RSS_PREFIX
rss_gen_src6(client) == IPV6_RSS_PREFIX
IpIp(saddr, backend) ==
  [saddr |-> saddr, daddr |-> backend, id |-> "UNKNOWN", opt |-> None, srh |-> FALSE]
dsr_set_ipip4(m, backend_addr) ==
  IF dsr_is_too_big(m) THEN Drop(m, "DROP_FRAG_NEEDED")
  ELSE [m EXCEPT !.pkt.outer = IpIp(rss_gen_src4(m.pkt.saddr), backend_addr)]
dsr_set_ipip6(m, backend_addr) ==
  IF dsr_is_too_big(m) THEN Drop(m, "DROP_FRAG_NEEDED")
  ELSE [m EXCEPT !.pkt.outer = IpIp(rss_gen_src6(m.pkt.saddr), backend_addr)]

\* Of a TCP connection only the SYN carries the option.
NoOption(m) == m.pkt.proto = "TCP" /\ "SYN" \notin m.pkt.tcp
Svc(addr, port) == [addr |-> addr, port |-> port]
dsr_set_opt4(m, svc_addr, svc_port) ==
  IF m.pkt.proto = "TCP" /\ m.pkt.short THEN Drop(m, "DROP_CT_INVALID_HDR")
  ELSE IF NoOption(m) THEN m
  ELSE IF m.pkt.ipopts THEN Drop(m, "DROP_CT_INVALID_HDR")
  ELSE IF dsr_is_too_big(m) THEN Drop(m, "DROP_FRAG_NEEDED")
  ELSE [m EXCEPT !.pkt.dsropt = Svc(svc_addr, svc_port)]
dsr_set_ext6(m, svc_addr, svc_port) ==
  LET Set(n) ==
        IF n.pkt.proto = "TCP" /\ n.pkt.short THEN Drop(n, "DROP_CT_INVALID_HDR")
        ELSE IF NoOption(n) THEN n
        ELSE IF dsr_is_too_big(n) THEN Drop(n, "DROP_FRAG_NEEDED")
        ELSE [n EXCEPT !.pkt.ext = <<"DSR">> \o @, !.pkt.dsropt = Svc(svc_addr, svc_port)]
  IN  Then(ipv6_hdrlen(m), Set)

encap_geneve_dsr(m, endpoint, src_id, opt) ==
  IF m.pkt.proto = "TCP" /\ m.pkt.short THEN Drop(m, "DROP_CT_INVALID_HDR")
  ELSE IF dsr_is_too_big(m) THEN Drop(m, "DROP_FRAG_NEEDED")
  ELSE IF NoOption(m) THEN nodeport_add_tunnel_encap(m, endpoint, src_id)
  ELSE nodeport_add_tunnel_encap_opt(m, endpoint, src_id, opt)
encap_geneve_dsr_opt4(m, svc_addr, svc_port) ==
  LET info == lookup_ip4_remote_endpoint(m, m.pkt.daddr)
      src_id == IF On(m, "IS_BPF_OVERLAY") THEN m.cb.dsrlabel ELSE WorldId(m)
      opt == set_geneve_dsr_opt4(svc_port, svc_addr)
      x == IF On(m, "IS_BPF_XDP") THEN lb4_extract_tuple(m) ELSE m
  IN  IF x.err # "" THEN x
      ELSE IF On(m, "ENABLE_HIGH_SCALE_IPCACHE") THEN encap_geneve_dsr(m, m.pkt.daddr, src_id, opt)
      ELSE IF info = None THEN Drop(m, "DROP_NO_TUNNEL_ENDPOINT")
      ELSE IF info.tunnel_endpoint = None THEN Drop(m, "DROP_NO_TUNNEL_ENDPOINT")
      ELSE encap_geneve_dsr(m, info.tunnel_endpoint, WorldId(m), opt)
encap_geneve_dsr_opt6(m, svc_addr, svc_port) ==
  LET info == lookup_ip6_remote_endpoint(m, m.pkt.daddr)
      Encap(n) == encap_geneve_dsr(m, info.tunnel_endpoint, WorldId(m),
                                   set_geneve_dsr_opt6(svc_port, svc_addr))
  IN  IF info = None THEN Drop(m, "DROP_NO_TUNNEL_ENDPOINT")
      ELSE IF info.tunnel_endpoint = None THEN Drop(m, "DROP_NO_TUNNEL_ENDPOINT")
      ELSE Then(lb6_extract_tuple(m), Encap)

\* The client learns the MTU from an error about its packet to the service.
\* An SCTP packet is dropped (IPv6; the IPv4 code has no case for it).
dsr_reply_icmp4(m, svc_addr, svc_port) ==
  ctx_redirect(Ignore([m EXCEPT !.pkt =
    [IcmpUnreach([m.pkt EXCEPT !.daddr = svc_addr, !.dport = svc_port]) EXCEPT
       !.icmp = "fragneeded", !.saddr = m.pkt.daddr]]), m.ifindex)
dsr_reply_icmp6(m, svc_addr, svc_port) ==
  IF m.pkt.proto \in {"TCP", "UDP"} THEN dsr_reply_icmp4(m, svc_addr, svc_port) ELSE m

DsrReply(r, Reply(_)) == IF dsr_fail_needs_reply(r) THEN Reply(r) ELSE r
tail_nodeport_ipv4_dsr(m) ==
  LET addr == m.cb.addr
      port == m.cb.port
      r == IF On(m, "DSR_IPIP") THEN dsr_set_ipip4(m, addr)
           ELSE IF On(m, "DSR_OPT") THEN dsr_set_opt4(m, addr, port)
           ELSE encap_geneve_dsr_opt4(m, addr, port)
      \* an outer header has a hop count of its own
      Route(n) == IF n.pkt.outer # None THEN fib_redirect(n, n.pkt.outer.daddr, TRUE, FALSE)
                  ELSE fib_redirect_v4(n, TRUE, FALSE)
      Reply(n) == dsr_reply_icmp4(n, addr, port)
  IN  DsrReply(Continue(r, Route), Reply)
tail_nodeport_ipv6_dsr(m) ==
  LET addr == m.cb.addr
      port == m.cb.port
      r == IF On(m, "DSR_IPIP") THEN dsr_set_ipip6(m, addr)
           ELSE IF On(m, "DSR_OPT") THEN dsr_set_ext6(m, addr, port)
           ELSE encap_geneve_dsr_opt6(m, addr, port)
      Route(n) == fib_redirect(n, IF n.pkt.outer # None THEN n.pkt.outer.daddr ELSE n.pkt.daddr,
                               TRUE, FALSE)
      Reply(n) == dsr_reply_icmp6(n, addr, port)
  IN  DsrReply(Continue(r, Route), Reply)

-----------------------------------------------------------------------------
(* DSR on the backend's node.                                              *)

find_dsr_v6(m) ==
  LET n == IF Len(m.pkt.ext) < 4 THEN Len(m.pkt.ext) ELSE 4
      stop == {i \in 1..n : m.pkt.ext[i] \in {"FRAGMENT", "NONE", "DSR"}}
      first == m.pkt.ext[Min(stop)]
  IN  IF stop # {}
      THEN CASE first = "FRAGMENT" -> Drop(m, "DROP_FRAG_NOSUPPORT")
             [] first = "NONE" -> Drop(m, "DROP_INVALID_EXTHDR")
             [] OTHER -> [m EXCEPT !.dsr = m.pkt.dsropt]
      ELSE IF Len(m.pkt.ext) >= 4 THEN Drop(m, "DROP_INVALID_EXTHDR") ELSE m

\* m.dsr becomes the service the packet was sent to, with port 0 when only
\* the connection is known to be a DSR one, None when it is not.  A SYN
\* without the option ends what was known.
nodeport_extract_dsr_v4(m) ==
  LET tmp == ct_tuple_reverse(m.tuple)
      tcp == m.tuple.nexthdr = "TCP"
      opt == IF On(m, "IS_BPF_OVERLAY") THEN m.tunopt ELSE m.pkt.dsropt
      m0 == [m EXCEPT !.dsr = None]
  IN  IF tcp /\ m.pkt.short THEN Drop(m0, "DROP_CT_INVALID_HDR")
      ELSE IF tcp /\ "SYN" \notin m.pkt.tcp
      THEN IF ct_has_dsr_egress_entry4(m, tmp) THEN [m EXCEPT !.dsr = Svc(None, 0)] ELSE m0
      ELSE IF opt # None THEN [m EXCEPT !.dsr = opt]
      ELSE IF tcp THEN ct_update_dsr(m0, tmp, FALSE) ELSE m0
nodeport_extract_dsr_v6(m) ==
  LET tmp == ct_tuple_reverse6(m.tuple)
      tcp == m.tuple.nexthdr = "TCP"
      m0 == [m EXCEPT !.dsr = None]
      found == IF On(m, "IS_BPF_OVERLAY") THEN [m EXCEPT !.dsr = m.tunopt] ELSE find_dsr_v6(m0)
      Forget(n) == IF n.dsr = None /\ tcp THEN ct_update_dsr(n, tmp, FALSE) ELSE n
  IN  IF tcp /\ m.pkt.short THEN Drop(m0, "DROP_CT_INVALID_HDR")
      ELSE IF tcp /\ "SYN" \notin m.pkt.tcp
      THEN IF ct_has_dsr_egress_entry6(m, tmp) THEN [m EXCEPT !.dsr = Svc(None, 0)] ELSE m0
      ELSE Then(found, Forget)

nodeport_dsr_lookup_v4_nat_entry(m, t) == snat_v4_lookup(m, t)
nodeport_dsr_lookup_v6_nat_entry(m, t) == snat_v6_lookup(m, t)
NatTuple(t) == [t EXCEPT !.flags = {}, !.sport = t.dport, !.dport = t.sport]

\* The backend's reply leaves in the service's name.
xlate_dsr_v4(m, t) ==
  LET n == NatTuple(t)
      e == nodeport_dsr_lookup_v4_nat_entry(m, n)
  IN  IF e = None THEN m
      ELSE snat_v4_rewrite_headers(ctx_snat_done_set(m), FALSE, "src", n.nexthdr, m.hasl4,
                                   At(n.saddr, n.sport), EntryAt(e))
xlate_dsr_v6(m, t) ==
  LET n == NatTuple(t)
      e == nodeport_dsr_lookup_v6_nat_entry(m, n)
  IN  IF e = None THEN m
      ELSE snat_v6_rewrite_headers(ctx_snat_done_set(m), FALSE, "src", n.nexthdr,
                                   At(n.saddr, n.sport), EntryAt(e))

dsr_ingress(m, Lazy(_), Create(_, _), CreateDsr(_)) ==
  LET l == Lazy([m EXCEPT !.tuple = ct_tuple_swap_ports(ct_tuple_swap_addrs(@)), !.state = ct_state])
      s == [ct_state EXCEPT !.src_sec_id = WorldId(m), !.dsr = TRUE]
      create == \/ l.ret \in {"CT_NEW", "CT_REOPENED"}
                \/ l.tuple.nexthdr = "TCP" /\ m.dsr.port # 0
  IN  IF l.err # "" \/ l.ret \notin {"CT_NEW", "CT_REOPENED", "CT_ESTABLISHED"}
      THEN Drop(l, "DROP_UNKNOWN_CT")
      ELSE IF ~create THEN l
      ELSE IF m.dsr.port = 0 THEN Drop(l, "DROP_INVALID")
      ELSE Then(Create(l, s), CreateDsr)
nodeport_dsr_ingress_ipv4(m) ==
  LET Lazy(n) == ct_lazy_lookup4(n, "CT_EGRESS", "SCOPE_FORWARD", {"CT_ENTRY_DSR"})
      Create(n, s) == ct_create4(n, "CT_EGRESS", s, FALSE, FALSE, FALSE)
      CreateDsr(n) == snat_v4_create_dsr(n, n.tuple, n.dsr.addr, n.dsr.port)
  IN  dsr_ingress(m, Lazy, Create, CreateDsr)
nodeport_dsr_ingress_ipv6(m) ==
  LET Lazy(n) == ct_lazy_lookup6(n, "CT_EGRESS", "SCOPE_FORWARD", {"CT_ENTRY_DSR"})
      Create(n, s) == ct_create6(n, "CT_EGRESS", s, FALSE, FALSE, FALSE)
      CreateDsr(n) == snat_v6_create_dsr(n, n.tuple, n.dsr.addr, n.dsr.port)
  IN  dsr_ingress(m, Lazy, Create, CreateDsr)

\* What a reply from a local backend is translated to, None if it is no
\* reply of a NodePort connection: [address, port].
rev_dnat_info(m, has, Lookup(_)) ==
  LET e == OutEntry(m, m.tuple)
      dsr == Lookup(NatTuple(m.tuple))
  IN  IF ~has THEN None
      ELSE IF e.node_port /\ e.rev_nat_index # 0
      THEN IF Has(m.revnat, e.rev_nat_index) THEN m.revnat[e.rev_nat_index] ELSE None
      ELSE IF On(m, "ENABLE_DSR") /\ dsr # None THEN [address |-> dsr.addr, port |-> dsr.port]
      ELSE None
nodeport_rev_dnat_get_info_ipv4(m) ==
  LET Lookup(t) == nodeport_dsr_lookup_v4_nat_entry(m, t)
  IN  rev_dnat_info(m, ct_has_nodeport_egress_entry4(m, m.tuple, On(m, "ENABLE_DSR")), Lookup)
nodeport_rev_dnat_get_info_ipv6(m) ==
  LET Lookup(t) == nodeport_dsr_lookup_v6_nat_entry(m, t)
  IN  rev_dnat_info(m, ct_has_nodeport_egress_entry6(m, m.tuple, On(m, "ENABLE_DSR")), Lookup)

-----------------------------------------------------------------------------
(* Translation between the families on a gateway.                          *)

tail_nat_ipv46(m) ==
  LET r == nat46_rfc8215(m) IN
  IF r.err # "" THEN Drop(r, "DROP_NAT46") ELSE fib_redirect_v6(r, FALSE, TRUE)
tail_nat_ipv64(m) ==
  LET r == nat64_rfc8215(m) IN
  IF r.err # "" THEN Drop(r, "DROP_NAT64") ELSE fib_redirect_v4(r, FALSE, TRUE)

-----------------------------------------------------------------------------
(* Replies from remote backends.                                           *)

\* A reply goes back by the tunnel or by the route, and without
\* HAVE_FIB_IFINDEX out of the interface its request came in by.
TunnelOf(m, info) ==
  IF info = None THEN None ELSE info.tunnel_endpoint

rev_dnat_send4(m, tunnel) ==
  IF m.err # "" THEN m
  ELSE IF tunnel # None THEN nodeport_add_tunnel_encap(m, tunnel, m.self.sec_id)
  ELSE fib_redirect([m EXCEPT !.oif = IF On(m, "HAVE_FIB_IFINDEX") THEN 0 ELSE m.state.ifindex],
                    m.pkt.daddr, TRUE, TRUE)
rev_dnat_done4(m) ==
  IF m.err # "" THEN m
  ELSE rev_dnat_send4(ipv4_l3(ctx_snat_done_set(m)),
         IF On(m, "TUNNEL_MODE") THEN TunnelOf(m, lookup_ip4_remote_endpoint(m, m.pkt.daddr)) ELSE None)
rev_dnat_reply4(m) ==
  IF m.err # "" \/ m.ret # "CT_REPLY" THEN Ignore(m)
  ELSE rev_dnat_done4(lb4_rev_nat(m, m.state.rev_nat_index, FALSE, TRUE, m.hasl4))
rev_dnat_tracked4(m, egw) ==
  IF m.err # "" /\ ~NoService(m.err) THEN m
  ELSE IF egw # None /\ ~On(m, "IS_BPF_OVERLAY")
  THEN rev_dnat_send4(ipv4_l3(Ignore([m EXCEPT !.state = ct_state])), egw.tunnel_endpoint)
  ELSE IF m.err # "" THEN Ignore(m)
  ELSE rev_dnat_reply4(ct_lazy_lookup4([m EXCEPT !.state = ct_state], "CT_INGRESS", "SCOPE_REVERSE",
                                       {"CT_ENTRY_NODEPORT"}))
nodeport_rev_dnat_ingress_ipv4(m) ==
  rev_dnat_tracked4(lb4_extract_tuple([m EXCEPT !.hasl4 = ipv4_has_l4_header(m.pkt)]),
                    egress_gw_reply_needs_redirect(m))
nodeport_rev_dnat_ingress_ipv6(m) ==
  LET x == lb6_extract_tuple(m)
      l == ct_lazy_lookup6([x EXCEPT !.state = ct_state], "CT_INGRESS", "SCOPE_REVERSE",
                           {"CT_ENTRY_NODEPORT"})
      h == ipv6_l3(l)
      r == lb6_rev_nat(h, l.state.rev_nat_index, TRUE)
      Fib(n) ==
        LET v4 == is_v4_in_v6(n.pkt.saddr)
            n1 == IF v4 THEN lb6_to_lb4(n) ELSE n
            n2 == [n1 EXCEPT !.oif = IF On(n, "HAVE_FIB_IFINDEX") THEN 0 ELSE n.state.ifindex]
        IN  IF n1.err # "" THEN n1 ELSE fib_redirect(n2, n2.pkt.daddr, TRUE, TRUE)
      tunnel == IF On(m, "TUNNEL_MODE") THEN TunnelOf(m, lookup_ip6_remote_endpoint(m, r.pkt.daddr)) ELSE None
      Send(n) == IF tunnel # None THEN nodeport_add_tunnel_encap(n, tunnel, n.self.sec_id) ELSE Fib(n)
  IN  IF On(m, "ENABLE_NAT_46X64_GATEWAY") /\ nat46x64_cb_route(m) THEN Fib([m EXCEPT !.state = ct_state])
      ELSE IF x.err # "" THEN IF NoService(x.err) THEN Ignore(x) ELSE x
      ELSE IF l.err # "" \/ l.ret # "CT_REPLY" THEN Ignore(l)
      ELSE IF h.next # "" THEN h
      ELSE IF r.err # "" THEN r
      ELSE Send(ctx_snat_done_set(r))

\* With a small instruction limit, with the host firewall in the host's
\* program, and in an endpoint's program, this is a program of its own.
RevDnatTails(m) ==
  \/ ~On(m, "HAVE_LARGE_INSN_LIMIT")
  \/ On(m, "ENABLE_HOST_FIREWALL") /\ On(m, "IS_BPF_HOST")
  \/ On(m, "IS_BPF_LXC")
\* Mutant: the packet comes back to the load balancer.
RecirculateUnmarked(m, program) == ep_tail_call(m, program)
Recirculate(m, program) == ep_tail_call(ctx_skip_nodeport_set(m), program)

rev_dnat_tail(m, RevDnat(_), program) ==
  LET r == RevDnat(m) IN
  IF r.err # "" THEN r
  ELSE IF Running(r) THEN IF bpf_skip_recirculation(r) THEN Drop(r, "DROP_NAT_NO_MAPPING")
                          ELSE Recirculate(r, program)
  ELSE IF On(m, "IS_BPF_LXC") THEN r ELSE edt_set_aggregate(r, 0)
tail_nodeport_rev_dnat_ingress_ipv4(m) ==
  rev_dnat_tail(m, nodeport_rev_dnat_ingress_ipv4, "IPV4_FROM_NETDEV")
tail_nodeport_rev_dnat_ingress_ipv6(m) ==
  rev_dnat_tail(m, nodeport_rev_dnat_ingress_ipv6, "IPV6_FROM_NETDEV")

\* A packet the reverse NAT does not know goes on as it is.  The host's policy
\* is in the program this code is compiled into (Host).
nat_ingress(m, RevNat(_), revdnat, HostPolicy(_), RevDnat(_), tail, netdev) ==
  LET r == RevNat([m EXCEPT !.target = NatTarget(None)])
      fw == On(m, "ENABLE_HOST_FIREWALL") /\ On(m, "IS_BPF_HOST")
      Fw(n) == IF fw THEN ctx_skip_host_fw_set(HostPolicy(n)) ELSE n
      Rev(n) == IF RevDnatTails(m) THEN ep_tail_call(n, tail) ELSE RevDnat(n)
      d == Then(Fw(ctx_snat_done_set(r)), Rev)
  IN  IF r.err \in {"NAT_PUNT_TO_STACK", "DROP_NAT_NO_MAPPING"} THEN Recirculate(Ignore(r), netdev)
      ELSE IF r.err # "" THEN r
      ELSE IF ~revdnat THEN Recirculate(ctx_snat_done_set(r), netdev)
      ELSE IF Running(d) THEN Recirculate(d, netdev)
      ELSE IF d.err = "" /\ d.next = "" THEN edt_set_aggregate(d, 0) ELSE d

-----------------------------------------------------------------------------
(* Requests to remote backends, with source NAT.                           *)

tail_nodeport_nat_egress_ipv4(m) ==
  LET tunnel == IF On(m, "TUNNEL_MODE") THEN TunnelOf(m, lookup_ip4_remote_endpoint(m, m.pkt.daddr)) ELSE None
      m0 == [m EXCEPT !.hasl4 = ipv4_has_l4_header(m.pkt),
                      !.target = NatTarget(IF tunnel # None THEN IPV4_GATEWAY ELSE IPV4_DIRECT_ROUTING)]
      Swap(n) == [n EXCEPT !.tuple = [ct_tuple_swap_ports(@) EXCEPT !.flags = {}]]
      Snat(n) == __snat_v4_nat(n, TRUE)
      Send(n) == IF tunnel # None THEN nodeport_add_tunnel_encap(n, tunnel, WorldId(n))
                 ELSE fib_redirect(n, n.pkt.daddr, TRUE, FALSE)
  IN  Then(Then(Then(Then(Then(lb4_extract_tuple(m0), Swap), ipv4_l3), Snat), ctx_snat_done_set), Send)
tail_nodeport_nat_egress_ipv6(m) ==
  LET tunnel == IF On(m, "TUNNEL_MODE") THEN TunnelOf(m, lookup_ip6_remote_endpoint(m, m.pkt.daddr)) ELSE None
      xlate == nat46x64_cb_xlate(m)
      addr == IF tunnel # None THEN ROUTER_IP
              ELSE IF xlate THEN Nat46(IPV4_DIRECT_ROUTING) ELSE IPV6_DIRECT_ROUTING
      m0 == [m EXCEPT !.target = NatTarget(addr)]
      Swap(n) == [n EXCEPT !.tuple = [ct_tuple_swap_ports6(@) EXCEPT !.flags = {}]]
      Snat(n) == __snat_v6_nat(n, TRUE)
      To4(n) == IF xlate /\ tunnel = None THEN lb6_to_lb4(n) ELSE n
      Send(n) == IF tunnel # None THEN nodeport_add_tunnel_encap(n, tunnel, WorldId(n))
                 ELSE fib_redirect(n, n.pkt.daddr, TRUE, FALSE)
      h == Then(Then(lb6_extract_tuple(m0), Swap), ipv6_l3)
  IN  IF h.next # "" THEN h
      ELSE Then(Then(Then(Then(h, Snat), ctx_snat_done_set), To4), Send)

-----------------------------------------------------------------------------
(* Requests.                                                               *)

\* The backend is chosen: remember the connection if the reply comes by this
\* node, and send the request on.
nodeport_forward(m, svc, key, snew, dsr, Lookup(_), Lazy(_), Create(_, _), Record(_), Dsr(_), Snat(_)) ==
  LET backend_local == Lookup(m.tuple.daddr) # None
      rev == [m EXCEPT !.tuple = ct_tuple_swap_ports(ct_tuple_swap_addrs(@)), !.state = ct_state]
      l == Lazy(rev)
      s == [snew EXCEPT !.src_sec_id = WorldId(m), !.node_port = TRUE,
                        !.ifindex = IF On(m, "HAVE_FIB_IFINDEX") THEN 0 ELSE m.ifindex]
      known == l.ret \in {"CT_REOPENED", "CT_ESTABLISHED"} /\ l.state.rev_nat_index = snew.rev_nat_index
      c == IF known THEN l ELSE Create(l, s)
      Out(n) == IF dsr THEN Dsr(edt_set_aggregate(n, 0)) ELSE Snat(edt_set_aggregate(n, 0))
  IN  IF ~backend_local /\ "HOSTPORT" \in svc.flags THEN Drop(m, "DROP_INVALID")
      ELSE IF ~backend_local /\ dsr THEN Out(m)
      ELSE IF l.err # "" \/ l.ret \notin {"CT_NEW", "CT_REOPENED", "CT_ESTABLISHED"}
      THEN Drop(l, "DROP_UNKNOWN_CT")
      ELSE IF c.err # "" THEN c
      ELSE IF backend_local THEN [c EXCEPT !.xfer = TRUE]
      ELSE Then(Record(c), Out)

nodeport_lb4_forward(m, svc, key) ==
  LET Lookup(a) == lookup_ip4_endpoint(m, a)
      Lazy(n) == ct_lazy_lookup4(n, "CT_EGRESS", "SCOPE_FORWARD", {"CT_ENTRY_NODEPORT"})
      Create(n, s) == ct_create4(n, "CT_EGRESS", s, FALSE, FALSE, FALSE)
      Dsr(n) == ep_tail_call([n EXCEPT !.cb.addr = IF On(n, "DSR_IPIP") THEN m.tuple.daddr ELSE key.address,
                                       !.cb.port = key.dport, !.cb.dsrlabel = m.src_id],
                             "tail_nodeport_ipv4_dsr")
      Snat(n) == ep_tail_call(n, "tail_nodeport_nat_egress_ipv4")
  IN  nodeport_forward(m, svc, key, m.state, nodeport_uses_dsr4(m), Lookup, Lazy, Create,
                       neigh_record_ip4, Dsr, Snat)
nodeport_lb6_forward(m, svc, key) ==
  LET Lookup(a) == lookup_ip6_endpoint(m, a)
      Lazy(n) == ct_lazy_lookup6(n, "CT_EGRESS", "SCOPE_FORWARD", {"CT_ENTRY_NODEPORT"})
      Create(n, s) == ct_create6(n, "CT_EGRESS", s, FALSE, FALSE, FALSE)
      Dsr(n) == ep_tail_call([n EXCEPT !.cb.addr = IF On(n, "DSR_IPIP") THEN m.tuple.daddr ELSE key.address,
                                       !.cb.port = key.dport], "tail_nodeport_ipv6_dsr")
      to4 == ~is_v4_in_v6(key.address) /\ lb6_to_lb4_service(m, svc)
      Snat(n) == ep_tail_call([n EXCEPT !.cb.nat46 = IF to4 THEN "XLATE" ELSE ""],
                              "tail_nodeport_nat_egress_ipv6")
  IN  nodeport_forward(m, svc, key, m.state, nodeport_uses_dsr6(m), Lookup, Lazy, Create,
                       neigh_record_ip6, Dsr, Snat)

\* Not a service: a DSR request for a backend here, or perhaps a reply.
nodeport_lb4_noservice(m, is_svc_proto) ==
  LET m0 == [m EXCEPT !.xfer = TRUE, !.err = ""]
      uses == nodeport_uses_dsr4(m)
      d == IF ReadsDsr(m) /\ is_svc_proto /\ uses THEN nodeport_extract_dsr_v4(m0)
           ELSE [m0 EXCEPT !.dsr = None]
      d1 == [d EXCEPT !.cb.src_label = m.src_id]
      To6(n, Translate(_), mode) ==
        LET r == Translate(n) IN
        IF r.err # "" THEN r
        ELSE ep_tail_call([r EXCEPT !.cb.nat46 = mode], "tail_nodeport_nat_ingress_ipv6")
  IN  IF On(m, "ENABLE_NAT_46X64_GATEWAY") /\ m.pkt.daddr # IPV4_DIRECT_ROUTING
      THEN ep_tail_call(Ignore(m), "tail_nat_ipv46")
      ELSE IF d.err # "" THEN d
      ELSE IF d.dsr # None THEN nodeport_dsr_ingress_ipv4(d)
      ELSE IF ~On(m, "ENABLE_MASQUERADE_IPV4") /\ (~is_svc_proto \/ uses) THEN d
      ELSE IF is_svc_proto /\ snat_v6_has_v4_match(d, d.tuple) THEN To6(d1, lb4_to_lb6, "")
      ELSE IF On(m, "ENABLE_NAT_46X64_GATEWAY") /\ is_svc_proto
              /\ snat_v6_has_v4_match_rfc8215(d, d.tuple) THEN To6(d1, snat_remap_rfc8215, "ROUTE")
      ELSE ep_tail_call(d1, "tail_nodeport_nat_ingress_ipv4")
nodeport_lb6_noservice(m, is_svc_proto) ==
  LET m0 == [m EXCEPT !.xfer = TRUE, !.err = ""]
      uses == nodeport_uses_dsr6(m)
      d == IF ReadsDsr(m) /\ is_svc_proto /\ uses THEN nodeport_extract_dsr_v6(m0)
           ELSE [m0 EXCEPT !.dsr = None]
      r == neigh_record_ip6(Ignore(m))
  IN  IF On(m, "ENABLE_NAT_46X64_GATEWAY") /\ is_v4_in_v6_rfc8215(m.pkt.daddr)
      THEN IF r.err # "" THEN r
           ELSE IF is_v4_in_v6_rfc8215(m.pkt.saddr) THEN ep_tail_call(r, "tail_nat_ipv64")
           ELSE ep_tail_call([r EXCEPT !.cb.nat46 = "XLATE"], "tail_nodeport_nat_egress_ipv6")
      ELSE IF d.err # "" THEN d
      ELSE IF d.dsr # None THEN nodeport_dsr_ingress_ipv6(d)
      ELSE IF ~On(m, "ENABLE_MASQUERADE_IPV6") /\ (~is_svc_proto \/ uses) THEN d
      ELSE ep_tail_call([d EXCEPT !.cb.nat46 = "", !.cb.src_label = m.src_id],
                        "tail_nodeport_nat_ingress_ipv6")

nodeport_lb4_chosen(m, svc, key) ==
  IF m.err = "DROP_NO_SERVICE" /\ On(m, "SERVICE_NO_BACKEND_RESPONSE")
  THEN ep_tail_call(Ignore(m), "tail_no_service_ipv4")
  ELSE IF m.err # "" THEN m
  ELSE IF ~svc_is_routable(svc) THEN Drop(m, "DROP_IS_CLUSTER_IP")
  ELSE nodeport_lb4_forward(m, svc, key)
nodeport_lb4_service(m, key, svc) ==
  LET r6 == lb4_to_lb6(m) IN
  IF svc = None THEN nodeport_lb4_noservice(m, TRUE)
  ELSE IF ~lb4_src_range_ok(m, svc, m.pkt.saddr) THEN Drop(m, "DROP_NOT_IN_SRC_RANGE")
  ELSE IF svc_is_l7loadbalancer(m, svc) /\ svc.l7_lb_proxy_port # 0
  THEN IF On(m, "IS_BPF_XDP") THEN m ELSE ctx_redirect_to_proxy_hairpin_ipv4(m, svc.l7_lb_proxy_port)
  ELSE IF lb4_to_lb6_service(m, svc)
  THEN IF r6.err # "" THEN r6 ELSE [r6 EXCEPT !.next = "NAT_46X64_RECIRC"]
  ELSE nodeport_lb4_chosen(lb4_local(m, key, svc, On(m, "DSR_IPIP")), svc, key)
nodeport_lb4_tuple(m) ==
  LET key == lb4_fill_key(m.tuple) IN
  IF m.err = "DROP_UNKNOWN_L4" THEN [Ignore(m) EXCEPT !.xfer = TRUE]
  ELSE IF m.err = "DROP_UNSUPP_SERVICE_PROTO" THEN nodeport_lb4_noservice(m, FALSE)
  ELSE IF m.err # "" THEN m
  ELSE nodeport_lb4_service(m, key, lb4_lookup_service(m, key, FALSE, FALSE))
nodeport_lb4(m) ==
  nodeport_lb4_tuple(lb4_extract_tuple([m EXCEPT !.hasl4 = ipv4_has_l4_header(m.pkt), !.state = ct_state]))
nodeport_lb6_chosen(m, svc, key) ==
  IF m.err = "DROP_NO_SERVICE" /\ On(m, "SERVICE_NO_BACKEND_RESPONSE")
  THEN ep_tail_call(Ignore(m), "tail_no_service_ipv6")
  ELSE IF m.err # "" THEN m
  ELSE IF ~svc_is_routable(svc) THEN Drop(m, "DROP_IS_CLUSTER_IP")
  ELSE nodeport_lb6_forward(m, svc, key)
nodeport_lb6_service(m, key, svc) ==
  IF svc = None THEN nodeport_lb6_noservice(m, TRUE)
  ELSE IF ~lb6_src_range_ok(m, svc, m.pkt.saddr) THEN Drop(m, "DROP_NOT_IN_SRC_RANGE")
  ELSE IF svc_is_l7loadbalancer(m, svc) /\ svc.l7_lb_proxy_port # 0
  THEN IF On(m, "IS_BPF_XDP") THEN m ELSE ctx_redirect_to_proxy_hairpin_ipv6(m, svc.l7_lb_proxy_port)
  ELSE nodeport_lb6_chosen(lb6_local(m, key, svc, On(m, "DSR_IPIP")), svc, key)
nodeport_lb6_tuple(m) ==
  LET key == lb6_fill_key(m.tuple) IN
  IF m.err = "DROP_UNKNOWN_L4" THEN [Ignore(m) EXCEPT !.xfer = TRUE]
  ELSE IF m.err = "DROP_UNSUPP_SERVICE_PROTO" THEN nodeport_lb6_noservice(m, FALSE)
  ELSE IF m.err # "" THEN m
  ELSE nodeport_lb6_service(m, key, lb6_lookup_service(m, key, FALSE, FALSE))
nodeport_lb6(m) == nodeport_lb6_tuple(lb6_extract_tuple([m EXCEPT !.state = ct_state]))

-----------------------------------------------------------------------------
(* What leaves by a device or a tunnel: replies of local backends are      *)
(* translated back, and the rest is subject to source NAT.                 *)

rev_dnat_fwd(x, info, Lazy(_), RevNat(_)) ==
  LET f == IF On(x, "IS_BPF_HOST") /\ ~On(x, "ENABLE_SKIP_FIB")
           THEN nodeport_fib_lookup_and_redirect(x, x.tuple.daddr) ELSE x
      l == Lazy([f EXCEPT !.state = ct_state])
  IN  IF x.err # "" THEN IF NoService(x.err) THEN Ignore(x) ELSE x
      ELSE IF info = None \/ ~Running(f) THEN IF info = None THEN x ELSE f
      ELSE IF l.err # "" \/ l.ret # "CT_REPLY" THEN Ignore(l)
      ELSE Then(RevNat(l), ctx_snat_done_set)
nodeport_rev_dnat_fwd_ipv4(m) ==
  LET x == lb4_extract_tuple([m EXCEPT !.hasl4 = ipv4_has_l4_header(m.pkt)])
      info == nodeport_rev_dnat_get_info_ipv4(x)
      Lazy(n) == ct_lazy_lookup4(n, "CT_INGRESS", "SCOPE_REVERSE", {"CT_ENTRY_NODEPORT", "CT_ENTRY_DSR"})
      \* in the high-scale mode the answer goes back in the tunnel it came by
      Key(n) == IF /\ n.state.dsr /\ On(n, "ENABLE_HIGH_SCALE_IPCACHE")
                   /\ On(n, "IS_BPF_OVERLAY") /\ On(n, "DSR_GENEVE") /\ n.tun # None
                THEN [n EXCEPT !.tun.local = info.address, !.tun.endpoint = n.tun.local] ELSE n
      RevNat(n) == Then(lb4_rev_nat_entry(n, info, FALSE, TRUE, n.hasl4), Key)
  IN  rev_dnat_fwd(x, info, Lazy, RevNat)
nodeport_rev_dnat_fwd_ipv6(m) ==
  LET x == lb6_extract_tuple(m)
      info == nodeport_rev_dnat_get_info_ipv6(x)
      Lazy(n) == ct_lazy_lookup6(n, "CT_INGRESS", "SCOPE_REVERSE", {"CT_ENTRY_NODEPORT", "CT_ENTRY_DSR"})
      RevNat(n) == lb6_rev_nat_entry(n, info, TRUE)
  IN  rev_dnat_fwd(x, info, Lazy, RevNat)

\* Programs that end with CTX_ACT_OK let the packet go on its way.
EndOk(m) == IF Running(m) THEN CTX_ACT_OK(m) ELSE m
tail_handle_snat_fwd_ipv4(m) == EndOk(nodeport_snat_fwd_ipv4(m))
tail_handle_snat_fwd_ipv6(m) == EndOk(nodeport_snat_fwd_ipv6(m))

handle_nat_fwd_ipv4(m) ==
  LET Snat(n) == IF (Snats(n) \/ On(n, "ENABLE_MASQUERADE_IPV4")) /\ ~ctx_snat_done(n)
                 THEN ep_tail_call(n, "tail_handle_snat_fwd_ipv4") ELSE n
  IN  Continue(nodeport_rev_dnat_fwd_ipv4(m), Snat)
handle_nat_fwd_ipv6(m) ==
  LET Snat(n) == IF (Snats(n) \/ On(n, "ENABLE_MASQUERADE_IPV6")) /\ ~ctx_snat_done(n)
                 THEN ep_tail_call(n, "tail_handle_snat_fwd_ipv6") ELSE n
  IN  Continue(nodeport_rev_dnat_fwd_ipv6(m), Snat)
tail_handle_nat_fwd_ipv4(m) == EndOk(handle_nat_fwd_ipv4(m))
tail_handle_nat_fwd_ipv6(m) == EndOk(handle_nat_fwd_ipv6(m))

HostFw(m) == On(m, "ENABLE_HOST_FIREWALL") /\ On(m, "IS_BPF_HOST")
handle_nat_fwd(m) ==
  IF m.pkt.fam = 4
  THEN IF DualStack(m) \/ HostFw(m) \/ (On(m, "ENABLE_EGRESS_GATEWAY") /\ On(m, "IS_BPF_HOST"))
       THEN ep_tail_call(m, "tail_handle_nat_fwd_ipv4") ELSE handle_nat_fwd_ipv4(m)
  ELSE IF DualStack(m) \/ HostFw(m)
       THEN ep_tail_call(m, "tail_handle_nat_fwd_ipv6") ELSE handle_nat_fwd_ipv6(m)

-----------------------------------------------------------------------------
(* Health probes of the node for a backend go to it by the IPIP tunnel,    *)
(* found by the socket they are sent from (pkt.cookie).                    *)

health_encap_v4(m, tunnel_ep) == encap_with_nodeid(m, tunnel_ep, "UNKNOWN", None)
health_encap_v6(m, tunnel_ep) == encap_with_nodeid(m, tunnel_ep, "UNKNOWN", None)
lb_handle_health(m) ==
  LET peer == m.health[m.pkt.cookie]
      e == IF m.pkt.fam = 4 THEN health_encap_v4(m, peer) ELSE health_encap_v6(m, peer)
  IN  IF \/ m.mark.magic = "HEALTH_IPIP_DONE" \/ ~On(m, "DSR_IPIP")
         \/ ~Has(m.health, m.pkt.cookie) THEN m
      ELSE ctx_redirect([e EXCEPT !.mark.magic = "HEALTH_IPIP_DONE"], ENCAP_IFINDEX)
================================================================================
