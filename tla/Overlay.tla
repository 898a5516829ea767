-------------------------------- MODULE Overlay --------------------------------
(***************************************************************************)
(* The program of the tunnel device                                        *)
(* (examples/cilium-lxc/bpf/bpf_overlay.c) and the XDP program of a network*)
(* device (bpf_xdp.c), which answers for services before the stack sees    *)
(* the packet.  Fields of m used here:                                     *)
(*   tun        the tunnel key of a packet from the tunnel (None: no key)  *)
(*   prefilter  the source addresses of the two prefilter maps             *)
(* ClusterOf gives the cluster of an identity, 0 for this one.             *)
(***************************************************************************)
EXTENDS Host

CONSTANTS IPV4_INTER_CLUSTER_SNAT, ClusterOf(_)

-----------------------------------------------------------------------------
(* From the tunnel.                                                        *)

\* Mutant: the address tells the identity whatever the tunnel header says.
TunnelIdentityOfAddress(m, info, world) ==
  IF info # None THEN [m EXCEPT !.src_id = info.sec_identity] ELSE m
\* What the sender said of the identity holds, unless it could not know:
\* a decrypted packet, or one of another node.
TunnelIdentity(m, info, world) ==
  IF info # None /\ (m.mark.magic = "DECRYPT" \/ identity_is_remote_node(m.src_id) \/ (m.dsr # None /\ world))
  THEN [m EXCEPT !.src_id = info.sec_identity] ELSE m
is_esp(p) == p.proto = "ESP"
\* Encrypted packets go up the stack, to be decrypted and to come back.
ToDecrypt(m) == On(m, "ENABLE_IPSEC") /\ m.mark.magic # "DECRYPT" /\ is_esp(m.pkt)
Decrypted(m) ==
  IF On(m, "ENABLE_IPSEC") /\ m.mark.magic = "DECRYPT" THEN [m EXCEPT !.mark = NoMark] ELSE m
StackDecrypts(m) == CTX_ACT_OK([m EXCEPT !.mark = [NoMark EXCEPT !.magic = "DECRYPT"]])

ipv4_host_delivery(m) ==
  LET To(n) == ctx_redirect(n, HOST_IFINDEX) IN
  IF On(m, "HOST_IFINDEX") THEN Then(ipv4_l3(m), To) ELSE CTX_ACT_OK(m)
ipv6_host_delivery(m) ==
  LET To(n) == ctx_redirect(n, HOST_IFINDEX) IN
  IF On(m, "HOST_IFINDEX") THEN Continue(ipv6_l3(m), To) ELSE CTX_ACT_OK(m)

\* An answer from another cluster: the source NAT of this node is undone.
inter_cluster_deliver(m, src_id) ==
  LET n == IF m.err \in {"NAT_PUNT_TO_STACK", "DROP_NAT_NO_MAPPING"} THEN Ignore(m) ELSE m
      ep == lookup_ip4_endpoint(n, n.pkt.daddr)
  IN  IF n.err # "" THEN n
      ELSE IF ep = None THEN Drop(n, "DROP_UNROUTABLE")
      ELSE IF "HOST" \in ep.flags THEN ipv4_host_delivery(n)
      ELSE ipv4_local_delivery(n, src_id, "IDENTITY", ep, FALSE, FALSE, TRUE)
handle_inter_cluster_revsnat(m, src_id) ==
  inter_cluster_deliver(snat_v4_rev_nat([m EXCEPT !.target = NatTarget(None)]), src_id)
tail_handle_inter_cluster_revsnat(m) ==
  handle_inter_cluster_revsnat([m EXCEPT !.cb.src_label = "UNKNOWN"], m.cb.src_label)

\* The gateway sends the packet out, unless its route leads back to the tunnel
\* device or its neighbour is not known: then it is delivered like any other.
overlay_egress_gateway(m) ==
  LET addr == egress_gw_snat_needed_hook(m, m.pkt.saddr, m.pkt.daddr)
      Route(n) == LET r == egress_gw_fib_lookup_and_redirect(n, n.pkt.daddr)
                  IN  IF r.verdict = "STACK" THEN [r EXCEPT !.verdict = ""] ELSE r
  IN  IF On(m, "ENABLE_EGRESS_GATEWAY") /\ addr # None THEN Then(ipv4_l3(m), Route) ELSE m
overlay_deliver4(m) ==
  LET ep == lookup_ip4_endpoint(m, m.pkt.daddr) IN
  IF ep = None THEN ipv4_host_delivery(m)
  ELSE IF "HOST" \in ep.flags THEN ipv4_host_delivery(m)
  ELSE ipv4_local_delivery(m, m.src_id, "IDENTITY", ep, FALSE, FALSE, TRUE)
overlay_labelled4(m) ==
  IF ToDecrypt(m) THEN StackDecrypts(m)
  ELSE Continue(overlay_egress_gateway(Decrypted(m)), overlay_deliver4)
overlay_balanced4(m) ==
  LET plain == m.mark.magic # "DECRYPT"
      world == identity_is_world_ipv4(m, m.src_id)
  IN  IF plain /\ On(m, "ENABLE_VTEP") /\ Has(m.vteps, m.pkt.saddr) /\ world
      THEN Drop(m, "DROP_INVALID_VNI")
      ELSE IF /\ plain /\ On(m, "ENABLE_INTER_CLUSTER_SNAT") /\ ClusterOf(m.src_id) # 0
              /\ m.pkt.daddr = IPV4_INTER_CLUSTER_SNAT
      THEN ep_tail_call([m EXCEPT !.cb.src_label = m.src_id], "tail_handle_inter_cluster_revsnat")
      ELSE overlay_labelled4(TunnelIdentity(m, lookup_ip4_remote_endpoint(m, m.pkt.saddr), world))
\* handle_ipv4 does not ask for NAT_46X64_RECIRC, and reads the header of the translated
\* packet as an IPv4 header: where the addresses would be are the zeros of ::ffff:a.b.c.d.
overlay_misread4(m) ==
  LET r == overlay_balanced4([m EXCEPT !.next = "", !.pkt.saddr = None, !.pkt.daddr = None])
  IN  [r EXCEPT !.pkt.saddr = m.pkt.saddr, !.pkt.daddr = m.pkt.daddr]
overlay_handle_ipv4(m) ==
  LET n == [m EXCEPT !.dsr = None]
      r == IF ctx_skip_nodeport(m) THEN n ELSE nodeport_lb4(n)
  IN  IF ~On(m, "ENABLE_IPV4_FRAGMENTS") /\ ipv4_is_fragment(m.pkt)
      THEN Drop(m, "DROP_FRAG_NOSUPPORT")
      ELSE IF r.next = "NAT_46X64_RECIRC" THEN overlay_misread4(r)
      ELSE Continue(r, overlay_balanced4)
overlay_deliver6(m) ==
  LET ep == lookup_ip6_endpoint(m, m.pkt.daddr)
      host == IF ep = None THEN TRUE ELSE "HOST" \in ep.flags
  IN  IF host THEN ipv6_host_delivery(m)
      ELSE ipv6_local_delivery(m, m.src_id, "IDENTITY", ep, FALSE, TRUE)
overlay_labelled6(m) == IF ToDecrypt(m) THEN StackDecrypts(m) ELSE overlay_deliver6(Decrypted(m))
overlay_balanced6(m) ==
  overlay_labelled6(TunnelIdentity(m, lookup_ip6_remote_endpoint(m, m.pkt.saddr),
                                   identity_is_world_ipv6(m, m.src_id)))
overlay_handle_ipv6(m) ==
  LET n == [m EXCEPT !.dsr = None]
  IN  Continue(IF ctx_skip_nodeport(m) THEN n ELSE nodeport_lb6(n), overlay_balanced6)
overlay_tail_handle_ipv4(m) ==
  overlay_handle_ipv4([m EXCEPT !.cb.src_label = "UNKNOWN", !.src_id = m.cb.src_label])
overlay_tail_handle_ipv6(m) ==
  overlay_handle_ipv6([m EXCEPT !.cb.src_label = "UNKNOWN", !.src_id = m.cb.src_label])

\* A gateway that is not a node asks for a pod's address.
overlay_tail_handle_arp(m) ==
  IF m.tun = None THEN Drop(m, "DROP_NO_TUNNEL_KEY")
  ELSE IF \/ ~arp_validate(m.pkt, NODE_MAC) \/ lookup_ip4_endpoint(m, m.pkt.daddr) = None
          \/ ~Has(m.vteps, m.pkt.saddr)
  THEN CTX_ACT_OK(m)
  ELSE encap_and_redirect(arp_respond(m, NODE_MAC), m.vteps[m.pkt.saddr], "LOCAL_NODE")

get_id_from_tunnel_id(m, id) == IF id = "WORLD" THEN WorldId(m) ELSE id
cil_from_overlay(m) ==
  LET high == On(m, "ENABLE_HIGH_SCALE_IPCACHE")
      c == ctx_skip_nodeport_clear(IF high THEN m ELSE bpf_clear_meta(m))
      tun == m.tun
      id == get_id_from_tunnel_id(m, IF high THEN c.cb.src_label ELSE tun.id)
      labels == Handles(m, m.pkt.fam) /\ m.mark.magic # "DECRYPT"
      s == IF labels THEN [c EXCEPT !.cb.src_label = id] ELSE c
      o == IF high /\ On(m, "ENABLE_DSR") /\ On(m, "DSR_GENEVE") /\ s.cb.hsipc # None
           THEN [s EXCEPT !.tunopt = s.cb.hsipc] ELSE s
  IN  IF m.pkt.fam = 0 THEN CTX_ACT_OK(c)
      ELSE IF labels /\ ~high /\ tun = None THEN Drop(c, "DROP_NO_TUNNEL_KEY")
      ELSE IF labels /\ id = "HOST" THEN Drop(c, "DROP_INVALID_IDENTITY")
      ELSE IF m.pkt.fam \in {4, 6} /\ ~Handles(m, m.pkt.fam) THEN Drop(s, "DROP_UNKNOWN_L3")
      ELSE IF m.pkt.fam = 4 THEN ep_tail_call(o, "IPV4_FROM_OVERLAY")
      ELSE IF m.pkt.fam = 6 THEN ep_tail_call(s, "IPV6_FROM_OVERLAY")
      ELSE IF m.pkt.fam = ETH_P_ARP /\ On(m, "ENABLE_VTEP") THEN ep_tail_call(s, "overlay_tail_handle_arp")
      ELSE CTX_ACT_OK(s)

cil_to_overlay(m) ==
  LET e == IF On(m, "ENABLE_BANDWIDTH_MANAGER") THEN edt_sched_departure(m) ELSE m
      Nat_(n) == IF On(n, "ENABLE_NODEPORT") /\ ~ctx_snat_done(n) /\ Handles(n, n.pkt.fam)
                 THEN handle_nat_fwd(n) ELSE n
  IN  EndOk(Continue(e, Nat_))

-----------------------------------------------------------------------------
(* XDP.                                                                    *)

\* What was learnt travels with a packet that goes on to the stack.
ctx_move_xfer(m) ==
  [m EXCEPT !.xferflags = (IF m.xfer THEN {"NO_SVC"} ELSE {})
                          \cup (IF ctx_snat_done(m) THEN {"SNAT_DONE"} ELSE {}),
            !.mark = NoMark]
bpf_xdp_exit(m) == IF m.verdict = "STACK" THEN ctx_move_xfer(m) ELSE m

\* The packet as it is on the wire, with the outer header in front.
OuterView(p) ==
  IF p.outer = None THEN p
  ELSE [p EXCEPT !.saddr = p.outer.saddr, !.daddr = p.outer.daddr, !.proto = "UDP",
                 !.sport = TUNNEL_PORT, !.dport = TUNNEL_PORT, !.frag = "no", !.outer = None]
\* With DSR by Geneve a request that another node tunnelled here is
\* answered for as well: the service is looked up in the inner header.
InnerView(m) ==
  /\ On(m, "ENABLE_DSR") /\ ~On(m, "ENABLE_DSR_HYBRID") /\ On(m, "DSR_GENEVE")
  /\ m.pkt.outer # None
  /\ m.pkt.outer.opt = None
lb_done(m, before, wire) ==
  IF m.next = "NAT_46X64_RECIRC" THEN ep_tail_call(m, "IPV6_FROM_NETDEV")
  ELSE bpf_xdp_exit(EndOk([m EXCEPT !.pkt = IF @ = before THEN wire ELSE @]))
tail_lb_ipv4(m) ==
  LET v == IF InnerView(m) THEN m.pkt ELSE OuterView(m.pkt) IN
  IF ctx_skip_nodeport(m) THEN bpf_xdp_exit(CTX_ACT_OK(m))
  ELSE lb_done(nodeport_lb4([m EXCEPT !.pkt = v, !.src_id = "UNKNOWN"]), v, m.pkt)
tail_lb_ipv6(m) ==
  IF ctx_skip_nodeport(m) THEN bpf_xdp_exit(CTX_ACT_OK(m))
  ELSE bpf_xdp_exit(EndOk(nodeport_lb6([m EXCEPT !.src_id = "UNKNOWN"])))
check_v4_lb(m) ==
  IF On(m, "ENABLE_NODEPORT_ACCELERATION") THEN ep_tail_call(m, "IPV4_FROM_NETDEV") ELSE CTX_ACT_OK(m)
check_v6_lb(m) ==
  IF On(m, "ENABLE_NODEPORT_ACCELERATION") THEN ep_tail_call(m, "IPV6_FROM_NETDEV") ELSE CTX_ACT_OK(m)
PreFilter(m) == On(m, "ENABLE_PREFILTER") /\ m.pkt.saddr \in m.prefilter
check_v4(m) == IF PreFilter(m) THEN Drop(m, "CTX_ACT_DROP") ELSE check_v4_lb(m)
check_v6(m) == IF PreFilter(m) THEN Drop(m, "CTX_ACT_DROP") ELSE check_v6_lb(m)
check_filters(m) ==
  LET c == ctx_skip_nodeport_clear([m EXCEPT !.xfer = FALSE, !.xferflags = {}, !.mark = NoMark]) IN
  IF ~Handles(m, m.pkt.fam) THEN CTX_ACT_OK(c)
  ELSE bpf_xdp_exit(IF m.pkt.fam = 4 THEN check_v4(c) ELSE check_v6(c))
cil_xdp_entry(m) == check_filters(m)
================================================================================
