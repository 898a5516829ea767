---------------------------------- MODULE Host ----------------------------------
(***************************************************************************)
(* The program of the node's devices and of its host device                *)
(* (examples/cilium-lxc/bpf/bpf_host.c) with the host firewall             *)
(* (lib/host_firewall.h).  Packets enter at cil_from_netdev and            *)
(* cil_from_host, and leave by cil_to_netdev and cil_to_host.  m.self is   *)
(* the host endpoint, so that PolicyMap(m) is the host's policy.  Fields   *)
(* of m used here:                                                         *)
(*   pkt.vlan   the VLAN id of the frame, 0 for none                       *)
(*   vlans      the pairs <<ifindex, vlan>> of VLAN_FILTER                 *)
(*   alive, l2resp  CONFIG_MAP's time of the agent (None: unset) and the   *)
(*              pairs <<address, ifindex>> of L2_RESPONDER_MAP4            *)
(*   xferflags  what the XDP program left for this one                     *)
(* A firewall check that returns CTX_ACT_OK leaves m running.  Rewriting   *)
(* the MAC addresses and the packet type is left out.                      *)
(***************************************************************************)
EXTENDS Lxc

CONSTANT L2_ANNOUNCEMENTS_MAX_LIVENESS

-----------------------------------------------------------------------------
(* The host firewall.  A lookup leaves the connection in tuple, state and  *)
(* ret; it does not apply (m itself) when the host is not the endpoint.    *)

IdOf(info, default) ==
  IF info # None THEN IF info.sec_identity # "UNKNOWN" THEN info.sec_identity ELSE default
  ELSE default
AuthTunnel(info) ==
  IF info # None THEN IF info.sec_identity # "UNKNOWN" THEN info.tunnel_endpoint ELSE None
  ELSE None

\* What the node masquerades itself is not the host's; without that, the
\* stack may have given a pod's packet the node's address already.
EgressApplies(src_id, ipcache_srcid, masquerade) ==
  src_id = "HOST" \/ (~masquerade /\ ipcache_srcid = "HOST")
HostLookup(m) == [m EXCEPT !.tuple = PktTuple(m.pkt), !.state = ct_state]
ipv4_host_policy_egress_lookup(m) == ct_lookup4(HostLookup(m), "CT_EGRESS")
ipv6_host_policy_egress_lookup(m) ==
  LET Look(n) == ct_lookup6(n, "CT_EGRESS") IN Then(ipv6_hdrlen(HostLookup(m)), Look)
ipv4_host_policy_ingress_lookup(m) == ct_lookup4(HostLookup(m), "CT_INGRESS")
ipv6_host_policy_ingress_lookup(m) ==
  LET Look(n) == ct_lookup6(n, "CT_INGRESS") IN Then(ipv6_hdrlen(HostLookup(m)), Look)
\* Mutant: the source is tested.
IngressAppliesToSource(m) == IdOf(lookup_ip4_remote_endpoint(m, m.pkt.saddr), "WORLD") = "HOST"
IngressApplies(m) == IdOf(lookup_ip4_remote_endpoint(m, m.pkt.daddr), "WORLD") = "HOST"

\* Only a packet that the policy lets through makes an entry.
host_policy_verdict(m, Create(_, _), src) ==
  IF m.pol # "OK" THEN Drop(m, m.pol)
  ELSE IF m.ret = "CT_NEW" THEN Create(m, [ct_state EXCEPT !.src_sec_id = src]) ELSE m
host_authorise(m, remote, tunnel) ==
  IF m.pol = "DROP_POLICY_AUTH_REQUIRED" THEN auth_lookup(m, "HOST", remote, tunnel) ELSE m
host_policy(m, remote, tunnel, Can(_), Create(_, _), src) ==
  IF m.ret \in Replies THEN m
  ELSE host_policy_verdict(host_authorise(Can([m EXCEPT !.proxy_port = 0]), remote, tunnel), Create, src)

\* What the stack has masqueraded for a pod is let out, and tracked.
ipv4_whitelist_snated_egress_connections(m) ==
  IF m.ret = "CT_NEW" THEN ct_create4(m, "CT_EGRESS", ct_state, FALSE, FALSE, TRUE) ELSE m
ipv6_whitelist_snated_egress_connections(m) ==
  IF m.ret = "CT_NEW" THEN ct_create6(m, "CT_EGRESS", ct_state, FALSE, FALSE, TRUE) ELSE m
__ipv4_host_policy_egress(m, is_host_id) ==
  LET info == lookup_ip4_remote_endpoint(m, m.pkt.daddr)
      dst == IdOf(info, "UNKNOWN")
      Can(n) == policy_can_egress4(n, "HOST", dst)
      Create(n, s) == ct_create4(n, "CT_EGRESS", s, n.proxy_port > 0, FALSE, TRUE)
  IN  IF ~On(m, "ENABLE_MASQUERADE_IPV4") /\ ~is_host_id
      THEN ipv4_whitelist_snated_egress_connections(m)
      ELSE host_policy(m, dst, AuthTunnel(info), Can, Create, "HOST")
__ipv6_host_policy_egress(m, is_host_id) ==
  LET info == lookup_ip6_remote_endpoint(m, m.pkt.daddr)
      dst == IdOf(info, "UNKNOWN")
      Can(n) == policy_can_egress6(n, "HOST", dst)
      Create(n, s) == ct_create6(n, "CT_EGRESS", s, n.proxy_port > 0, FALSE, TRUE)
  IN  IF ~On(m, "ENABLE_MASQUERADE_IPV6") /\ ~is_host_id
      THEN ipv6_whitelist_snated_egress_connections(m)
      ELSE host_policy(m, dst, AuthTunnel(info), Can, Create, "HOST")
__ipv4_host_policy_ingress(m, src0) ==
  LET info == lookup_ip4_remote_endpoint(m, m.pkt.saddr)
      src == IdOf(info, src0)
      Can(n) == policy_can_ingress4(n, src, ~On(n, "ENABLE_IPV4_FRAGMENTS") /\ ipv4_is_fragment(n.pkt))
      Create(n, s) == ct_create4(n, "CT_INGRESS", s, n.proxy_port > 0, FALSE, TRUE)
  IN  host_policy(m, src, AuthTunnel(info), Can, Create, src)
__ipv6_host_policy_ingress(m, src0) ==
  LET info == lookup_ip6_remote_endpoint(m, m.pkt.saddr)
      src == IdOf(info, src0)
      Can(n) == policy_can_ingress6(n, src)
      Create(n, s) == ct_create6(n, "CT_INGRESS", s, n.proxy_port > 0, FALSE, TRUE)
  IN  host_policy(m, src, AuthTunnel(info), Can, Create, src)

ipv4_host_policy_egress(m, src_id, ipcache_srcid) ==
  LET Check(n) == __ipv4_host_policy_egress(n, src_id = "HOST") IN
  IF EgressApplies(src_id, ipcache_srcid, On(m, "ENABLE_MASQUERADE_IPV4"))
  THEN Then(ipv4_host_policy_egress_lookup(m), Check) ELSE m
ipv6_host_policy_egress(m, src_id, ipcache_srcid) ==
  LET Check(n) == __ipv6_host_policy_egress(n, src_id = "HOST") IN
  IF EgressApplies(src_id, ipcache_srcid, On(m, "ENABLE_MASQUERADE_IPV6"))
  THEN Then(ipv6_host_policy_egress_lookup(m), Check) ELSE m
ipv4_host_policy_ingress(m) ==
  LET Check(n) == __ipv4_host_policy_ingress(n, m.src_id) IN
  IF IngressApplies(m) THEN Then(ipv4_host_policy_ingress_lookup(m), Check) ELSE m
ipv6_host_policy_ingress(m) ==
  LET Check(n) == __ipv6_host_policy_ingress(n, m.src_id) IN
  IF IngressApplies(m) THEN Then(ipv6_host_policy_ingress_lookup(m), Check) ELSE m

\* The reverse translation of lib/nodeport.h, which in this program checks
\* the host's policy between source NAT and destination NAT.
HostPolicy4(m) == ipv4_host_policy_ingress([m EXCEPT !.src_id = "UNKNOWN"])
HostPolicy6(m) == ipv6_host_policy_ingress([m EXCEPT !.src_id = "UNKNOWN"])
tail_nodeport_nat_ingress_ipv4(m) ==
  nat_ingress(m, snat_v4_rev_nat,
              Snats(m) \/ (On(m, "ENABLE_EGRESS_GATEWAY") /\ ~On(m, "IS_BPF_OVERLAY")),
              HostPolicy4, nodeport_rev_dnat_ingress_ipv4,
              "tail_nodeport_rev_dnat_ingress_ipv4", "IPV4_FROM_NETDEV")
tail_nodeport_nat_ingress_ipv6(m) ==
  nat_ingress(m, snat_v6_rev_nat, Snats(m), HostPolicy6, nodeport_rev_dnat_ingress_ipv6,
              "tail_nodeport_rev_dnat_ingress_ipv6", "IPV6_FROM_NETDEV")

-----------------------------------------------------------------------------
(* Packets that come in, from a device or from the host's own stack.       *)

identity_from_ipcache_ok(m) == On(m, "SECCTX_FROM_IPCACHE_OK")
\* The label of the source: the mark's, made more precise by the address
\* when it is a reserved one.  From a device only the address tells it.
resolve_srcid(m, mark_id, info, from_host) ==
  LET id == IF identity_is_reserved(m, mark_id) /\ IdOf(info, "HOST") # "HOST"
            THEN info.sec_identity ELSE mark_id
  IN  IF from_host \/ identity_from_ipcache_ok(m) THEN id ELSE WorldId(m)
resolve_srcid_ipv4(m, mark_id, from_host) ==
  resolve_srcid(m, mark_id, lookup_ip4_remote_endpoint(m, m.pkt.saddr), from_host)
resolve_srcid_ipv6(m, mark_id, from_host) ==
  resolve_srcid(m, mark_id, lookup_ip6_remote_endpoint(m, m.pkt.saddr), from_host)
IpcacheSrc(m, mark_id) ==
  LET info == lookup_ip4_remote_endpoint(m, m.pkt.saddr) IN
  IF identity_is_reserved(m, mark_id) /\ info # None THEN info.sec_identity ELSE "UNKNOWN"

\* The lookup of the host firewall is done here, and its verdict in the
\* next program: the flags in cb.from_host tell it to.
host_firewall_lookup(m, ipcache_srcid, from_host, masquerade, Egress(_), Ingress(_)) ==
  LET applies == IF from_host THEN EgressApplies(m.src_id, ipcache_srcid, masquerade)
                 ELSE ~ctx_skip_host_fw(m) /\ IngressApplies(m)
      c == ctx_skip_host_fw_clear(m)
      l == IF from_host THEN Egress(m) ELSE Ingress(c)
      flags == IF from_host /\ m.src_id = "HOST" THEN {"NEED_HOSTFW", "HOST_ID"} ELSE {"NEED_HOSTFW"}
  IN  IF ~On(m, "ENABLE_HOST_FIREWALL") THEN m
      ELSE IF ~applies THEN [(IF from_host THEN m ELSE c) EXCEPT !.cb.from_host = {}]
      ELSE IF l.err # "" THEN l
      ELSE [l EXCEPT !.buf = Buffer(l), !.cb.from_host = flags]
host_balanced4(m, label, ipcache_srcid, from_host) ==
  IF m.next = "NAT_46X64_RECIRC"
  THEN ep_tail_call([m EXCEPT !.cb.src_label = label], "IPV6_FROM_NETDEV")
  ELSE IF ~Running(m) THEN m
  ELSE host_firewall_lookup(m, ipcache_srcid, from_host, On(m, "ENABLE_MASQUERADE_IPV4"),
                            ipv4_host_policy_egress_lookup, ipv4_host_policy_ingress_lookup)
host_handle_ipv4(m, ipcache_srcid, from_host) ==
  IF ~On(m, "ENABLE_IPV4_FRAGMENTS") /\ ipv4_is_fragment(m.pkt) THEN Drop(m, "DROP_FRAG_NOSUPPORT")
  ELSE host_balanced4(IF ~from_host /\ ~ctx_skip_nodeport(m) THEN nodeport_lb4(m) ELSE m,
                      m.src_id, ipcache_srcid, from_host)
host_balanced6(m, ipcache_srcid, from_host) ==
  IF ~Running(m) THEN m
  ELSE host_firewall_lookup(m, ipcache_srcid, from_host, On(m, "ENABLE_MASQUERADE_IPV6"),
                            ipv6_host_policy_egress_lookup, ipv6_host_policy_ingress_lookup)
host_handle_ipv6(m, ipcache_srcid, from_host) ==
  LET h == IF On(m, "ENABLE_HOST_FIREWALL") THEN ipv6_hdrlen([m EXCEPT !.tuple = PktTuple(m.pkt)]) ELSE m
      icmp == IF On(m, "ENABLE_HOST_FIREWALL") /\ h.tuple.nexthdr = "ICMP"
              THEN icmp6_host_handle(m.pkt) ELSE "OK"
  IN  IF h.err # "" THEN h
      ELSE IF icmp = "SKIP_HOST_FIREWALL" THEN [m EXCEPT !.cb.from_host = {}]
      ELSE IF icmp # "OK" THEN Drop(m, icmp)
      ELSE host_balanced6(IF ~from_host /\ ~ctx_skip_nodeport(m) THEN nodeport_lb6(m) ELSE m,
                          ipcache_srcid, from_host)

host_firewall_verdict(m, from_host, Egress(_, _), Ingress(_)) ==
  LET c == [m EXCEPT !.cb.from_host = {}] IN
  IF ~On(m, "ENABLE_HOST_FIREWALL") THEN m
  ELSE IF "NEED_HOSTFW" \notin m.cb.from_host THEN c
  ELSE IF m.buf = None THEN Drop(c, "DROP_INVALID_TC_BUFFER")
  ELSE IF from_host THEN Egress(FromBuffer(c), "HOST_ID" \in m.cb.from_host)
  ELSE Ingress(FromBuffer(c))
\* From the host to a pod elsewhere: by a tunnel, or by the stack.
host_forward(m, secctx, info, world) ==
  LET proxy == tc_index_from_ingress_proxy(m)
      key == IF On(m, "ENABLE_IPSEC") /\ proxy /\ info # None THEN get_min_encrypt_key(m, info.key) ELSE 0
      endpoint == IF info = None THEN None ELSE info.tunnel_endpoint
      t == IF endpoint # None THEN encap_and_redirect_with_nodeid(m, endpoint, key, secctx)
           ELSE encap_and_redirect_netdev(m, m.pkt.daddr, key, secctx)
  IN  IF On(m, "TUNNEL_MODE") /\ (endpoint # None \/ t.err # "DROP_NO_TUNNEL_ENDPOINT") THEN t
      ELSE IF info = None \/ (~proxy /\ world) THEN Drop(m, "DROP_UNROUTABLE")
      ELSE IF On(m, "ENABLE_IPSEC") /\ ~On(m, "TUNNEL_MODE") /\ proxy /\ endpoint # None /\ key # 0
      THEN set_ipsec_encrypt(m, key, endpoint, info.sec_identity, TRUE)
      ELSE CTX_ACT_OK(m)
host_vtep(m, secctx) ==
  IF On(m, "ENABLE_VTEP") /\ Has(m.vteps, m.pkt.daddr)
  THEN encap_and_redirect(m, m.vteps[m.pkt.daddr], secctx) ELSE m
\* From a device a packet for a pod is delivered only with host routing;
\* otherwise the stack hands it back by the host's device.
host_deliver(m, from_host, ep, Deliver(_, _), Elsewhere(_)) ==
  IF ~On(m, "ENABLE_HOST_ROUTING") /\ ~from_host THEN CTX_ACT_OK(m)
  ELSE IF ep # None
  THEN IF "HOST" \in ep.flags THEN CTX_ACT_OK(m)
       ELSE Deliver(m, IF tc_index_from_ingress_proxy(m) THEN "PROXY_INGRESS" ELSE "IDENTITY")
  ELSE IF ~from_host THEN CTX_ACT_OK(m) ELSE Elsewhere(m)
handle_ipv4_cont(m, secctx, from_host) ==
  LET Ingress(n) == __ipv4_host_policy_ingress(n, "UNKNOWN")
      ep == lookup_ip4_endpoint(m, m.pkt.daddr)
      info == lookup_ip4_remote_endpoint(m, m.pkt.daddr)
      Deliver(n, magic) == ipv4_local_delivery(n, secctx, magic, ep, from_host, FALSE, FALSE)
      Forward4(n) == host_forward(n, secctx, info, identity_is_world_ipv4(n, IdOf(info, "UNKNOWN")))
      Elsewhere(n) == Continue(host_vtep(n, secctx), Forward4)
      Go(n) == host_deliver(n, from_host, ep, Deliver, Elsewhere)
  IN  Continue(host_firewall_verdict(m, from_host, __ipv4_host_policy_egress, Ingress), Go)
handle_ipv6_cont(m, secctx, from_host) ==
  LET Ingress(n) == __ipv6_host_policy_ingress(n, "WORLD_IPV6")
      ep == lookup_ip6_endpoint(m, m.pkt.daddr)
      info == lookup_ip6_remote_endpoint(m, m.pkt.daddr)
      Deliver(n, magic) == ipv6_local_delivery(n, secctx, magic, ep, from_host, FALSE)
      Forward6(n) == host_forward(n, secctx, info, identity_is_world_ipv6(n, IdOf(info, "UNKNOWN")))
      Srv6(n) == IF /\ On(n, "ENABLE_SRV6") /\ ~from_host /\ is_srv6_packet(n)
                    /\ srv6_lookup_sid(n, n.pkt.outer.daddr)
                 THEN ep_tail_call(n, "tail_srv6_decap") ELSE n
      Go(n) == host_deliver(n, from_host, ep, Deliver, Forward6)
  IN  Continue(Continue(host_firewall_verdict(m, from_host, __ipv6_host_policy_egress, Ingress), Srv6), Go)

\* The label travels in the meta data from program to program.
host_tail_handle_ipv4_cont(m, from_host) ==
  handle_ipv4_cont([m EXCEPT !.cb.src_label = "UNKNOWN"], m.cb.src_label, from_host)
host_tail_handle_ipv6_cont(m, from_host) ==
  handle_ipv6_cont([m EXCEPT !.cb.src_label = "UNKNOWN"], m.cb.src_label, from_host)
tail_handle_ipv4_cont_from_host(m) == host_tail_handle_ipv4_cont(m, TRUE)
tail_handle_ipv4_cont_from_netdev(m) == host_tail_handle_ipv4_cont(m, FALSE)
tail_handle_ipv6_cont_from_host(m) == host_tail_handle_ipv6_cont(m, TRUE)
tail_handle_ipv6_cont_from_netdev(m) == host_tail_handle_ipv6_cont(m, FALSE)

host_continue4(m, label, from_host) ==
  LET s == [m EXCEPT !.cb.src_label = label]
      fw == On(m, "ENABLE_HOST_FIREWALL")
  IN  IF ~Running(m) THEN m
      ELSE IF fw THEN ep_tail_call(s, IF from_host THEN "tail_handle_ipv4_cont_from_host"
                                      ELSE "tail_handle_ipv4_cont_from_netdev")
      ELSE host_tail_handle_ipv4_cont(s, from_host)
host_tail_handle_ipv4(m, ipcache_srcid, from_host) ==
  host_continue4(host_handle_ipv4([m EXCEPT !.cb.src_label = "UNKNOWN", !.src_id = m.cb.src_label],
                                  ipcache_srcid, from_host), m.cb.src_label, from_host)
host_continue6(m, label, from_host) ==
  LET s == [m EXCEPT !.cb.src_label = label]
      fw == On(m, "ENABLE_HOST_FIREWALL")
  IN  IF ~Running(m) THEN m
      ELSE IF fw THEN ep_tail_call(s, IF from_host THEN "tail_handle_ipv6_cont_from_host"
                                      ELSE "tail_handle_ipv6_cont_from_netdev")
      ELSE host_tail_handle_ipv6_cont(s, from_host)
host_tail_handle_ipv6(m, ipcache_srcid, from_host) ==
  host_continue6(host_handle_ipv6([m EXCEPT !.cb.src_label = "UNKNOWN", !.src_id = m.cb.src_label],
                                  ipcache_srcid, from_host), m.cb.src_label, from_host)
KeepsIpcacheSrc(m, masquerade) == On(m, "ENABLE_HOST_FIREWALL") /\ ~On(m, masquerade)
tail_handle_ipv4_from_host(m) ==
  IF KeepsIpcacheSrc(m, "ENABLE_MASQUERADE_IPV4")
  THEN host_tail_handle_ipv4([m EXCEPT !.cb.ipcache = "UNKNOWN"], m.cb.ipcache, TRUE)
  ELSE host_tail_handle_ipv4(m, "UNKNOWN", TRUE)
tail_handle_ipv6_from_host(m) ==
  IF KeepsIpcacheSrc(m, "ENABLE_MASQUERADE_IPV6")
  THEN host_tail_handle_ipv6([m EXCEPT !.cb.ipcache = "UNKNOWN"], m.cb.ipcache, TRUE)
  ELSE host_tail_handle_ipv6(m, "UNKNOWN", TRUE)
tail_handle_ipv4_from_netdev(m) == host_tail_handle_ipv4(m, "UNKNOWN", FALSE)
tail_handle_ipv6_from_netdev(m) == host_tail_handle_ipv6(m, "UNKNOWN", FALSE)

\* An encrypted packet of the stack goes back to the tunnel.
do_netdev_encrypt_encap(m, src_id) ==
  LET info == IF Handles(m, m.pkt.fam) THEN lookup_ip4_remote_endpoint(m, m.pkt.daddr) ELSE None
      c == bpf_clear_meta([m EXCEPT !.mark = NoMark])
      endpoint == IF info = None THEN None ELSE info.tunnel_endpoint
  IN  IF endpoint = None THEN Drop(m, "DROP_NO_TUNNEL_ENDPOINT")
      ELSE encap_and_redirect_with_nodeid(c, endpoint, 0, src_id)

\* The node answers for a service address while the agent is alive.
handle_l2_announcement(m) ==
  IF m.alive = None THEN CTX_ACT_OK(m)
  ELSE IF \/ m.now - m.alive > L2_ANNOUNCEMENTS_MAX_LIVENESS
          \/ ~arp_validate(m.pkt, NODE_MAC)
          \/ <<m.pkt.daddr, m.ifindex>> \notin m.l2resp
  THEN CTX_ACT_OK(m)
  ELSE arp_respond(m, NODE_MAC)

\* A packet the proxy sends for a pod is that pod's.
L7Egress(m) == On(m, "ENABLE_L7_LB") /\ m.mark.magic = "PROXY_EGRESS_EPID"
ToEgressPolicy(m) ==
  ep_tail_call([m EXCEPT !.mark = NoMark, !.to = get_epid(m)], "handle_policy_egress")
ArpAllowed(m) == On(m, "ENABLE_ARP_PASSTHROUGH") \/ On(m, "ENABLE_ARP_RESPONDER")
do_netdev(m, from_host) ==
  LET fam == m.pkt.fam
      d == do_decrypt(m)
      \* the redirection of a decrypted packet is not acted on here
      plain == IF On(m, "ENABLE_IPSEC") /\ ~from_host THEN [d EXCEPT !.verdict = "", !.to = m.to] ELSE m
      h == IF from_host THEN inherit_identity_from_host(plain) ELSE [plain EXCEPT !.src_id = "UNKNOWN"]
      c == bpf_clear_meta(h)
      id == resolve_srcid(c, h.src_id, lookup_ip4_remote_endpoint(c, c.pkt.saddr), from_host)
      keep == from_host /\ KeepsIpcacheSrc(m, IF fam = 4 THEN "ENABLE_MASQUERADE_IPV4" ELSE "ENABLE_MASQUERADE_IPV6")
      s == [c EXCEPT !.cb.src_label = id, !.cb.ipcache = IF keep THEN IpcacheSrc(c, h.src_id) ELSE @]
  IN  IF from_host /\ L7Egress(m) THEN ToEgressPolicy(m)
      ELSE IF On(m, "ENABLE_IPSEC") /\ ~from_host /\ d.verdict = "STACK" THEN d
      ELSE IF On(m, "ENABLE_IPSEC") /\ from_host /\ h.magic = "ENCRYPT"
      THEN IF On(m, "TUNNEL_MODE") THEN do_netdev_encrypt_encap(h, h.src_id) ELSE CTX_ACT_OK(h)
      ELSE IF fam = ETH_P_ARP /\ On(m, "ENABLE_L2_ANNOUNCEMENTS") THEN handle_l2_announcement(c)
      ELSE IF fam = ETH_P_ARP /\ ArpAllowed(m) THEN CTX_ACT_OK(c)
      ELSE IF Handles(m, fam)
      THEN ep_tail_call(s, IF from_host THEN IF fam = 4 THEN "IPV4_FROM_HOST" ELSE "IPV6_FROM_HOST"
                           ELSE IF fam = 4 THEN "IPV4_FROM_NETDEV" ELSE "IPV6_FROM_NETDEV")
      ELSE IF On(m, "ENABLE_HOST_FIREWALL") THEN Drop(c, "DROP_UNKNOWN_L3") ELSE CTX_ACT_OK(c)
\* A frame that is not Ethernet II (pkt.fam 0).
handle_netdev(m, from_host) ==
  IF m.pkt.fam = 0
  THEN IF On(m, "ENABLE_HOST_FIREWALL") THEN Drop(m, "DROP_UNSUPPORTED_L2") ELSE CTX_ACT_OK(m)
  ELSE do_netdev(m, from_host)

allow_vlan(m) == <<m.ifindex, m.pkt.vlan>> \in m.vlans
cil_from_netdev(m) ==
  LET c == ctx_skip_nodeport_clear(m)
      x == IF On(m, "ENABLE_NODEPORT_ACCELERATION") /\ ctx_get_xfer(m, "NO_SVC")
           THEN ctx_skip_nodeport_set(c) ELSE c
      s == IF /\ On(m, "ENABLE_NODEPORT_ACCELERATION") /\ On(m, "HAVE_ENCAP")
              /\ ctx_get_xfer(m, "SNAT_DONE") THEN ctx_snat_done_set(x) ELSE x
      d == decapsulate_overlay(s)
  IN  IF m.pkt.vlan # 0
      THEN IF allow_vlan(m) THEN CTX_ACT_OK(m) ELSE Drop(m, "DROP_VLAN_FILTERED")
      ELSE IF On(m, "ENABLE_HIGH_SCALE_IPCACHE") /\ d.verdict = "REDIRECT" THEN d
      ELSE handle_netdev(s, FALSE)
cil_from_host(m) == handle_netdev(edt_set_aggregate(m, 0), TRUE)

-----------------------------------------------------------------------------
(* Packets that go out.                                                    *)

HostMark(m) == IF m.mark.magic = "HOST" THEN "HOST" ELSE "UNKNOWN"
handle_to_netdev_ipv4(m) ==
  ipv4_host_policy_egress(m, resolve_srcid_ipv4(m, HostMark(m), TRUE), IpcacheSrc(m, HostMark(m)))
handle_to_netdev_ipv6(m) ==
  LET h == ipv6_hdrlen([m EXCEPT !.tuple = PktTuple(m.pkt)])
      icmp == IF h.tuple.nexthdr = "ICMP" THEN icmp6_host_handle(m.pkt) ELSE "OK"
  IN  IF h.err # "" THEN h
      ELSE IF icmp = "SKIP_HOST_FIREWALL" THEN m
      ELSE IF icmp # "OK" THEN Drop(m, icmp)
      ELSE ipv6_host_policy_egress(m, resolve_srcid_ipv6(m, HostMark(m), TRUE), IpcacheSrc(m, HostMark(m)))
ByFamily(m, Ipv4(_), Ipv6(_)) ==
  IF m.pkt.fam = 0 THEN Drop(m, "DROP_UNSUPPORTED_L2")
  ELSE IF m.pkt.fam = ETH_P_ARP /\ ArpAllowed(m) THEN m
  ELSE IF ~Handles(m, m.pkt.fam) THEN Drop(m, "DROP_UNKNOWN_L3")
  ELSE IF m.pkt.fam = 4 THEN Ipv4(m) ELSE Ipv6(m)

cil_to_netdev(m) ==
  LET fw == IF On(m, "ENABLE_HOST_FIREWALL") /\ ~ctx_snat_done(m)
            THEN ByFamily(policy_clear_mark(m), handle_to_netdev_ipv4, handle_to_netdev_ipv6) ELSE m
      Edt(n) == IF On(n, "ENABLE_BANDWIDTH_MANAGER") THEN edt_sched_departure(n) ELSE n
      Encrypt(n) == LET w == wg_maybe_redirect_to_encrypt(n) IN
                    IF ~On(n, "ENABLE_WIREGUARD") THEN n
                    ELSE IF w.verdict = "REDIRECT" THEN w
                    ELSE IF On(n, "ENCRYPTION_STRICT_MODE") /\ ~strict_allow(n)
                    THEN Drop(n, "DROP_UNENCRYPTED_TRAFFIC") ELSE n
      Health(n) == IF On(n, "ENABLE_HEALTH_CHECK") THEN lb_handle_health(n) ELSE n
      NatFwd(n) == IF On(n, "ENABLE_NODEPORT") /\ ~ctx_snat_done(n) /\ Handles(n, n.pkt.fam)
                   THEN handle_nat_fwd(n) ELSE n
  IN  IF m.pkt.vlan # 0
      THEN IF allow_vlan(m) THEN CTX_ACT_OK(m) ELSE Drop(m, "DROP_VLAN_FILTERED")
      ELSE IF L7Egress(m) THEN ToEgressPolicy(m)
      ELSE EndOk(Continue(Continue(Continue(Continue(fw, Edt), Encrypt), Health), NatFwd))

cil_to_host(m) ==
  LET p == ctx_redirect_to_proxy_first([m EXCEPT !.cb.proxy_magic = None], m.cb.proxy_magic)
      \* the proxy's verdict is dropped: the packet is checked all the same
      s == IF m.cb.encrypt # None
           THEN [m EXCEPT !.mark = [magic |-> "ENCRYPT", id |-> m.cb.encrypt], !.src_id = m.cb.encrypt_id]
           ELSE IF m.cb.proxy_magic # None
           THEN [p EXCEPT !.verdict = "", !.src_id = "UNKNOWN"]
           ELSE [m EXCEPT !.src_id = "UNKNOWN"]
      Fw(n) == IF On(n, "ENABLE_HOST_FIREWALL")
               THEN ByFamily(policy_clear_mark(n), ipv4_host_policy_ingress, ipv6_host_policy_ingress)
               ELSE n
  IN  EndOk(Continue(s, Fw))

\* Between the host and a pod whose packets the stack routes.
tail_ipv4_host_policy_ingress(m) == EndOk(ipv4_host_policy_ingress([m EXCEPT !.src_id = "UNKNOWN"]))
tail_ipv6_host_policy_ingress(m) == EndOk(ipv6_host_policy_ingress([m EXCEPT !.src_id = "UNKNOWN"]))
to_host_from_lxc(m) ==
  LET Ipv4(n) == InvokeIf(n, DualStack(n), "tail_ipv4_host_policy_ingress", tail_ipv4_host_policy_ingress)
      Ipv6(n) == InvokeIf(n, DualStack(n), "tail_ipv6_host_policy_ingress", tail_ipv6_host_policy_ingress)
  IN  EndOk(ByFamily(m, Ipv4, Ipv6))
from_host_to_lxc(m) ==
  LET Ipv4(n) == ipv4_host_policy_egress(n, "HOST", "UNKNOWN")
      Ipv6(n) == ipv6_host_policy_egress(n, "HOST", "UNKNOWN")
  IN  ByFamily(m, Ipv4, Ipv6)
handle_lxc_traffic(m) ==
  LET To(n) == ep_tail_call([n EXCEPT !.cb.src_label = "HOST", !.to = n.cb.dst_id], "handle_policy")
  IN  IF m.cb.from_host # {} THEN Then(from_host_to_lxc(m), To) ELSE to_host_from_lxc(m)
================================================================================
