-------------------------------- MODULE Forward --------------------------------
(***************************************************************************)
(* How a packet leaves a program of the Cilium datapath: routing, tunnels, *)
(* encryption, egress gateways and segment routing, and the ICMPv6, ARP    *)
(* and NAT46/64 helpers (examples/cilium-lxc/bpf/lib/fib.h, neigh.h,       *)
(* encap.h, encrypt.h, wireguard.h, egress_gateway.h, srv6.h, ipv6.h,      *)
(* icmp6.h, arp.h, nat_46x64.h, edt.h, proxy_hairpin.h,                    *)
(* high_scale_ipcache.h).  Fields of m used here:                          *)
(*   routes   the kernel's table: address -> [ret, oif]                    *)
(*   neigh    NODEPORT_NEIGH4 and 6: address -> MAC                        *)
(*   fibret, oif   fib_ret and the output interface                        *)
(*   tun      the tunnel metadata the packet leaves with, None without     *)
(*   tunnels, encrypt, egressgw, vrfs, srpolicies, sids, srstate, worldcidrs*)
(*            TUNNEL_MAP, ENCRYPT_MAP and the maps of the other features   *)
(*   ifindex  the interface the program is attached to                     *)
(* Interfaces in L3Devs have no link layer header.                         *)
(***************************************************************************)
EXTENDS Policy, Sequences

CONSTANTS ROUTER_IP, NODE_MAC, MAX_KEY_INDEX, L3Devs, HOST_IFINDEX, ENCAP_IFINDEX,
          WG_IFINDEX, CILIUM_IFINDEX, DIRECT_ROUTING_DEV_IFINDEX,
          IPV4_GATEWAY, IPV4_ENCRYPT_IFACE, STRICT_IPV4_NET,
          Nat46(_),    \* the IPv6 address that embeds an IPv4 address
          Nat46Rfc(_), \* the same under the NAT46x64 gateway's own prefix
          Low32(_)     \* the last four bytes of an IPv6 address

CTX_ACT_OK(m) == [m EXCEPT !.verdict = "STACK"]
ctx_redirect(m, ifindex) == [m EXCEPT !.verdict = "REDIRECT", !.to = ifindex]
ep_tail_call(m, program) == [m EXCEPT !.next = program]

-----------------------------------------------------------------------------
(* IPv6 extension headers and ICMPv6.                                      *)

\* At most four headers are skipped; a fragment header is not supported.
ipv6_hdrlen(m) ==
  LET seen == SubSeq(m.pkt.ext, 1, IF Len(m.pkt.ext) < 4 THEN Len(m.pkt.ext) ELSE 4)
      stop == {i \in DOMAIN seen : seen[i] \in {"FRAGMENT", "NONE"}}
      first == CHOOSE i \in stop : \A j \in stop : i <= j
  IN  IF stop # {} THEN Drop(m, IF seen[first] = "FRAGMENT" THEN "DROP_FRAG_NOSUPPORT"
                                ELSE "DROP_INVALID_EXTHDR")
      ELSE IF Len(m.pkt.ext) >= 4 THEN Drop(m, "DROP_INVALID_EXTHDR")
      ELSE m

icmp6_send_reply(m) ==
  [m EXCEPT !.pkt.saddr = ROUTER_IP, !.pkt.daddr = m.pkt.saddr, !.verdict = "TX"]
send_icmp6_ndisc_adv(m, to_router) ==
  icmp6_send_reply([m EXCEPT !.pkt.icmp = "na", !.pkt.mac = NODE_MAC, !.pkt.router = to_router])

tail_icmp6_send_time_exceeded(m) ==
  IF ~On(m, "HAVE_CHANGE_TAIL") THEN CTX_ACT_OK(m)
  ELSE IF m.pkt.proto \notin L4Protos(m) \cup {"ICMP"} THEN Drop(m, "DROP_UNKNOWN_L4")
  ELSE icmp6_send_reply([m EXCEPT !.pkt = [IcmpUnreach(@) EXCEPT !.saddr = m.pkt.saddr]])

\* Neighbours are asked for by pods: the router answers for itself and for
\* every endpoint of the node.
tail_icmp6_handle_ns(m) ==
  IF m.pkt.short THEN Drop(m, "DROP_INVALID")
  ELSE IF m.pkt.target = ROUTER_IP THEN send_icmp6_ndisc_adv(m, TRUE)
  ELSE IF lookup_ip6_endpoint(m, m.pkt.target) # None THEN send_icmp6_ndisc_adv(m, FALSE)
  ELSE Drop(m, "DROP_UNKNOWN_TARGET")

is_icmp6_ndp(m) == m.pkt.proto = "ICMP" /\ ~m.pkt.short /\ m.pkt.icmp \in {"ns", "na"}
icmp6_ndp_handle(m) ==
  IF m.pkt.icmp = "ns" THEN ep_tail_call(m, "tail_icmp6_handle_ns") ELSE CTX_ACT_OK(m)

\* What the host firewall does with an ICMPv6 message.
icmp6_host_handle(p) ==
  CASE p.icmp \in {"ns", "echo", "echoreply"} -> "OK"
    [] p.icmp \in {"na", "error", "fragneeded", "mld"} -> "SKIP_HOST_FIREWALL"
    [] OTHER -> "DROP_FORBIDDEN_ICMP6"

-----------------------------------------------------------------------------
(* Translation between the families.  The checksum helper returns the      *)
(* error of an ICMP type it cannot translate as if it were a sum, so such a*)
(* packet goes on with its old header and a wrong checksum.                *)

icmp_translates(p) == p.icmp \in {"echo", "echoreply", "error", "fragneeded"}
icmp4_to_icmp6(m) == IF icmp_translates(m.pkt) THEN m ELSE [m EXCEPT !.pkt.csum = "wrong"]
icmp6_to_icmp4(m) == IF icmp_translates(m.pkt) THEN m ELSE [m EXCEPT !.pkt.csum = "wrong"]

get_csum_offset_ok(m) == m.pkt.proto \in L4Protos(m) \cup {"ICMP"}

ipv4_to_ipv6(m, src6, dst6) ==
  LET m1 == [m EXCEPT !.pkt = [@ EXCEPT !.fam = 6, !.saddr = src6, !.daddr = dst6]]
      m2 == IF m.pkt.proto = "ICMP" THEN icmp4_to_icmp6(m1) ELSE m1
  IN  IF m.pkt.ipopts THEN Drop(m, "DROP_INVALID_EXTHDR")
      ELSE IF get_csum_offset_ok(m) THEN m2 ELSE Drop(m2, "DROP_UNKNOWN_L4")
ipv6_to_ipv4(m, src4, dst4) ==
  LET m1 == [m EXCEPT !.pkt = [@ EXCEPT !.fam = 4, !.saddr = src4, !.daddr = dst4]]
      m2 == IF m.pkt.proto = "ICMP" THEN icmp6_to_icmp4(m1) ELSE m1
  IN  IF m.pkt.ext # <<>> THEN Drop(m, "DROP_INVALID_EXTHDR")
      ELSE IF get_csum_offset_ok(m) THEN m2 ELSE Drop(m2, "DROP_UNKNOWN_L4")

is_v4_in_v6(v6) == v6 = Nat46(Low32(v6))
is_v4_in_v6_rfc8215(v6) == v6 = Nat46Rfc(Low32(v6))
build_v4_from_v6(v6) == Low32(v6)
nat46_rfc8215(m) == ipv4_to_ipv6(m, Nat46Rfc(m.pkt.saddr), Nat46Rfc(m.pkt.daddr))
nat64_rfc8215(m) ==
  ipv6_to_ipv4(m, build_v4_from_v6(m.pkt.saddr), build_v4_from_v6(m.pkt.daddr))
nat46x64_cb_route(m) == m.cb.nat46 = "ROUTE"
nat46x64_cb_xlate(m) == m.cb.nat46 = "XLATE"
lb4_to_lb6(m) ==
  IF On(m, "ENABLE_NAT_46X64") THEN ipv4_to_ipv6(m, Nat46(m.pkt.saddr), Nat46(m.pkt.daddr))
  ELSE Drop(m, "DROP_NAT_46X64_DISABLED")
lb6_to_lb4(m) ==
  IF On(m, "ENABLE_NAT_46X64") THEN nat64_rfc8215(m) ELSE Drop(m, "DROP_NAT_46X64_DISABLED")

-----------------------------------------------------------------------------
(* Routing.                                                                *)

neigh_record_ip4(m) ==
  IF Has(m.neigh, m.pkt.saddr) /\ m.neigh[m.pkt.saddr] = m.pkt.smac THEN m
  ELSE IF m.full THEN Drop(m, "DROP_INVALID")
  ELSE [m EXCEPT !.neigh = MapUpdate(@, m.pkt.saddr, m.pkt.smac)]
neigh_record_ip6(m) == neigh_record_ip4(m)

\* The kernel's route to an address.
fib_lookup(m, daddr) ==
  IF Has(m.routes, daddr) THEN m.routes[daddr] ELSE [ret |-> "NOT_FWDED", oif |-> 0]

\* XDP cannot ask the kernel to find a neighbour.
neigh_resolver_available(m) == On(m, "HAVE_FIB_NEIGH") /\ ~On(m, "IS_BPF_XDP")
fib_ok(m) == m.verdict \in {"TX", "REDIRECT"}

\* A device without a link layer needs no neighbour.  Without a resolver the
\* neighbour must have been recorded from its own packets.
fib_do_redirect(m, needs_l2_check, params, dst, allow_neigh_map) ==
  LET keep == \/ params = None
              \/ m.fibret = "NO_NEIGH" /\ ~On(m, "HAVE_FIB_IFINDEX") /\ m.oif # 0
      m1 == IF keep THEN m ELSE [m EXCEPT !.oif = params.oif]
      send == ctx_redirect(m1, m1.oif)
  IN  IF m.fibret \notin {"SUCCESS", "NO_NEIGH"} THEN Drop(m, "DROP_NO_FIB")
      ELSE IF \/ needs_l2_check /\ m1.oif \in L3Devs
              \/ m.fibret = "SUCCESS"
              \/ neigh_resolver_available(m)
              \/ allow_neigh_map /\ Has(m.neigh, dst)
      THEN send
      ELSE Drop([m1 EXCEPT !.fibret = "MAP_NO_NEIGH"], "DROP_NO_FIB")

SkipFib(m) == On(m, "ENABLE_SKIP_FIB") /\ neigh_resolver_available(m)
fib_redirect(m, dst, needs_l2_check, use_neigh_map) ==
  LET m0 == IF On(m, "ENABLE_SKIP_FIB") THEN [m EXCEPT !.oif = DIRECT_ROUTING_DEV_IFINDEX] ELSE m
      route == fib_lookup(m, dst)
  IN  IF SkipFib(m)
      THEN fib_do_redirect([m0 EXCEPT !.fibret = "NO_NEIGH"], needs_l2_check, None, dst, use_neigh_map)
      ELSE fib_do_redirect([m0 EXCEPT !.fibret = route.ret], needs_l2_check, route, dst, use_neigh_map)
\* The packet is routed as it is looked up, before its hop limit goes down.
fib_redirect_v4(m, needs_l2_check, allow_neigh_map) ==
  LET dst == m.pkt.daddr
      Redirect(n) == fib_redirect(n, dst, needs_l2_check, allow_neigh_map)
  IN  Then(ipv4_l3(m), Redirect)
fib_redirect_v6(m, needs_l2_check, allow_neigh_map) ==
  LET m1 == ipv6_l3(m) IN
  IF m1.next # "" THEN m1 ELSE fib_redirect(m1, m.pkt.daddr, needs_l2_check, allow_neigh_map)

-----------------------------------------------------------------------------
(* Encryption.                                                             *)

\* Key indices rotate: index 1 follows MAX_KEY_INDEX.
get_min_encrypt_key(m, peer_key) ==
  LET local == m.encrypt IN
  IF ~On(m, "ENABLE_IPSEC") THEN 0
  ELSE IF peer_key = MAX_KEY_INDEX THEN IF local = 1 THEN peer_key ELSE local
  ELSE IF local = MAX_KEY_INDEX THEN IF peer_key = 1 THEN local ELSE peer_key
  ELSE IF local < peer_key THEN local ELSE peer_key

set_ipsec_encrypt(m, key, tunnel_endpoint, seclabel, use_meta) ==
  IF ~Has(m.nodes, tunnel_endpoint) THEN Drop(m, "DROP_NO_NODE_ID")
  ELSE LET i == set_identity_meta(m, seclabel)
           node_id == m.nodes[tunnel_endpoint]
       IN  CTX_ACT_OK(IF use_meta THEN set_encrypt_key_meta(i, key, node_id)
                      ELSE set_encrypt_key_mark(i, key, node_id))

do_decrypt(m) ==
  IF ~On(m, "ENABLE_IPSEC") THEN CTX_ACT_OK(m)
  ELSE IF m.mark.magic # "DECRYPT"
  THEN CTX_ACT_OK(IF m.pkt.proto = "ESP" THEN [m EXCEPT !.mark = [NoMark EXCEPT !.magic = "DECRYPT"]] ELSE m)
  ELSE LET m1 == [m EXCEPT !.mark = NoMark] IN
       IF On(m, "ENABLE_ENDPOINT_ROUTES") THEN CTX_ACT_OK(m1) ELSE ctx_redirect(m1, CILIUM_IFINDEX)

\* Traffic of the cluster that leaves in the clear goes to the WireGuard
\* device, once.  A neighbour advertisement must not.
wg_maybe_redirect_to_encrypt(m) ==
  LET nodes == On(m, "ENABLE_NODE_ENCRYPTION")
      from_tunnel == /\ m.pkt.fam = 4 /\ On(m, "TUNNEL_MODE")
                     /\ m.pkt.proto = "UDP" /\ m.pkt.dport = TUNNEL_PORT /\ ~m.pkt.short
      unread == m.pkt.fam = 4 /\ On(m, "TUNNEL_MODE") /\ m.pkt.proto = "UDP" /\ m.pkt.short
      src == lookup_ip4_remote_endpoint(m, m.pkt.saddr)
      dst == lookup_ip4_remote_endpoint(m, m.pkt.daddr)
  IN  IF \/ nodes /\ m.pkt.fam = 6 /\ m.pkt.proto = "ICMP" /\ m.pkt.icmp = "na"
         \/ m.mark.magic = "WG_ENCRYPTED"
      THEN CTX_ACT_OK(m)
      ELSE IF \/ from_tunnel
              \/ /\ ~unread /\ src # None /\ (nodes \/ src.sec_identity # "HOST")
                 /\ identity_is_cluster(m, src.sec_identity)
                 /\ dst # None /\ dst.key # 0
      THEN ctx_redirect(m, WG_IFINDEX)
      ELSE CTX_ACT_OK(m)

strict_allow(m) ==
  LET p == m.pkt
      dst == lookup_ip4_remote_endpoint(m, p.daddr)
      node == /\ On(m, "TUNNEL_MODE") \/ On(m, "STRICT_IPV4_OVERLAPPING_CIDR")
              /\ dst # None /\ dst.sec_identity # "UNKNOWN" /\ identity_is_node(dst.sec_identity)
  IN  \/ p.fam # 4 \/ p.saddr \in {IPV4_GATEWAY, IPV4_ENCRYPT_IFACE}
      \/ node \/ ~({p.saddr, p.daddr} \subseteq STRICT_IPV4_NET)

-----------------------------------------------------------------------------
(* Tunnels.                                                                *)

get_tunnel_id(m, id) == IF DualStack(m) /\ id \in {"WORLD_IPV4", "WORLD_IPV6"} THEN "WORLD" ELSE id
ctx_set_encap_info(m, node, seclabel, opt) ==
  [m EXCEPT !.tun = [endpoint |-> node, local |-> None, opt |-> opt, id |-> get_tunnel_id(m, seclabel)]]
\* The host's own label is replaced: it means another host elsewhere.
EncapLabel(seclabel) == IF seclabel = "HOST" THEN "LOCAL_NODE" ELSE seclabel
encap_with_nodeid(m, tunnel_endpoint, seclabel, opt) ==
  ctx_set_encap_info(m, tunnel_endpoint, EncapLabel(seclabel), opt)
encap_with_nodeid_opt(m, tunnel_endpoint, seclabel, opt) ==
  encap_with_nodeid(m, tunnel_endpoint, seclabel, opt)
set_geneve_dsr_opt4(port, addr) == [addr |-> addr, port |-> port]
set_geneve_dsr_opt6(port, addr) == [addr |-> addr, port |-> port]

encap_and_redirect(m, tunnel_endpoint, seclabel) ==
  ctx_redirect(encap_with_nodeid(m, tunnel_endpoint, seclabel, None), ENCAP_IFINDEX)
encap_and_redirect_with_nodeid(m, tunnel_endpoint, key, seclabel) ==
  IF On(m, "ENABLE_IPSEC") /\ key # 0
  THEN set_ipsec_encrypt(m, key, tunnel_endpoint, seclabel, TRUE)
  ELSE encap_and_redirect(m, tunnel_endpoint, seclabel)

\* From a pod: with the host firewall and no NodePort the packet goes up
\* the stack, so that the firewall's program sees it.
encap_and_redirect_to(m, tunnel_endpoint, key, seclabel) ==
  IF On(m, "ENABLE_IPSEC") /\ key # 0
  THEN set_ipsec_encrypt(m, key, tunnel_endpoint, seclabel, FALSE)
  ELSE IF ~On(m, "ENABLE_NODEPORT") /\ On(m, "ENABLE_HOST_FIREWALL")
  THEN CTX_ACT_OK(encap_with_nodeid(m, tunnel_endpoint, seclabel, None))
  ELSE encap_and_redirect(m, tunnel_endpoint, seclabel)

needs_encapsulation(m, addr) ==
  /\ On(m, "ENABLE_ROUTING") \/ lookup_ip4_endpoint(m, addr) = None
  /\ addr \notin m.worldcidrs

encap_and_redirect_lxc(m, tunnel_endpoint, dst_ip, key, tunnel_key, seclabel) ==
  IF On(m, "ENABLE_HIGH_SCALE_IPCACHE")
  THEN IF needs_encapsulation(m, dst_ip) THEN encap_and_redirect(m, dst_ip, seclabel)
       ELSE Drop(m, "DROP_NO_TUNNEL_ENDPOINT")
  ELSE IF tunnel_endpoint # None THEN encap_and_redirect_to(m, tunnel_endpoint, key, seclabel)
  ELSE IF ~Has(m.tunnels, tunnel_key) THEN Drop(m, "DROP_NO_TUNNEL_ENDPOINT")
  ELSE LET t == m.tunnels[tunnel_key] IN
       IF On(m, "ENABLE_IPSEC") /\ t.key # 0
       THEN set_ipsec_encrypt(m, get_min_encrypt_key(m, t.key), t.ip4, seclabel, FALSE)
       ELSE encap_and_redirect_with_nodeid(m, t.ip4, 0, seclabel)
encap_and_redirect_netdev(m, tunnel_key, key, seclabel) ==
  IF ~Has(m.tunnels, tunnel_key) THEN Drop(m, "DROP_NO_TUNNEL_ENDPOINT")
  ELSE encap_and_redirect_with_nodeid(m, m.tunnels[tunnel_key].ip4, key, seclabel)

\* A tunnelled packet of the high-scale mode is unwrapped in the host.
decapsulate_overlay(m) ==
  LET o == m.pkt.outer
      geneve == On(m, "DSR_GENEVE") /\ On(m, "ENABLE_DSR")
      m1 == [m EXCEPT !.src_id = o.id, !.cb.src_label = o.id, !.pkt.outer = None,
                      !.cb.hsipc = IF geneve THEN o.opt ELSE @]
  IN  IF m.pkt.fam # 4 \/ o = None THEN CTX_ACT_OK(m)
      ELSE ctx_redirect(m1, ENCAP_IFINDEX)

-----------------------------------------------------------------------------
(* Egress gateways.                                                        *)

egress_gw_fib_lookup_and_redirect(m, daddr) ==
  LET route == fib_lookup(m, daddr)
      m1 == [m EXCEPT !.fibret = route.ret, !.oif = m.ifindex]
  IN  IF route.ret \notin {"SUCCESS", "NO_NEIGH"} THEN Drop(m1, "DROP_NO_FIB")
      ELSE IF \/ m.ifindex = route.oif
              \/ route.ret = "NO_NEIGH" /\ ~neigh_resolver_available(m)
      THEN CTX_ACT_OK(m1)
      ELSE fib_do_redirect(m1, TRUE, route, daddr, FALSE)

NoGateway == {"NO_GATEWAY", "EXCLUDED_CIDR"}
lookup_ip4_egress_gw_policy(m, saddr, daddr) ==
  IF On(m, "ENABLE_EGRESS_GATEWAY") /\ Has(m.egressgw, <<saddr, daddr>>)
  THEN m.egressgw[<<saddr, daddr>>] ELSE None

\* The gateway a request must go to: None if it needs none, "NO_GATEWAY" if
\* a policy selects it and no node can be its gateway.
egress_gw_request_needs_redirect(m, saddr, daddr, ct_status) ==
  LET p == lookup_ip4_egress_gw_policy(m, saddr, daddr)
      ep == lookup_ip4_endpoint(m, p.gateway_ip)
  IN  IF ct_status \in {"CT_REPLY", "CT_RELATED"} \/ p = None THEN None
      ELSE IF p.gateway_ip = "NO_GATEWAY" THEN "NO_GATEWAY"
      ELSE IF p.gateway_ip = "EXCLUDED_CIDR" \/ (ep # None /\ "HOST" \in ep.flags) THEN None
      ELSE p.gateway_ip

\* The address a packet is masqueraded with on its gateway, None without.
egress_gw_snat_needed(m, saddr, daddr) ==
  LET p == lookup_ip4_egress_gw_policy(m, saddr, daddr) IN
  IF p = None THEN None ELSE IF p.gateway_ip \in NoGateway THEN None ELSE p.egress_ip
egress_gw_snat_needed_hook(m, saddr, daddr) ==
  LET info == lookup_ip4_remote_endpoint(m, daddr) IN
  IF info # None /\ identity_is_cluster(m, info.sec_identity) THEN None
  ELSE egress_gw_snat_needed(m, saddr, daddr)
egress_gw_reply_needs_redirect(m) ==
  LET p == lookup_ip4_egress_gw_policy(m, m.pkt.daddr, m.pkt.saddr)
      info == lookup_ip4_remote_endpoint(m, m.pkt.daddr)
  IN  IF p = None \/ info = None THEN None
      ELSE IF p.gateway_ip \in NoGateway \/ info.tunnel_endpoint = None THEN None ELSE info

-----------------------------------------------------------------------------
(* Segment routing.                                                        *)

srv6_lookup_vrf4(m, sip, dip) == IF Has(m.vrfs, <<sip, dip>>) THEN m.vrfs[<<sip, dip>>] ELSE None
srv6_lookup_vrf6(m, sip, dip) == IF Has(m.vrfs, <<sip, dip>>) THEN m.vrfs[<<sip, dip>>] ELSE None
srv6_lookup_policy4(m, vrf, dip) ==
  IF Has(m.srpolicies, <<vrf, dip>>) THEN m.srpolicies[<<vrf, dip>>] ELSE None
srv6_lookup_policy6(m, vrf, dip) ==
  IF Has(m.srpolicies, <<vrf, dip>>) THEN m.srpolicies[<<vrf, dip>>] ELSE None
srv6_lookup_sid(m, sid) == sid \in m.sids

\* pkt.outer is the IPv6 header around the packet.
is_srv6_packet(m) ==
  m.pkt.outer # None /\ (m.pkt.outer.srh => On(m, "ENABLE_SRV6_SRH_ENCAP"))
srv6_encapsulation(m, saddr, sid) ==
  [m EXCEPT !.pkt.outer = [saddr |-> saddr, daddr |-> sid, id |-> "UNKNOWN", opt |-> None,
                           srh |-> On(m, "ENABLE_SRV6_SRH_ENCAP")]]
srv6_decapsulation(m) ==
  IF is_srv6_packet(m) THEN [m EXCEPT !.pkt.outer = None] ELSE Drop(m, "DROP_INVALID")

\* The outer addresses by the inner ones; nothing is kept for a packet with
\* a segment routing header.
srv6_create_state_entry(m) ==
  IF m.pkt.short THEN Drop(m, "DROP_INVALID")
  ELSE IF m.pkt.outer = None \/ m.pkt.outer.srh THEN m
  ELSE IF m.full THEN Drop(m, "DROP_INVALID")
  ELSE [m EXCEPT !.srstate = MapUpdate(@, <<m.pkt.saddr, m.pkt.daddr>>,
                                       <<m.pkt.outer.saddr, m.pkt.outer.daddr>>)]
srv6_store_meta_sid(m, sid) == [m EXCEPT !.cb.sid = sid]
srv6_handling4(m, src, dst) == srv6_encapsulation(m, src, dst)
srv6_handling6(m, src, dst) == srv6_encapsulation(m, src, dst)
srv6_handling(m, dst) ==
  IF m.pkt.fam = 4 THEN srv6_handling4(m, ROUTER_IP, dst) ELSE srv6_handling6(m, ROUTER_IP, dst)
tail_srv6_encap(m) == Then(srv6_handling(m, m.cb.sid), CTX_ACT_OK)
tail_srv6_decap(m) == Then(Then(srv6_create_state_entry(m), srv6_decapsulation), CTX_ACT_OK)

-----------------------------------------------------------------------------
(* Bandwidth, ARP and the proxy behind the host's device.                  *)

edt_set_aggregate(m, id) == IF On(m, "ENABLE_BANDWIDTH_MANAGER") THEN [m EXCEPT !.agg = id] ELSE m
edt_get_aggregate(m) == [m EXCEPT !.agg = 0]

\* Earliest departure time: throttle maps an aggregate to its rate (the time
\* one packet takes), the departure of its last packet and its horizon.
edt_sched_departure(m) ==
  LET m1 == edt_get_aggregate(m)
      info == m.throttle[m.agg]
      t == IF m.pkt.tstamp < m.now THEN m.now ELSE m.pkt.tstamp
      t_next == info.t_last + info.delay
  IN  IF m.agg = 0 \/ ~Has(m.throttle, m.agg) THEN m1
      ELSE IF t_next <= t THEN [m1 EXCEPT !.throttle[m.agg].t_last = t]
      ELSE IF t_next - m.now >= info.t_horizon_drop THEN Drop(m1, "DROP_EDT_HORIZON")
      ELSE [m1 EXCEPT !.throttle[m.agg].t_last = t_next, !.pkt.tstamp = t_next]

arp_validate(p, mac) == p.arpop = "REQUEST" /\ p.dmac \in {"BROADCAST", mac} /\ ~p.short
arp_respond(m, mac) ==
  ctx_redirect([m EXCEPT !.pkt = [@ EXCEPT !.arpop = "REPLY", !.smac = mac, !.dmac = m.pkt.smac,
                                   !.saddr = m.pkt.daddr, !.daddr = m.pkt.saddr]], m.ifindex)

ctx_redirect_to_proxy_hairpin(m, proxy_port, L3(_)) ==
  LET m1 == L3([m EXCEPT !.cb.proxy_magic = proxy_port]) IN
  IF m1.err # "" \/ m1.next # "" THEN m1 ELSE ctx_redirect(m1, HOST_IFINDEX)
ctx_redirect_to_proxy_hairpin_ipv4(m, proxy_port) ==
  ctx_redirect_to_proxy_hairpin(m, proxy_port, ipv4_l3)
ctx_redirect_to_proxy_hairpin_ipv6(m, proxy_port) ==
  ctx_redirect_to_proxy_hairpin(m, proxy_port, ipv6_l3)
================================================================================
