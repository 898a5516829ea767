---------------------------------- MODULE Lxc ----------------------------------
(***************************************************************************)
(* The program of a pod's interface (examples/cilium-lxc/bpf/bpf_lxc.c):   *)
(* what the pod sends enters at cil_from_container, what it receives at    *)
(* cil_to_container or, tail-called by the sender's program, handle_policy.*)
(* Fields of m used here:                                                  *)
(*   buf    CT_TAIL_CALL_BUFFER4 and 6 of this CPU: the tuple, ct_state and*)
(*          result of the lookup the next program goes on with             *)
(*   vteps  VTEP_MAP: address -> tunnel endpoint                           *)
(* m.next names the tail call; a program that is called directly when its  *)
(* condition is off goes on in the same step.  pkt.fam is 4, 6 or ETH_P_ARP*)
(* and any other value is a protocol no program handles.  Drop and trace   *)
(* notifications and custom calls are left out.                            *)
(***************************************************************************)
EXTENDS NodePort

ETH_P_ARP == 806
PerPacketLb(m) ==
  \/ ~On(m, "ENABLE_SOCKET_LB_FULL") \/ On(m, "ENABLE_SOCKET_LB_HOST_ONLY")
  \/ On(m, "ENABLE_L7_LB") \/ On(m, "ENABLE_SCTP")

NoMeta ==
  [proxy |-> 0, ct_state |-> [rev_nat_index |-> 0, loopback |-> FALSE], policy |-> FALSE,
   src_label |-> "UNKNOWN", from_host |-> {}, from_tunnel |-> FALSE, ifindex |-> 0,
   encrypt |-> None, encrypt_id |-> "UNKNOWN", sid |-> None, hsipc |-> None, proxy_magic |-> None, ipcache |-> "UNKNOWN", addr |-> None,
   port |-> 0, nat46 |-> "", dsrlabel |-> "UNKNOWN", dst_id |-> 0]
bpf_clear_meta(m) == [m EXCEPT !.cb = NoMeta]

\* invoke_tailcall_if: a tail call, or a call when the condition is off.
InvokeIf(m, condition, program, Call(_)) ==
  IF m.err # "" THEN m ELSE IF condition THEN ep_tail_call(m, program) ELSE Call(m)

-----------------------------------------------------------------------------
(* The service of a request, and its connection.                           *)

lb4_to_ct(m, s, port) == ep_tail_call(lb4_ctx_store_state(m, s, port), "tail_ipv4_ct_egress")
lb4_balanced(m) ==
  IF m.err = "DROP_NO_SERVICE" /\ On(m, "SERVICE_NO_BACKEND_RESPONSE")
  THEN ep_tail_call(Ignore(m), "tail_no_service_ipv4")
  ELSE IF m.err # "" THEN m
  ELSE lb4_to_ct(m, m.state, 0)
lb4_for_service(m) ==
  LET key == lb4_fill_key(m.tuple)
      svc == lb4_lookup_service(m, key, On(m, "ENABLE_NODEPORT"), FALSE)
  IN  IF m.err # "" THEN IF NoService(m.err) THEN lb4_to_ct(Ignore(m), ct_state, 0) ELSE m
      ELSE IF svc = None THEN lb4_to_ct(m, ct_state, 0)
      ELSE IF svc_is_l7loadbalancer(m, svc) THEN lb4_to_ct(m, ct_state, svc.l7_lb_proxy_port)
      ELSE lb4_balanced(lb4_local(m, key, svc, FALSE))
__per_packet_lb_svc_xlate_4(m) ==
  lb4_for_service(lb4_extract_tuple([m EXCEPT !.hasl4 = ipv4_has_l4_header(m.pkt), !.state = ct_state]))
lb6_to_ct(m, s, port) == ep_tail_call(lb6_ctx_store_state(m, s, port), "tail_ipv6_ct_egress")
lb6_balanced(m) ==
  IF m.err = "DROP_NO_SERVICE" /\ On(m, "SERVICE_NO_BACKEND_RESPONSE")
  THEN ep_tail_call(Ignore(m), "tail_no_service_ipv6")
  ELSE IF m.err # "" THEN m
  ELSE lb6_to_ct(m, m.state, 0)
lb6_for_service(m) ==
  LET key == lb6_fill_key(m.tuple)
      svc == lb6_lookup_service(m, key, On(m, "ENABLE_NODEPORT"), FALSE)
  IN  IF m.err # "" THEN IF NoService(m.err) THEN lb6_to_ct(Ignore(m), ct_state, 0) ELSE m
      ELSE IF svc = None THEN lb6_to_ct(m, ct_state, 0)
      ELSE IF svc_is_l7loadbalancer(m, svc) THEN lb6_to_ct(m, ct_state, svc.l7_lb_proxy_port)
      ELSE lb6_balanced(lb6_local(m, key, svc, FALSE))
__per_packet_lb_svc_xlate_6(m) == lb6_for_service(lb6_extract_tuple([m EXCEPT !.state = ct_state]))

\* TAIL_CT_LOOKUP4 and 6: the lookup of every path, left in the buffer.
Buffer(m) == [tuple |-> m.tuple, state |-> m.state, ret |-> m.ret]
ToBuffer(m) == IF m.err # "" THEN m ELSE [m EXCEPT !.buf = Buffer(m)]
tail_ct_lookup4(m, dir) ==
  ToBuffer(ct_lookup4([m EXCEPT !.tuple = PktTuple(m.pkt), !.state = ct_state], dir))
tail_ct_lookup6(m, dir) ==
  LET Look(n) == ct_lookup6(n, dir)
  IN  ToBuffer(Then(ipv6_hdrlen([m EXCEPT !.tuple = PktTuple(m.pkt), !.state = ct_state]), Look))
\* The next program starts from the buffer.
FromBuffer(m) == [m EXCEPT !.tuple = m.buf.tuple, !.state = m.buf.state, !.ret = m.buf.ret]

-----------------------------------------------------------------------------
(* From the pod.                                                           *)

\* The destination's identity, and the way to its node.
Destination(m, info) ==
  IF info # None THEN
    IF info.sec_identity # "UNKNOWN"
    THEN [id |-> info.sec_identity, tunnel |-> info.tunnel_endpoint,
          key |-> get_min_encrypt_key(m, info.key)]
    ELSE [id |-> WorldId(m), tunnel |-> None, key |-> 0]
  ELSE [id |-> WorldId(m), tunnel |-> None, key |-> 0]

\* Mutant: the policy is not asked again for a known connection.
RepliesOrKnown == {"CT_REPLY", "CT_RELATED", "CT_ESTABLISHED"}
Replies == {"CT_REPLY", "CT_RELATED"}
FromL7Lb(m) == On(m, "ENABLE_L7_LB") /\ m.cb.from_host = {"L7_LB"}

\* Policy is enforced on requests only, and on every one of them: also on
\* those of a connection that is known already.
lxc_egress_policy(m, dst, hairpin, CanEgress(_, _, _), Proxy(_, _, _)) ==
  LET p == CanEgress(m, m.self.sec_id, dst.id)
      a == IF p.pol = "DROP_POLICY_AUTH_REQUIRED"
           THEN auth_lookup(p, m.self.sec_id, dst.id, dst.tunnel) ELSE p
  IN  IF On(m, "ENABLE_L7_LB") /\ m.proxy_port > 0 THEN m
      ELSE IF m.ret \in Replies
      THEN IF m.state.proxy_redirect THEN Proxy(m, 0, FALSE) ELSE m
      ELSE IF hairpin THEN m
      ELSE IF a.pol # "OK" THEN Drop(a, a.pol) ELSE a
lxc_egress_policy4(m, dst, hairpin) ==
  lxc_egress_policy(m, dst, hairpin, policy_can_egress4, ctx_redirect_to_proxy4)
lxc_egress_policy6(m, dst) ==
  lxc_egress_policy(m, dst, FALSE, policy_can_egress6, ctx_redirect_to_proxy6)

\* Mutant: an entry is made only for a connection without one.
EgressCreatesOnce(m, new) == m.ret = "CT_NEW"
\* A connection whose service has changed since gets a new entry too.
EgressCreates(m, new) ==
  \/ m.ret = "CT_NEW"
  \/ /\ m.ret \in {"CT_REOPENED", "CT_ESTABLISHED"}
     /\ m.state.rev_nat_index # new.rev_nat_index
\* A request gets an entry, a new one too when the entry it found belongs to
\* another service; a reply is translated back.
lxc_egress_ct(m, new, Create(_, _), XlateDsr(_), revnat, RevNat(_)) ==
  LET nodeport == On(m, "ENABLE_NODEPORT")
      dsr == nodeport /\ On(m, "ENABLE_DSR") /\ m.state.dsr
      r == IF dsr THEN XlateDsr(policy_mark_skip(m)) ELSE policy_mark_skip(m)
  IN  IF EgressCreates(m, new) THEN Create(m, [new EXCEPT !.src_sec_id = m.self.sec_id])
      ELSE IF m.ret \in {"CT_REOPENED", "CT_ESTABLISHED"} THEN m
      ELSE IF r.err # "" THEN r
      ELSE IF nodeport /\ ~dsr /\ m.state.node_port
      THEN ep_tail_call([r EXCEPT !.tcidx = @ \cup {"SKIP_RECIRCULATION"}], revnat)
      ELSE IF m.state.rev_nat_index # 0 THEN RevNat(r) ELSE r
lxc_egress_ct4(m, new) ==
  LET Create(n, s) == ct_create4(n, "CT_EGRESS", s, n.proxy_port > 0, FromL7Lb(n), TRUE)
      Xlate(n) == xlate_dsr_v4(n, n.tuple)
      RevNat(n) == lb4_rev_nat(n, n.state.rev_nat_index, n.state.loopback, FALSE, n.hasl4)
  IN  lxc_egress_ct(m, new, Create, Xlate, "tail_nodeport_rev_dnat_ingress_ipv4", RevNat)

\* IPv6: only NodePort's replies are translated back here.
lxc_egress_ct6(m, new) ==
  LET Create(x, s) == ct_create6(x, "CT_EGRESS", s, x.proxy_port > 0, FromL7Lb(x), TRUE)
      Xlate(x) == xlate_dsr_v6(x, x.tuple)
      Same(x) == x
  IN  lxc_egress_ct(m, new, Create, Xlate, "tail_nodeport_rev_dnat_ingress_ipv6", Same)

lxc_srv6(m, vrf, Policy(_)) ==
  LET sid == IF vrf = None THEN None ELSE Policy(vrf) IN
  IF On(m, "ENABLE_SRV6") /\ sid # None
  THEN ep_tail_call(srv6_store_meta_sid(m, sid), "tail_srv6_encap") ELSE m

lxc_pass_to_stack(m, dst, L3(_)) ==
  LET h == IF On(m, "ENABLE_ROUTING") THEN L3(m) ELSE m
      Mark(n) == IF On(n, "ENABLE_IDENTITY_MARK")
                 THEN set_identity_mark(n, n.self.sec_id, "IDENTITY") ELSE n
  IN  IF h.err # "" \/ h.next # "" THEN h
      ELSE IF ~On(m, "TUNNEL_MODE") /\ On(m, "ENABLE_IPSEC") /\ dst.key # 0 /\ dst.tunnel # None
      THEN set_ipsec_encrypt(h, dst.key, dst.tunnel, m.self.sec_id, FALSE)
      ELSE CTX_ACT_OK(Mark(h))
lxc_pass_to_stack4(m, dst) == lxc_pass_to_stack(m, dst, ipv4_l3)
lxc_pass_to_stack6(m, dst) == lxc_pass_to_stack(m, dst, ipv6_l3)
lxc_to_host(m, dst, L3(_)) ==
  IF On(m, "ENABLE_ROUTING") /\ On(m, "ENABLE_HOST_FIREWALL") /\ dst.id = "HOST"
  THEN ctx_redirect(m, HOST_IFINDEX) ELSE lxc_pass_to_stack(m, dst, L3)

\* To a pod of this node, or to the host; m itself if neither.
lxc_local(m, dst, ep, hairpin, L3(_), Deliver(_)) ==
  LET routing == On(m, "ENABLE_ROUTING") \/ On(m, "ENABLE_HOST_ROUTING") IN
  IF On(m, "ENABLE_HOST_FIREWALL") /\ ~On(m, "ENABLE_ROUTING") /\ dst.id = "HOST"
  THEN ep_tail_call([m EXCEPT !.cb.from_host = {}], "handle_lxc_traffic")
  ELSE IF ~(routing \/ hairpin) \/ ep = None THEN m
  ELSE IF routing /\ "HOST" \in ep.flags
  THEN IF On(m, "ENABLE_ROUTING") THEN lxc_to_host(m, dst, L3) ELSE lxc_pass_to_stack(m, dst, L3)
  ELSE Deliver(policy_clear_mark(m))
lxc_local4(m, dst, hairpin) ==
  LET ep == lookup_ip4_endpoint(m, m.pkt.daddr)
      Deliver(n) == ipv4_local_delivery(n, n.self.sec_id, "IDENTITY", ep, FromL7Lb(n),
                                        hairpin /\ n.ret = "CT_REPLY", FALSE)
  IN  lxc_local(m, dst, ep, hairpin, ipv4_l3, Deliver)

\* Out of the node.
lxc_egress_gateway(m, dst) ==
  LET t == ct_tuple_swap_addrs(m.tuple)
      gw == egress_gw_request_needs_redirect(m, t.saddr, t.daddr, m.ret)
  IN  IF ~On(m, "ENABLE_EGRESS_GATEWAY") \/ identity_is_cluster(m, dst.id) \/ gw = None THEN m
      ELSE IF gw = "NO_GATEWAY" THEN Drop(m, "DROP_NO_EGRESS_GATEWAY")
      ELSE encap_and_redirect_to(m, gw, 0, m.self.sec_id)
lxc_vtep(m) ==
  IF On(m, "ENABLE_VTEP") /\ Has(m.vteps, m.pkt.daddr)
  THEN encap_and_redirect(m, m.vteps[m.pkt.daddr], m.self.sec_id) ELSE m
lxc_tunnel4(m, dst) ==
  LET r == encap_and_redirect_lxc(m, dst.tunnel, m.pkt.daddr, dst.key, m.pkt.daddr, m.self.sec_id) IN
  IF ~(On(m, "TUNNEL_MODE") \/ On(m, "ENABLE_HIGH_SCALE_IPCACHE")) THEN m
  ELSE IF r.err = "DROP_NO_TUNNEL_ENDPOINT" THEN lxc_pass_to_stack4(m, dst) ELSE r
\* Without a tunnel the IPv6 packet is still routed.
lxc_tunnel6(m, dst) ==
  LET r == encap_and_redirect_lxc(m, dst.tunnel, None, dst.key, m.pkt.daddr, m.self.sec_id) IN
  IF ~On(m, "TUNNEL_MODE") \/ r.err = "DROP_NO_TUNNEL_ENDPOINT" THEN m ELSE r

lxc_forward4(m, dst, hairpin) ==
  LET Sid(vrf) == srv6_lookup_policy4(m, vrf, m.pkt.daddr)
      Srv6(n) == lxc_srv6(n, srv6_lookup_vrf4(n, n.pkt.saddr, n.pkt.daddr), Sid)
      Proxy(n) == IF ~FromL7Lb(n) /\ n.proxy_port > 0
                  THEN ctx_redirect_to_proxy4(n, n.proxy_port, FALSE) ELSE n
      Local(n) == lxc_local4(n, dst, hairpin)
      Gateway(n) == lxc_egress_gateway(n, dst)
      Tunnel(n) == lxc_tunnel4(n, dst)
      Route(n) == IF On(n, "ENABLE_HOST_ROUTING") THEN fib_redirect_v4(n, FALSE, FALSE)
                  ELSE lxc_pass_to_stack4(n, dst)
      out == Continue(Continue(Continue(Srv6(m), Proxy), Local), Gateway)
  IN  Continue(Continue(Continue(out, lxc_vtep), Tunnel), Route)
lxc_forward6(m, dst) ==
  LET Sid(vrf) == srv6_lookup_policy6(m, vrf, m.pkt.daddr)
      Srv6(n) == lxc_srv6(n, srv6_lookup_vrf6(n, n.pkt.saddr, n.pkt.daddr), Sid)
      Proxy(n) == IF ~FromL7Lb(n) /\ n.proxy_port > 0
                  THEN ctx_redirect_to_proxy6(n, n.proxy_port, FALSE) ELSE n
      ep == lookup_ip6_endpoint(m, m.pkt.daddr)
      Deliver(n) == ipv6_local_delivery(n, n.self.sec_id, "IDENTITY", ep, FromL7Lb(n), FALSE)
      Local(n) == lxc_local(n, dst, ep, FALSE, ipv6_l3, Deliver)
      Tunnel(n) == lxc_tunnel6(n, dst)
      Route(n) == IF On(n, "ENABLE_HOST_ROUTING") THEN fib_redirect_v6(n, FALSE, FALSE)
                  ELSE lxc_pass_to_stack6(n, dst)
  IN  Continue(Continue(Continue(Continue(Srv6(m), Proxy), Local), Tunnel), Route)

handle_ipv4_from_lxc(m) ==
  LET n == IF PerPacketLb(m) THEN lb4_ctx_restore_state([m EXCEPT !.state = ct_state])
           ELSE [m EXCEPT !.state = ct_state, !.proxy_port = 0]
      new == n.state
      b == [FromBuffer(n) EXCEPT !.hasl4 = ipv4_has_l4_header(m.pkt)]
      dst == Destination(m, lookup_ip4_remote_endpoint(m, m.pkt.daddr))
      Track(x) == lxc_egress_ct4(x, new)
      Forward4(x) == lxc_forward4(x, dst, new.loopback \/ b.state.loopback)
      p == lxc_egress_policy4(b, dst, new.loopback)
  IN  IF m.buf = None THEN Drop(n, "DROP_INVALID_TC_BUFFER")
      ELSE Continue(Continue(p, Track), Forward4)
handle_ipv6_from_lxc(m) ==
  LET n == IF PerPacketLb(m) THEN lb6_ctx_restore_state([m EXCEPT !.state = ct_state])
           ELSE [m EXCEPT !.state = ct_state, !.proxy_port = 0]
      new == n.state
      b == FromBuffer(n)
      dst == Destination(m, lookup_ip6_remote_endpoint(m, m.pkt.daddr))
      Track(x) == lxc_egress_ct6(x, new)
      Forward6(x) == lxc_forward6(x, dst)
      p == lxc_egress_policy6(b, dst)
  IN  IF m.buf = None THEN Drop(n, "DROP_INVALID_TC_BUFFER")
      ELSE Continue(Continue(p, Track), Forward6)

tail_handle_ipv4_cont(m) == handle_ipv4_from_lxc(m)
tail_handle_ipv6_cont(m) == handle_ipv6_from_lxc(m)
tail_ipv4_ct_egress(m) ==
  InvokeIf(tail_ct_lookup4(m, "CT_EGRESS"), PerPacketLb(m), "tail_handle_ipv4_cont", tail_handle_ipv4_cont)
tail_ipv6_ct_egress(m) ==
  InvokeIf(tail_ct_lookup6(m, "CT_EGRESS"), PerPacketLb(m), "tail_handle_ipv6_cont", tail_handle_ipv6_cont)

lxc_handle_ipv4(m) ==
  IF ~On(m, "ENABLE_IPV4_FRAGMENTS") /\ ipv4_is_fragment(m.pkt) THEN Drop(m, "DROP_FRAG_NOSUPPORT")
  ELSE IF ~is_valid_lxc_src_ipv4(m, m.self.ip) THEN Drop(m, "DROP_INVALID_SIP")
  ELSE IF PerPacketLb(m) THEN __per_packet_lb_svc_xlate_4(m) ELSE tail_ipv4_ct_egress(m)
lxc_handle_ipv6(m) ==
  IF is_icmp6_ndp(m) THEN icmp6_ndp_handle(m)
  ELSE IF ~is_valid_lxc_src_ip(m, m.self.ip) THEN Drop(m, "DROP_INVALID_SIP")
  ELSE IF PerPacketLb(m) THEN __per_packet_lb_svc_xlate_6(m) ELSE tail_ipv6_ct_egress(m)
lxc_tail_handle_ipv4(m) == lxc_handle_ipv4(m)
lxc_tail_handle_ipv6(m) == lxc_handle_ipv6(m)

\* The router answers for every address but the pod's own.
tail_handle_arp(m) ==
  IF ~arp_validate(m.pkt, NODE_MAC) \/ m.pkt.daddr = m.self.ip THEN CTX_ACT_OK(m)
  ELSE arp_respond(m, NODE_MAC)

Handles(m, fam) ==
  \/ fam = 4 /\ On(m, "ENABLE_IPV4")
  \/ fam = 6 /\ On(m, "ENABLE_IPV6")
cil_from_container(m) ==
  LET c == bpf_clear_meta(m)
      p == m.pkt
  IN  IF Handles(m, p.fam)
      THEN ep_tail_call(edt_set_aggregate(c, m.self.lxc_id),
                        IF p.fam = 4 THEN "tail_handle_ipv4" ELSE "tail_handle_ipv6")
      ELSE IF p.fam = ETH_P_ARP /\ On(m, "ENABLE_ARP_PASSTHROUGH") THEN CTX_ACT_OK(c)
      ELSE IF p.fam = ETH_P_ARP /\ On(m, "ENABLE_ARP_RESPONDER") THEN ep_tail_call(c, "tail_handle_arp")
      ELSE Drop(c, "DROP_UNKNOWN_L3")

-----------------------------------------------------------------------------
(* To the pod.  A policy verdict that sends the packet to the proxy leaves *)
(* m.pol = "PROXY_REDIRECT".                                               *)

ToProxy(m) == [m EXCEPT !.pol = "PROXY_REDIRECT"]

\* Whether a packet is a reply that skips the policy, or has passed it.
lxc_ingress_policy(m, src_label, loopback, revnat, RevNat(_), CanIngress(_), info) ==
  LET p == CanIngress(m)
      a == IF p.pol = "DROP_POLICY_AUTH_REQUIRED" /\ info # None
           THEN auth_lookup(p, m.self.sec_id, src_label, info.tunnel_endpoint) ELSE p
  IN  IF m.ret \in Replies
      THEN IF \/ On(m, "ENABLE_L7_LB") /\ m.state.from_l7lb
              \/ m.state.proxy_redirect /\ ~tc_index_from_egress_proxy(m)
           THEN ToProxy(m)
           ELSE IF revnat THEN RevNat(m) ELSE m
      ELSE IF tc_index_from_ingress_proxy(m) \/ loopback THEN m
      ELSE IF a.pol # "OK" THEN Drop(a, a.pol) ELSE a
lxc_ingress_policy4(m, src_label, self, lb) ==
  LET RevNat(n) == lb4_rev_nat(n, n.state.rev_nat_index, FALSE, TRUE, ipv4_has_l4_header(n.pkt))
      CanIngress(n) == policy_can_ingress4(n, src_label,
                         ~On(n, "ENABLE_IPV4_FRAGMENTS") /\ ipv4_is_fragment(n.pkt))
  IN  lxc_ingress_policy(m, src_label, self \/ (lb /\ m.state.loopback),
                         m.state.rev_nat_index # 0 /\ ~m.state.loopback, RevNat,
                         CanIngress, lookup_ip4_remote_endpoint(m, m.pkt.saddr))

\* Whether the reply must go back by the NodePort path.  egress: the
\* connection's entry in the other direction says so.
lxc_ingress_nodeport(m, egress) ==
  LET d == IF m.ret = "CT_REOPENED" /\ On(m, "ENABLE_DSR") /\ m.state.dsr
           THEN ct_update_dsr(m, m.tuple, FALSE) ELSE m
  IN  IF On(m, "ENABLE_NODEPORT") /\ m.ret = "CT_REOPENED" /\ m.state.node_port # egress
      THEN ct_update_nodeport(d, m.tuple, egress)
      ELSE IF On(m, "ENABLE_NODEPORT") THEN d ELSE m
lxc_ingress_ct(m, new, egress, src_label, Create(_, _)) ==
  LET n == lxc_ingress_nodeport(m, egress)
      s == [new EXCEPT !.src_sec_id = src_label,
                       !.node_port = On(m, "ENABLE_NODEPORT") /\ egress]
      c == IF m.ret = "CT_NEW" THEN Create(n, s) ELSE n
  IN  IF c.err = "" /\ m.proxy_port > 0 THEN ToProxy(c) ELSE c
lxc_ingress_ct4(m, new, src_label) ==
  LET Create(n, s) == ct_create4(n, "CT_INGRESS", s, n.proxy_port > 0, FALSE, TRUE)
  IN  lxc_ingress_ct(m, new, ct_has_nodeport_egress_entry4(m, m.tuple, FALSE), src_label, Create)

ipv4_policy(m0, src_label, from_tunnel) ==
  LET m == [FromBuffer(policy_clear_mark(m0)) EXCEPT !.proxy_port = 0, !.pol = "OK"]
      t == m.tuple
      lb == PerPacketLb(m) /\ ~On(m, "DISABLE_LOOPBACK_LB")
      self == lb /\ m.ret = "CT_NEW" /\ m.pkt.saddr = IPV4_LOOPBACK
                 /\ ct_has_loopback_egress_entry4(m, t)
      new == [ct_state EXCEPT !.from_tunnel = from_tunnel, !.loopback = self,
                !.rev_nat_index = IF self THEN OutEntry(m, t).rev_nat_index ELSE 0]
      p == lxc_ingress_policy4(m, src_label, self, lb)
  IN  IF m0.buf = None THEN Drop(m0, "DROP_INVALID_TC_BUFFER")
      ELSE IF p.err # "" \/ p.pol = "PROXY_REDIRECT" THEN p
      ELSE lxc_ingress_ct4(p, new, src_label)
ipv6_policy(m0, src_label) ==
  LET m == [FromBuffer(policy_clear_mark(m0)) EXCEPT !.proxy_port = 0, !.pol = "OK"]
      RevNat(n) == lb6_rev_nat(n, n.state.rev_nat_index, FALSE)
      CanIngress(n) == policy_can_ingress6(n, src_label)
      p == lxc_ingress_policy(m, src_label, FALSE, m.state.rev_nat_index # 0, RevNat,
                              CanIngress, lookup_ip6_remote_endpoint(m, m.pkt.saddr))
      Create(n, s) == ct_create6(n, "CT_INGRESS", s, n.proxy_port > 0, FALSE, TRUE)
  IN  IF m0.buf = None THEN Drop(m0, "DROP_INVALID_TC_BUFFER")
      ELSE IF p.err # "" \/ p.pol = "PROXY_REDIRECT" THEN p
      ELSE lxc_ingress_ct(p, ct_state, ct_has_nodeport_egress_entry6(p, p.tuple, FALSE), src_label, Create)

\* Tail-called by the program that delivers: it also takes the packet to the
\* pod's interface, unless it came by a tunnel and the kernel does that.
lxc_policy_only(m, p, from_host, from_tunnel, Proxy(_, _, _)) ==
  LET done == IF p.pol = "PROXY_REDIRECT" THEN Proxy(p, p.proxy_port, from_host)
              ELSE IF \/ ~On(m, "ENABLE_ROUTING") /\ ~On(m, "ENABLE_NODEPORT") /\ from_tunnel
                      \/ m.cb.ifindex = 0
              THEN CTX_ACT_OK(p)
              ELSE ctx_redirect(p, m.cb.ifindex)
      magic == IF done.mark.magic = "TO_PROXY" THEN p.proxy_port ELSE None
  IN  IF p.err # "" \/ done.err # "" THEN IF p.err # "" THEN p ELSE done
      ELSE [done EXCEPT !.cb.proxy_magic = magic]
tail_ipv4_policy(m) ==
  LET c == [m EXCEPT !.cb.src_label = "UNKNOWN", !.cb.from_host = {},
                     !.cb.from_tunnel = IF On(m, "HAVE_ENCAP") THEN FALSE ELSE @]
      from_tunnel == On(m, "HAVE_ENCAP") /\ m.cb.from_tunnel
      p == ipv4_policy(c, m.cb.src_label, from_tunnel)
  IN  lxc_policy_only(m, p, m.cb.from_host # {}, from_tunnel, ctx_redirect_to_proxy4)
\* With tunnels every IPv6 packet counts as one that came by a tunnel.
tail_ipv6_policy(m) ==
  LET c == [m EXCEPT !.cb.src_label = "UNKNOWN", !.cb.from_host = {},
                     !.cb.from_tunnel = IF On(m, "HAVE_ENCAP") THEN FALSE ELSE @]
      p == ipv6_policy(c, m.cb.src_label)
  IN  lxc_policy_only(m, p, m.cb.from_host # {}, On(m, "HAVE_ENCAP"), ctx_redirect_to_proxy6)
tail_ipv4_ct_ingress_policy_only(m) ==
  InvokeIf(tail_ct_lookup4(m, "CT_INGRESS"), DualStack(m), "tail_ipv4_policy", tail_ipv4_policy)
tail_ipv6_ct_ingress_policy_only(m) ==
  InvokeIf(tail_ct_lookup6(m, "CT_INGRESS"), DualStack(m), "tail_ipv6_policy", tail_ipv6_policy)
handle_policy(m) ==
  IF ~Handles(m, m.pkt.fam) THEN Drop(m, "DROP_UNKNOWN_L3")
  ELSE IF m.pkt.fam = 4
  THEN InvokeIf(m, DualStack(m), "tail_ipv4_ct_ingress_policy_only", tail_ipv4_ct_ingress_policy_only)
  ELSE InvokeIf(m, DualStack(m), "tail_ipv6_ct_ingress_policy_only", tail_ipv6_ct_ingress_policy_only)

\* A packet the proxy sends for a pod.
handle_policy_egress(m) ==
  LET m1 == edt_set_aggregate([m EXCEPT !.cb.from_host = {"L7_LB"}], 0) IN
  IF ~Handles(m, m.pkt.fam) THEN Drop(m1, "DROP_UNKNOWN_L3")
  ELSE ep_tail_call(m1, IF m.pkt.fam = 4 THEN "tail_handle_ipv4" ELSE "tail_handle_ipv6")

\* A reply that a pod sent to itself by a service comes back from the
\* service's address: the service entry names the backend, and the entry of
\* the connection to that backend says that it is a loopback one.
ipv4_to_endpoint_is_hairpin_flow(m) ==
  LET x == lb4_extract_tuple(m)
      svc == [ct_tuple_swap_ports(ct_tuple_swap_addrs(x.tuple)) EXCEPT !.flags = {"TUPLE_F_SERVICE"}]
      be == lb4_lookup_backend(m, m.ct[svc].backend_id)
      out == [svc EXCEPT !.daddr = IPV4_LOOPBACK, !.dport = be.port, !.sport = svc.dport, !.flags = {}]
  IN  IF x.err # "" \/ ~Has(m.ct, svc) THEN FALSE
      ELSE IF be = None THEN FALSE
      ELSE Has(m.ct, out) /\ m.ct[out].lb_loopback

\* A reserved identity from the mark may be refined by the address.
RefinedLabel(m, label, info) ==
  IF identity_is_reserved(m, label) /\ info # None
  THEN IF info.sec_identity \notin {"UNKNOWN", "HOST"} THEN info.sec_identity ELSE label
  ELSE label
lxc_to_endpoint(p, Hairpin(_, _)) ==
  IF p.err # "" THEN p
  ELSE IF p.pol = "PROXY_REDIRECT" THEN Hairpin(p, p.proxy_port) ELSE CTX_ACT_OK(p)
tail_ipv4_to_endpoint(m) ==
  LET label == RefinedLabel(m, m.cb.src_label, lookup_ip4_remote_endpoint(m, m.pkt.saddr))
      c == [m EXCEPT !.cb.src_label = "UNKNOWN"]
  IN  IF ipv4_to_endpoint_is_hairpin_flow(c) THEN CTX_ACT_OK(c)
      ELSE lxc_to_endpoint(ipv4_policy(c, label, FALSE), ctx_redirect_to_proxy_hairpin_ipv4)
tail_ipv6_to_endpoint(m) ==
  LET label == RefinedLabel(m, m.cb.src_label, lookup_ip6_remote_endpoint(m, m.pkt.saddr))
      c == [m EXCEPT !.cb.src_label = "UNKNOWN"]
  IN  IF is_icmp6_ndp(m) THEN CTX_ACT_OK(m)
      ELSE lxc_to_endpoint(ipv6_policy(c, label), ctx_redirect_to_proxy_hairpin_ipv6)
tail_ipv4_ct_ingress(m) ==
  LET Go(n) == ep_tail_call(n, "tail_ipv4_to_endpoint")
  IN  Then(tail_ct_lookup4(m, "CT_INGRESS"), Go)
tail_ipv6_ct_ingress(m) ==
  LET Go(n) == ep_tail_call(n, "tail_ipv6_to_endpoint")
  IN  Then(tail_ct_lookup6(m, "CT_INGRESS"), Go)

cil_to_container(m) ==
  LET c == inherit_identity_from_host(bpf_clear_meta(m))
      fam == m.pkt.fam
      ep == IF fam = 4 THEN lookup_ip4_endpoint(m, m.pkt.saddr) ELSE lookup_ip6_endpoint(m, m.pkt.saddr)
      world == IF fam = 4 THEN identity_is_world_ipv4(m, c.src_id) ELSE identity_is_world_ipv6(m, c.src_id)
      id == IF On(m, "ENABLE_HIGH_SCALE_IPCACHE") /\ world /\ ep # None THEN ep.sec_id ELSE c.src_id
  IN  IF On(m, "ENABLE_L7_LB") /\ c.magic = "PROXY_EGRESS_EPID"
      THEN ep_tail_call([c EXCEPT !.to = c.src_id], "handle_policy_egress")
      ELSE IF On(m, "ENABLE_HOST_FIREWALL") /\ ~On(m, "ENABLE_ROUTING") /\ c.src_id = "HOST"
      THEN ep_tail_call([c EXCEPT !.cb.from_host = {"HOST"}, !.cb.dst_id = m.self.lxc_id],
                        "handle_lxc_traffic")
      ELSE IF /\ fam = ETH_P_ARP
              /\ On(m, "ENABLE_ARP_PASSTHROUGH") \/ On(m, "ENABLE_ARP_RESPONDER") THEN CTX_ACT_OK(c)
      ELSE IF ~Handles(m, fam) THEN Drop(c, "DROP_UNKNOWN_L3")
      ELSE ep_tail_call([c EXCEPT !.cb.src_label = id],
                        IF fam = 4 THEN "tail_ipv4_ct_ingress" ELSE "tail_ipv6_ct_ingress")
================================================================================
