-------------------------------- MODULE Policy --------------------------------
(***************************************************************************)
(* Policy, identities, proxy redirection and local delivery of the Cilium  *)
(* datapath (examples/cilium-lxc/bpf/lib/policy.h, auth.h, identity.h,     *)
(* proxy.h, eps.h, lxc.h, l3.h and overloadable_skb.h).  Fields of m used  *)
(* here:                                                                   *)
(*   policy   the POLICY_MAP of every endpoint; self is the endpoint whose *)
(*            program runs: [lxc_id, sec_id, ip]                           *)
(*   auths, nodes, eps, ipcache   AUTH_MAP, NODE_MAP, ENDPOINTS_MAP and    *)
(*            IPCACHE_MAP                                                  *)
(*   pol, auth_type, proxy_port   what the policy check returned           *)
(*   mark, tcidx   ctx->mark and the TC_INDEX_F_ bits of ctx->tc_index     *)
(*   socks    the sockets of the node's network namespace                  *)
(*   verdict, to   where the program sent the packet                       *)
(*   next     the program it tail-calls                                    *)
(* Identities are names; the cluster id some builds keep in their upper    *)
(* bits is left out.                                                       *)
(***************************************************************************)
EXTENDS LoadBalancer

CONSTANT TUNNEL_PORT

AnyPort == -1
\* The type byte, moved where a port would be.
IcmpType(p) ==
  IF p.fam = 4
  THEN CASE p.icmp = "echoreply" -> 0 [] p.icmp = "echo" -> 8
         [] p.icmp \in {"error", "fragneeded"} -> 3 [] OTHER -> 13
  ELSE CASE p.icmp = "echoreply" -> 129 [] p.icmp = "echo" -> 128
         [] p.icmp = "error" -> 1 [] p.icmp = "fragneeded" -> 2
         [] p.icmp = "ns" -> 135 [] p.icmp = "na" -> 136 [] OTHER -> 138

-----------------------------------------------------------------------------
(* Identities.                                                             *)

identity_is_remote_node(id) == id \in {"REMOTE_NODE", "KUBE_APISERVER"}
identity_is_node(id) == id = "HOST" \/ identity_is_remote_node(id)
DualStack(m) == On(m, "ENABLE_IPV4") /\ On(m, "ENABLE_IPV6")
identity_is_reserved(m, id) ==
  \/ id \in {"UNKNOWN", "HOST", "WORLD"} \/ identity_is_remote_node(id)
  \/ DualStack(m) /\ id \in {"WORLD_IPV4", "WORLD_IPV6"}
identity_is_world_ipv4(m, id) == id = "WORLD" \/ (DualStack(m) /\ id = "WORLD_IPV4")
identity_is_world_ipv6(m, id) == id = "WORLD" \/ (DualStack(m) /\ id = "WORLD_IPV6")
identity_is_cluster(m, id) ==
  /\ id # "WORLD" /\ (DualStack(m) => id \notin {"WORLD_IPV4", "WORLD_IPV6"})
  /\ id # "CIDR"
WorldId(m) ==
  CASE DualStack(m) /\ m.pkt.fam = 4 -> "WORLD_IPV4"
    [] DualStack(m) /\ m.pkt.fam = 6 -> "WORLD_IPV6"
    [] OTHER -> "WORLD"

NoMark == [magic |-> "NONE", id |-> "UNKNOWN"]
set_identity_mark(m, id, magic) == [m EXCEPT !.mark = [magic |-> magic, id |-> id]]
get_identity(m) == m.mark.id
get_epid(m) == m.mark.id
\* A packet to be encrypted has the key and the node in its mark, or in a
\* meta slot from which cil_to_host takes them; its identity is in another.
set_identity_meta(m, id) == [m EXCEPT !.cb.encrypt_id = id]
set_encrypt_key_mark(m, key, node_id) ==
  [m EXCEPT !.mark = [magic |-> "ENCRYPT", id |-> [key |-> key, node |-> node_id]]]
set_encrypt_key_meta(m, key, node_id) == [m EXCEPT !.cb.encrypt = [key |-> key, node |-> node_id]]

\* The mark tells where a packet from the host comes from; it is consumed.
inherit_identity_from_host(m) ==
  LET magic == m.mark.magic
      id == CASE magic \in {"PROXY_INGRESS", "PROXY_EGRESS", "IDENTITY"} -> get_identity(m)
              [] magic = "HOST" -> "HOST"
              [] magic = "ENCRYPT" -> m.cb.encrypt_id
              [] magic = "PROXY_EGRESS_EPID" /\ On(m, "ENABLE_L7_LB") -> get_epid(m)
              [] OTHER -> WorldId(m)
  IN  [m EXCEPT !.src_id = id, !.mark = NoMark, !.magic = magic,
                !.tcidx = @ \cup CASE magic = "PROXY_INGRESS" -> {"FROM_INGRESS_PROXY"}
                                   [] magic = "PROXY_EGRESS" -> {"FROM_EGRESS_PROXY"}
                                   [] OTHER -> {}]

tc_index_from_ingress_proxy(m) == "FROM_INGRESS_PROXY" \in m.tcidx
tc_index_from_egress_proxy(m) == "FROM_EGRESS_PROXY" \in m.tcidx

ctx_skip_nodeport_clear(m) == [m EXCEPT !.tcidx = @ \ {"SKIP_NODEPORT"}]
ctx_skip_nodeport_set(m) ==
  IF On(m, "ENABLE_NODEPORT") THEN [m EXCEPT !.tcidx = @ \cup {"SKIP_NODEPORT"}] ELSE m
ctx_skip_nodeport(m) == ~On(m, "ENABLE_NODEPORT") \/ "SKIP_NODEPORT" \in m.tcidx
ctx_skip_host_fw_set(m) == [m EXCEPT !.tcidx = @ \cup {"SKIP_HOST_FIREWALL"}]
ctx_skip_host_fw(m) == "SKIP_HOST_FIREWALL" \in m.tcidx
\* Reading the flag takes it away.
ctx_skip_host_fw_clear(m) == [m EXCEPT !.tcidx = @ \ {"SKIP_HOST_FIREWALL"}]
ctx_get_xfer(m, flag) == flag \in m.xferflags
ctx_snat_done_set(m) == [m EXCEPT !.mark.magic = "SNAT_DONE"]
ctx_snat_done(m) == m.mark.magic = "SNAT_DONE"

-----------------------------------------------------------------------------
(* Endpoints.  None when the map has no entry for the address.             *)

lookup_ip4_endpoint(m, addr) == IF Has(m.eps, addr) THEN m.eps[addr] ELSE None
lookup_ip6_endpoint(m, addr) == IF Has(m.eps, addr) THEN m.eps[addr] ELSE None
lookup_ip4_remote_endpoint(m, addr) == IF Has(m.ipcache, addr) THEN m.ipcache[addr] ELSE None
lookup_ip6_remote_endpoint(m, addr) == IF Has(m.ipcache, addr) THEN m.ipcache[addr] ELSE None

is_valid_lxc_src_ip(m, lxc_ip) == On(m, "ENABLE_SIP_VERIFICATION") => m.pkt.saddr = lxc_ip
is_valid_lxc_src_ipv4(m, lxc_ip) == On(m, "ENABLE_SIP_VERIFICATION") => m.pkt.saddr = lxc_ip

-----------------------------------------------------------------------------
(* The policy check.                                                       *)

PolicyMap(m) == m.policy[m.self.lxc_id]
PolicyKey(id, egress, proto, dport) ==
  [id |-> id, egress |-> egress, proto |-> proto, dport |-> dport]

\* The longest prefix in the map for a label: an entry for the port, one
\* for the protocol, or one for the label alone.
LongestMatch(m, id, egress, proto, dport) ==
  LET l4 == PolicyKey(id, egress, proto, dport)
      l3proto == PolicyKey(id, egress, proto, AnyPort)
      l3 == PolicyKey(id, egress, "any", AnyPort)
  IN  CASE Has(PolicyMap(m), l4) -> l4
        [] ~Has(PolicyMap(m), l4) /\ Has(PolicyMap(m), l3proto) -> l3proto
        [] ~Has(PolicyMap(m), l4) /\ ~Has(PolicyMap(m), l3proto) /\ Has(PolicyMap(m), l3) -> l3
        [] OTHER -> None

account_and_check(m, entry) ==
  CASE entry.deny -> [m EXCEPT !.pol = "DROP_POLICY_DENY"]
    [] ~entry.deny /\ entry.auth_type # 0 ->
         [m EXCEPT !.pol = "DROP_POLICY_AUTH_REQUIRED", !.auth_type = entry.auth_type,
                   !.proxy_port = entry.proxy_port]
    [] OTHER -> [m EXCEPT !.pol = "OK", !.proxy_port = entry.proxy_port]

\* The more specific of the match for the peer and the match for any peer
\* decides; on a tie the one for the peer does.
MoreSpecific(p, l4) ==
  LET Port(k) == k # None /\ k.dport # AnyPort
      Proto(k) == k # None /\ k.proto # "any"
  IN  IF Port(p) THEN p ELSE IF Port(l4) THEN l4
      ELSE IF Proto(p) THEN p ELSE IF Proto(l4) THEN l4
      ELSE IF p # None THEN p ELSE l4
\* With no match the packet passes only if the source's program marked it.
policy_decide(m, key, untracked_fragment) ==
  IF key # None THEN account_and_check(m, PolicyMap(m)[key])
  ELSE IF m.cb.policy THEN [m EXCEPT !.pol = "OK", !.proxy_port = 0]
  ELSE [m EXCEPT !.pol = IF untracked_fragment THEN "DROP_FRAG_NOSUPPORT" ELSE "DROP_POLICY"]
policy_can_access(m, remote_id, egress, dport, untracked_fragment) ==
  LET proto == m.tuple.nexthdr
      icmp == proto = "ICMP"
      port == IF icmp /\ On(m, "ENABLE_ICMP_RULE") THEN IcmpType(m.pkt) ELSE dport
  IN  IF icmp /\ m.pkt.short /\ (On(m, "ENABLE_ICMP_RULE") \/ On(m, "ALLOW_ICMP_FRAG_NEEDED"))
      THEN [m EXCEPT !.pol = "DROP_INVALID"]
      ELSE IF icmp /\ m.pkt.icmp = "fragneeded" /\ m.pkt.fam = 4 /\ ~m.pkt.short
              /\ On(m, "ALLOW_ICMP_FRAG_NEEDED")
      THEN [m EXCEPT !.pol = "OK", !.proxy_port = 0]
      ELSE policy_decide(m, MoreSpecific(LongestMatch(m, remote_id, egress, proto, port),
                                         LongestMatch(m, "UNKNOWN", egress, proto, port)),
                         untracked_fragment)

Audit(m) == IF On(m, "POLICY_AUDIT_MODE") THEN [m EXCEPT !.pol = "OK"] ELSE m

policy_can_ingress(m, src_id, untracked_fragment) ==
  Audit(policy_can_access(m, src_id, FALSE, m.tuple.dport, untracked_fragment))
policy_can_ingress4(m, src_id, untracked_fragment) ==
  policy_can_ingress(m, src_id, untracked_fragment)
policy_can_ingress6(m, src_id) == policy_can_ingress(m, src_id, FALSE)

is_encap(m) == m.tuple.nexthdr = "UDP" /\ m.tuple.dport = TUNNEL_PORT
policy_can_egress(m, src_id, dst_id) ==
  IF On(m, "HAVE_ENCAP") /\ src_id # "HOST" /\ is_encap(m)
  THEN [m EXCEPT !.pol = "DROP_ENCAP_PROHIBITED"]
  ELSE Audit(policy_can_access(m, dst_id, TRUE, m.tuple.dport, FALSE))
policy_can_egress4(m, src_id, dst_id) == policy_can_egress(m, src_id, dst_id)
policy_can_egress6(m, src_id, dst_id) == policy_can_egress(m, src_id, dst_id)

policy_mark_skip(m) == [m EXCEPT !.cb.policy = TRUE]
policy_clear_mark(m) == [m EXCEPT !.cb.policy = FALSE]

\* An authentication that has expired is asked for again.
auth_lookup(m, local_id, remote_id, remote_node_ip) ==
  LET node == IF remote_node_ip = None THEN 0 ELSE m.nodes[remote_node_ip]
      key == [local |-> local_id, remote |-> remote_id, node |-> node, type |-> m.auth_type]
  IN  CASE remote_node_ip # None /\ ~Has(m.nodes, remote_node_ip) ->
             [m EXCEPT !.pol = "DROP_NO_NODE_ID"]
        [] OTHER -> IF Has(m.auths, key) /\ m.now < m.auths[key]
                    THEN [m EXCEPT !.pol = "OK"]
                    ELSE [m EXCEPT !.pol = "DROP_POLICY_AUTH_REQUIRED"]

-----------------------------------------------------------------------------
(* Redirection to the proxy.  A socket is a record of its addresses, ports *)
(* and protocol; a listener has no peer (saddr Any, sport 0).              *)

Sock(m, saddr, daddr, sport, dport) ==
  [saddr |-> saddr, daddr |-> daddr, sport |-> sport, dport |-> dport, proto |-> m.tuple.nexthdr]

assign_socket_tcp(m, sock) == sock \in m.socks
assign_socket_udp(m, sock) == sock \in m.socks
assign_socket(m, sock) ==
  \/ m.tuple.nexthdr = "TCP" /\ assign_socket_tcp(m, sock)
  \/ m.tuple.nexthdr = "UDP" /\ assign_socket_udp(m, sock)

\* The established socket of the connection, then the proxy's listener on
\* the loopback address, then the one bound to any address.
ctx_redirect_to_proxy_ingress(m, proxy_port) ==
  LET t == ct_tuple_swap_ports(m.tuple)
      found == \/ assign_socket(m, Sock(m, t.saddr, t.daddr, t.sport, t.dport))
               \/ assign_socket(m, Sock(m, "any", "localhost", 0, proxy_port))
               \/ assign_socket(m, Sock(m, "any", "any", 0, proxy_port))
  IN  CASE m.tuple.nexthdr \notin {"TCP", "UDP"} -> Drop(m, "DROP_PROXY_UNKNOWN_PROTO")
        [] m.tuple.nexthdr \in {"TCP", "UDP"} /\ ~found -> Drop(m, "DROP_PROXY_LOOKUP_FAILED")
        [] OTHER -> m

ctx_redirect_to_proxy(m, proxy_port, from_host) ==
  LET m1 == [m EXCEPT !.mark = [magic |-> "TO_PROXY", id |-> "UNKNOWN"],
                      !.verdict = "PROXY", !.to = proxy_port]
  IN  IF On(m, "ENABLE_TPROXY") /\ proxy_port # 0 /\ ~from_host
      THEN ctx_redirect_to_proxy_ingress(m1, proxy_port) ELSE m1
ctx_redirect_to_proxy4(m, proxy_port, from_host) == ctx_redirect_to_proxy(m, proxy_port, from_host)
ctx_redirect_to_proxy6(m, proxy_port, from_host) == ctx_redirect_to_proxy(m, proxy_port, from_host)

\* In the host: the tuple is taken from the packet again.
extract_tuple(m) ==
  LET Reverse(n) == [n EXCEPT !.tuple = ct_tuple_swap_ports(ct_tuple_swap_addrs(@))]
      Load(n) == Then(l4_load_ports(n), Reverse)
  IN  Then(IF m.pkt.fam = 4 THEN ipv4_extract_tuple(m) ELSE ipv6_extract_tuple(m), Load)
ctx_redirect_to_proxy_first(m, proxy_port) ==
  LET Assign(n) == ctx_redirect_to_proxy_ingress(n, proxy_port)
      m1 == IF On(m, "ENABLE_TPROXY") /\ proxy_port # 0
            THEN Then(extract_tuple(m), Assign) ELSE m
      Mark(n) == [n EXCEPT !.mark = [magic |-> "TO_PROXY", id |-> "UNKNOWN"],
                           !.verdict = "PROXY", !.to = proxy_port]
  IN  Then(m1, Mark)

-----------------------------------------------------------------------------
(* Delivery to an endpoint of the node.                                    *)

redirect_ep(m, ep) == [m EXCEPT !.verdict = "REDIRECT", !.to = ep.lxc_id]

ipv4_dec_ttl(m) ==
  IF m.pkt.ttl <= 1 THEN Drop(m, "DROP_TTL_EXCEEDED") ELSE [m EXCEPT !.pkt.ttl = @ - 1]
ipv6_dec_hoplimit(m) ==
  IF m.pkt.ttl <= 1 THEN Drop(m, "DROP_TTL_EXCEEDED") ELSE [m EXCEPT !.pkt.ttl = @ - 1]
\* The IPv6 twin tail-calls the program that answers the sender.
ipv6_l3(m) ==
  LET h == ipv6_dec_hoplimit(m) IN
  IF h.err = "DROP_TTL_EXCEEDED" THEN [m EXCEPT !.next = "tail_icmp6_send_time_exceeded"] ELSE h
ipv4_l3(m) == ipv4_dec_ttl(m)

EvalAtSource(m) ==
  \/ ~On(m, "USE_BPF_PROG_FOR_INGRESS_POLICY")
  \/ On(m, "ENABLE_ENDPOINT_ROUTES") /\ On(m, "ENABLE_HOST_ROUTING")

\* Either the endpoint's own program checks its ingress policy on the way
\* in, or the policy program of the endpoint is tail-called here.
l3_local_delivery(m, seclabel, magic, ep, from_host, hairpin_flow, from_tunnel) ==
  CASE ~EvalAtSource(m) ->
         LET m1 == set_identity_mark(m, seclabel, magic) IN
         IF ~On(m, "ENABLE_NODEPORT") /\ from_tunnel THEN [m1 EXCEPT !.verdict = "STACK"]
         ELSE redirect_ep(m1, ep)
    [] EvalAtSource(m) /\ hairpin_flow -> redirect_ep(m, ep)
    [] OTHER -> [m EXCEPT !.cb.src_label = seclabel, !.cb.from_host = IF from_host THEN {"HOST"} ELSE {},
                          !.cb.from_tunnel = from_tunnel, !.cb.ifindex = ep.lxc_id,
                          !.next = "handle_policy", !.to = ep.lxc_id]

ipv4_local_delivery(m, seclabel, magic, ep, from_host, hairpin_flow, from_tunnel) ==
  LET Deliver(n) == l3_local_delivery(n, seclabel, magic, ep, from_host, hairpin_flow, from_tunnel)
  IN  Then(ipv4_l3(m), Deliver)
ipv6_local_delivery(m, seclabel, magic, ep, from_host, from_tunnel) ==
  LET m1 == ipv6_l3(m) IN
  IF m1.next # "" THEN m1
  ELSE l3_local_delivery(m1, seclabel, magic, ep, from_host, FALSE, from_tunnel)
================================================================================
