---------------------------------- MODULE Node ----------------------------------
(***************************************************************************)
(* A node of the Cilium datapath: CPUs that run the programs of the pods'  *)
(* interfaces, the network devices, the host device and the tunnel device  *)
(* (examples/cilium-lxc/bpf) on shared maps.                               *)
(*                                                                         *)
(* A packet arrives at a hook and is taken by an idle CPU.  Each program   *)
(* that a tail call reaches is one step, so that the programs of two CPUs  *)
(* interleave at tail calls and the maps may change between them.  A       *)
(* program's own map operations are one step: packets of one flow come to  *)
(* one CPU, and the maps' operations of different flows touch different    *)
(* keys; source ports, which flows share, are in module SnatMapping at the *)
(* grain of single map operations.  What a program decides is carried out  *)
(* by the kernel (Kernel below), which may hand the packet to the next     *)
(* hook.  The agent changes the control plane's tables and collects        *)
(* expired entries; it and the kernel are external.                        *)
(***************************************************************************)
EXTENDS Overlay, TLC

CONSTANTS
  Cpus,
  Builds,      \* the sets of compile-time options
  Arrivals(_), \* what can arrive at such a node: records [hook, at, pkt, mark, tun]
  Tables0,     \* the control plane's maps
  Changes(_),  \* the tables the agent may replace the given ones by
  Pods,        \* lxc_id -> [lxc_id, sec_id, ip]
  HostSelf,    \* the same of the host endpoint
  Netdevs,     \* the interfaces of the network devices
  HostIps,     \* addresses of the host's own sockets
  Rnds,        \* pairs of what get_prandom_u32() may return to a run
  Fulls,       \* whether map updates may fail: a subset of BOOLEAN
  MaxArrivals, MaxTime, MaxChanges    \* bounds of the model

ASSUME BoundsAssumption == {MaxArrivals, MaxTime, MaxChanges} \subseteq Nat

VARIABLES
  build,   \* the options the node was compiled with
  tables,  \* the maps only the agent writes
  maps,    \* the maps the programs write
  now,     \* bpf_mono_now()
  run,     \* the run of every CPU, None if it is idle
  left,    \* arrivals and changes that may still happen
  opened,  \* ghost: the connections that pods and the host have been let
           \* open, with the address they were sent to
  served   \* ghost: the connections that requests from outside became when
           \* they left the node's programs, with what they were on arrival
vars == <<build, tables, maps, now, run, left, opened, served>>

-----------------------------------------------------------------------------
(* Hooks, programs and tail calls.                                         *)

Hooks == {"from_container", "to_container", "from_netdev", "to_netdev", "from_host", "to_host",
          "from_overlay", "to_overlay", "xdp"}
\* The object file a hook's program is in.
KindOf(hook) ==
  CASE hook \in {"from_container", "to_container"} -> "IS_BPF_LXC"
    [] hook \in {"from_netdev", "to_netdev", "from_host", "to_host"} -> "IS_BPF_HOST"
    [] hook \in {"from_overlay", "to_overlay"} -> "IS_BPF_OVERLAY"
    [] OTHER -> "IS_BPF_XDP"

\* The state a run starts with.
FreshRun(a, rnd, rnd2, full) ==
  [hook |-> a.hook, kind |-> KindOf(a.hook), arrival |-> a, calls |-> 0,
   self |-> IF a.at \in DOMAIN Pods THEN Pods[a.at] ELSE HostSelf, ifindex |-> a.at,
   pkt |-> a.pkt, mark |-> a.mark, tun |-> a.tun, tunopt |-> IF a.tun = None THEN None ELSE a.tun.opt,
   tuple |-> PktTuple(a.pkt), state |-> ct_state, ret |-> "", hasl4 |-> TRUE, full |-> full,
   relfull |-> FALSE, err |-> "", rnd |-> rnd, rnd2 |-> rnd2, backend |-> 0, cb |-> NoMeta,
   proxy_port |-> 0, pol |-> "", auth_type |-> 0, magic |-> "NONE", src_id |-> "UNKNOWN",
   tcidx |-> {}, verdict |-> "", to |-> None, next |-> "", fibret |-> "", oif |-> 0, agg |-> 0,
   natent |-> None, target |-> NatTarget(None), dsr |-> None, xfer |-> FALSE, xferflags |-> {},
   buf |-> None]

RunFields == DOMAIN FreshRun(CHOOSE a \in UNION {Arrivals(b) : b \in Builds} : TRUE, 0, 0, FALSE)

\* The programs a hook or a tail call names.  IPV4_FROM_NETDEV and its twins
\* are one slot, filled by what the object file has for it.
EntryProgram(m) ==
  CASE m.hook = "from_container" -> cil_from_container(m)
    [] m.hook = "to_container" -> cil_to_container(m)
    [] m.hook = "from_netdev" -> cil_from_netdev(m)
    [] m.hook = "to_netdev" -> cil_to_netdev(m)
    [] m.hook = "from_host" -> cil_from_host(m)
    [] m.hook = "to_host" -> cil_to_host(m)
    [] m.hook = "from_overlay" -> cil_from_overlay(m)
    [] m.hook = "to_overlay" -> cil_to_overlay(m)
    [] OTHER -> cil_xdp_entry(m)

Ipv4Slot(m) ==
  CASE m.kind = "IS_BPF_LXC" -> lxc_tail_handle_ipv4(m)
    [] m.kind = "IS_BPF_HOST" -> tail_handle_ipv4_from_netdev(m)
    [] m.kind = "IS_BPF_OVERLAY" -> overlay_tail_handle_ipv4(m)
    [] OTHER -> tail_lb_ipv4(m)
Ipv6Slot(m) ==
  CASE m.kind = "IS_BPF_LXC" -> lxc_tail_handle_ipv6(m)
    [] m.kind = "IS_BPF_HOST" -> tail_handle_ipv6_from_netdev(m)
    [] m.kind = "IS_BPF_OVERLAY" -> overlay_tail_handle_ipv6(m)
    [] OTHER -> tail_lb_ipv6(m)

LxcProgram(m, p) ==
  CASE p = "tail_ipv4_ct_egress" -> tail_ipv4_ct_egress(m)
    [] p = "tail_ipv6_ct_egress" -> tail_ipv6_ct_egress(m)
    [] p = "tail_handle_ipv4_cont" -> tail_handle_ipv4_cont(m)
    [] p = "tail_handle_ipv6_cont" -> tail_handle_ipv6_cont(m)
    [] p = "tail_handle_arp" -> tail_handle_arp(m)
    [] p = "handle_policy" -> handle_policy(m)
    [] p = "handle_policy_egress" -> handle_policy_egress(m)
    [] p = "tail_ipv4_ct_ingress_policy_only" -> tail_ipv4_ct_ingress_policy_only(m)
    [] p = "tail_ipv6_ct_ingress_policy_only" -> tail_ipv6_ct_ingress_policy_only(m)
    [] p = "tail_ipv4_policy" -> tail_ipv4_policy(m)
    [] p = "tail_ipv6_policy" -> tail_ipv6_policy(m)
    [] p = "tail_ipv4_ct_ingress" -> tail_ipv4_ct_ingress(m)
    [] p = "tail_ipv6_ct_ingress" -> tail_ipv6_ct_ingress(m)
    [] p = "tail_ipv4_to_endpoint" -> tail_ipv4_to_endpoint(m)
    [] OTHER -> tail_ipv6_to_endpoint(m)

NodePortProgram(m, p) ==
  CASE p = "tail_no_service_ipv4" -> tail_no_service_ipv4(m)
    [] p = "tail_no_service_ipv6" -> tail_no_service_ipv6(m)
    [] p = "tail_nat_ipv46" -> tail_nat_ipv46(m)
    [] p = "tail_nat_ipv64" -> tail_nat_ipv64(m)
    [] p = "tail_nodeport_ipv4_dsr" -> tail_nodeport_ipv4_dsr(m)
    [] p = "tail_nodeport_ipv6_dsr" -> tail_nodeport_ipv6_dsr(m)
    [] p = "tail_nodeport_nat_egress_ipv4" -> tail_nodeport_nat_egress_ipv4(m)
    [] p = "tail_nodeport_nat_egress_ipv6" -> tail_nodeport_nat_egress_ipv6(m)
    [] p = "tail_nodeport_nat_ingress_ipv4" -> tail_nodeport_nat_ingress_ipv4(m)
    [] p = "tail_nodeport_nat_ingress_ipv6" -> tail_nodeport_nat_ingress_ipv6(m)
    [] p = "tail_nodeport_rev_dnat_ingress_ipv4" -> tail_nodeport_rev_dnat_ingress_ipv4(m)
    [] p = "tail_nodeport_rev_dnat_ingress_ipv6" -> tail_nodeport_rev_dnat_ingress_ipv6(m)
    [] p = "tail_handle_snat_fwd_ipv4" -> tail_handle_snat_fwd_ipv4(m)
    [] p = "tail_handle_snat_fwd_ipv6" -> tail_handle_snat_fwd_ipv6(m)
    [] p = "tail_handle_nat_fwd_ipv4" -> tail_handle_nat_fwd_ipv4(m)
    [] OTHER -> tail_handle_nat_fwd_ipv6(m)

HostProgram(m, p) ==
  CASE p = "IPV4_FROM_HOST" -> tail_handle_ipv4_from_host(m)
    [] p = "IPV6_FROM_HOST" -> tail_handle_ipv6_from_host(m)
    [] p = "tail_handle_ipv4_cont_from_host" -> tail_handle_ipv4_cont_from_host(m)
    [] p = "tail_handle_ipv6_cont_from_host" -> tail_handle_ipv6_cont_from_host(m)
    [] p = "tail_handle_ipv4_cont_from_netdev" -> tail_handle_ipv4_cont_from_netdev(m)
    [] p = "tail_handle_ipv6_cont_from_netdev" -> tail_handle_ipv6_cont_from_netdev(m)
    [] p = "tail_ipv4_host_policy_ingress" -> tail_ipv4_host_policy_ingress(m)
    [] p = "tail_ipv6_host_policy_ingress" -> tail_ipv6_host_policy_ingress(m)
    [] p = "handle_lxc_traffic" -> handle_lxc_traffic(m)
    [] p = "tail_handle_inter_cluster_revsnat" -> tail_handle_inter_cluster_revsnat(m)
    [] p = "overlay_tail_handle_arp" -> overlay_tail_handle_arp(m)
    [] p = "tail_icmp6_send_time_exceeded" -> tail_icmp6_send_time_exceeded(m)
    [] p = "tail_icmp6_handle_ns" -> tail_icmp6_handle_ns(m)
    [] p = "tail_srv6_encap" -> tail_srv6_encap(m)
    [] p = "tail_srv6_decap" -> tail_srv6_decap(m)
    [] OTHER -> Drop(m, "DROP_MISSED_TAIL_CALL")

Ipv4Slots == {"tail_handle_ipv4", "IPV4_FROM_NETDEV", "IPV4_FROM_OVERLAY"}
Ipv6Slots == {"tail_handle_ipv6", "IPV6_FROM_NETDEV", "IPV6_FROM_OVERLAY"}
LxcPrograms == {"tail_ipv4_ct_egress", "tail_ipv6_ct_egress", "tail_handle_ipv4_cont",
  "tail_handle_ipv6_cont", "tail_handle_arp", "handle_policy", "handle_policy_egress",
  "tail_ipv4_ct_ingress_policy_only", "tail_ipv6_ct_ingress_policy_only", "tail_ipv4_policy",
  "tail_ipv6_policy", "tail_ipv4_ct_ingress", "tail_ipv6_ct_ingress", "tail_ipv4_to_endpoint",
  "tail_ipv6_to_endpoint"}
NodePortPrograms == {"tail_no_service_ipv4", "tail_no_service_ipv6", "tail_nat_ipv46",
  "tail_nat_ipv64", "tail_nodeport_ipv4_dsr", "tail_nodeport_ipv6_dsr",
  "tail_nodeport_nat_egress_ipv4", "tail_nodeport_nat_egress_ipv6",
  "tail_nodeport_nat_ingress_ipv4", "tail_nodeport_nat_ingress_ipv6",
  "tail_nodeport_rev_dnat_ingress_ipv4", "tail_nodeport_rev_dnat_ingress_ipv6",
  "tail_handle_snat_fwd_ipv4", "tail_handle_snat_fwd_ipv6", "tail_handle_nat_fwd_ipv4",
  "tail_handle_nat_fwd_ipv6"}
TailProgram(m, p) ==
  CASE p \in Ipv4Slots -> Ipv4Slot(m)
    [] p \in Ipv6Slots -> Ipv6Slot(m)
    [] p \in LxcPrograms -> LxcProgram(m, p)
    [] p \in NodePortPrograms -> NodePortProgram(m, p)
    [] OTHER -> HostProgram(m, p)

\* A call into another endpoint's policy program, or into the host's, runs
\* that endpoint's object file.
Switch(m) ==
  CASE m.next \in {"handle_policy", "handle_policy_egress"} ->
         [m EXCEPT !.kind = "IS_BPF_LXC", !.self = Pods[m.to]]
    [] m.next = "handle_lxc_traffic" -> [m EXCEPT !.kind = "IS_BPF_HOST", !.self = HostSelf]
    [] OTHER -> m

\* The state a program sees: the clock and the build, what run r has of its own,
\* the maps and the agent's tables.
Machine(r) ==
  [opts |-> build \cup {r.kind}, now |-> now,
   hook |-> r.hook, kind |-> r.kind, arrival |-> r.arrival, calls |-> r.calls, self |-> r.self,
   ifindex |-> r.ifindex, pkt |-> r.pkt, mark |-> r.mark, tun |-> r.tun, tunopt |-> r.tunopt,
   tuple |-> r.tuple, state |-> r.state, ret |-> r.ret, hasl4 |-> r.hasl4, full |-> r.full,
   relfull |-> r.relfull, err |-> r.err, rnd |-> r.rnd, rnd2 |-> r.rnd2, backend |-> r.backend,
   cb |-> r.cb, proxy_port |-> r.proxy_port, pol |-> r.pol, auth_type |-> r.auth_type,
   magic |-> r.magic, src_id |-> r.src_id, tcidx |-> r.tcidx, verdict |-> r.verdict, to |-> r.to,
   next |-> r.next, fibret |-> r.fibret, oif |-> r.oif, agg |-> r.agg, natent |-> r.natent,
   target |-> r.target, dsr |-> r.dsr, xfer |-> r.xfer, xferflags |-> r.xferflags, buf |-> r.buf,
   ct |-> maps.ct, frag |-> maps.frag, nat |-> maps.nat, aff |-> maps.aff, neigh |-> maps.neigh,
   throttle |-> maps.throttle, bucket |-> maps.bucket, srstate |-> maps.srstate,
   services |-> tables.services, backends |-> tables.backends, revnat |-> tables.revnat,
   affmatch |-> tables.affmatch, srcrange |-> tables.srcrange, lut |-> tables.lut,
   health |-> tables.health, sel |-> tables.sel, eps |-> tables.eps, tunnels |-> tables.tunnels,
   policy |-> tables.policy, auths |-> tables.auths, alive |-> tables.alive,
   ipcache |-> tables.ipcache, encrypt |-> tables.encrypt, nodes |-> tables.nodes,
   l2resp |-> tables.l2resp, egressgw |-> tables.egressgw, vrfs |-> tables.vrfs,
   srpolicies |-> tables.srpolicies, sids |-> tables.sids, vteps |-> tables.vteps,
   worldcidrs |-> tables.worldcidrs, masqagent |-> tables.masqagent,
   prefilter |-> tables.prefilter, socks |-> tables.socks, routes |-> tables.routes,
   vlans |-> tables.vlans]
\* The program a run is at: its hook's, or the one it has tail-called.
Execute(r) ==
  IF r.next = "" THEN EntryProgram(Machine(r))
  ELSE LET m == Machine([Switch(r) EXCEPT !.next = "", !.calls = @ + 1]) IN TailProgram(m, r.next)
Conn(p) ==
  [saddr |-> p.saddr, daddr |-> p.daddr, sport |-> p.sport, dport |-> p.dport, proto |-> p.proto]
ConnReply(p) ==
  [saddr |-> p.daddr, daddr |-> p.saddr, sport |-> p.dport, dport |-> p.sport, proto |-> p.proto]

-----------------------------------------------------------------------------
(* What a run leaves.                                                      *)

\* The packet goes out: to a pod that no further program guards, to the
\* host's sockets, or by a device.
ToPod(m) ==
  /\ m.err = ""
  /\ \/ m.verdict = "REDIRECT" /\ m.to \in DOMAIN Pods
          /\ "USE_BPF_PROG_FOR_INGRESS_POLICY" \notin build
     \/ m.verdict = "STACK" /\ m.hook = "to_container"
ToHost(m) ==
  /\ m.err = "" /\ m.verdict = "STACK" /\ m.pkt.daddr \in HostIps
  /\ m.hook \in {"from_netdev", "from_overlay", "to_host", "from_container"}
ToWire(m) ==
  /\ m.err = ""
  /\ \/ m.verdict = "STACK" /\ m.hook \in {"to_netdev", "to_overlay"}
     \/ m.verdict = "TX" /\ m.hook \in {"from_netdev", "xdp"}
     \/ m.verdict = "REDIRECT" /\ m.hook = "xdp"
Leaving(m) == ToPod(m) \/ ToHost(m) \/ ToWire(m)
\* What the sender asked for: a request with a DSR option was sent to the
\* service the option names.
Asked(a) ==
  LET svc == IF a.tun # None THEN a.tun.opt ELSE a.pkt.dsropt IN
  IF svc = None THEN Conn(a.pkt)
  ELSE [Conn(a.pkt) EXCEPT !.daddr = svc.addr, !.dport = svc.port]
FromOutside(a) == a.hook \in {"from_netdev", "from_overlay", "xdp"}
FromHost(a) == a.hook \in {"to_netdev", "from_host"}
IsReply(a) == ConnReply(a.pkt) \in DOMAIN served
\* A TCP connection is asked for, and its service named, by the SYN.
Opening(p) == p.proto = "TCP" => "SYN" \in p.tcp /\ "ACK" \notin p.tcp
\* A request of a pod has passed the pod's egress policy; one of the host has
\* passed the host firewall, or has gone where it was sent.
PodOpens(m, at) ==
  /\ m.hook = "from_container" /\ at \in {"tail_handle_ipv4_cont", "tail_handle_ipv6_cont"}
  /\ m.err \in {"", "DROP_TTL_EXCEEDED"} /\ m.ret \notin Replies
HostOpens(m, at) ==
  /\ FromHost(m.arrival) /\ ~IsReply(m.arrival)
  /\ \/ ToWire(m) \/ ToPod(m)
     \/ at \in {"tail_handle_ipv4_cont_from_host", "tail_handle_ipv6_cont_from_host"} /\ m.err = ""
\* The run of CPU c was at program `at' ("" for a hook's) and is now m.
Leaves(c, m, at) ==
  /\ run' = [run EXCEPT ![c] = [f \in RunFields |-> m[f]]]
  /\ maps' = [f \in DOMAIN maps |-> m[f]]
  /\ served' = IF Leaving(m) /\ FromOutside(m.arrival) /\ ~IsReply(m.arrival) /\ Opening(m.pkt)
               THEN MapUpdate(served, Conn(m.pkt), Asked(m.arrival)) ELSE served
  /\ opened' = IF PodOpens(m, at) \/ HostOpens(m, at)
               THEN MapUpdate(opened, Conn(IF HostOpens(m, at) THEN m.arrival.pkt ELSE m.pkt),
                                                   [addr |-> m.arrival.pkt.daddr,
                                                    port |-> m.arrival.pkt.dport,
                                                    by |-> m.arrival.at])
               ELSE opened

-----------------------------------------------------------------------------
(* The kernel between programs.                                            *)

Done(r) == r.err # "" \/ r.verdict # ""
\* Where the stack routes a packet: to the host's own sockets (None), or to
\* the interface of its route.
StackRoute(m) ==
  IF m.pkt.daddr \in HostIps \/ ~Has(m.routes, m.pkt.daddr) THEN None ELSE m.routes[m.pkt.daddr].oif
\* The hook the packet meets next, None if it meets no other one.  With a
\* program on the pods' interfaces to check the policy, pods are routed to
\* directly, else by cilium_host, whose peer cilium_net takes what
\* cil_from_host passes.
Onward(m, hook) ==
  LET from_stack == m.verdict = "STACK"
      to == IF from_stack THEN StackRoute(m) ELSE m.to
  IN  CASE m.err # "" \/ m.verdict \notin {"REDIRECT", "STACK"} -> None
        [] m.err = "" /\ m.verdict = "REDIRECT" /\ hook = "xdp" -> None
        [] m.err = "" /\ from_stack /\ hook \in {"to_container", "to_netdev", "to_overlay"} -> None
        [] m.err = "" /\ from_stack /\ hook = "xdp" -> [hook |-> "from_netdev", at |-> m.ifindex]
        [] m.err = "" /\ from_stack /\ hook = "from_host" -> [hook |-> "to_host", at |-> HOST_IFINDEX]
        [] OTHER ->
             CASE to = HOST_IFINDEX -> [hook |-> "to_host", at |-> to]
               [] to = ENCAP_IFINDEX -> [hook |-> "to_overlay", at |-> to]
               [] to \in Netdevs -> [hook |-> "to_netdev", at |-> to]
               [] to \in DOMAIN Pods ->
                    IF "USE_BPF_PROG_FOR_INGRESS_POLICY" \in build THEN [hook |-> "to_container", at |-> to]
                    ELSE IF from_stack THEN [hook |-> "from_host", at |-> HOST_IFINDEX] ELSE None
               [] OTHER -> None
\* The packet keeps its mark, its tunnel metadata and the meta slots.
HandedOver(r, next) ==
  [FreshRun([r.arrival EXCEPT !.hook = next.hook, !.at = next.at], r.rnd, r.rnd2, r.full)
     EXCEPT !.arrival = r.arrival, !.pkt = r.pkt, !.mark = r.mark, !.cb = r.cb, !.tun = r.tun,
            !.tcidx = r.tcidx, !.agg = r.agg, !.calls = r.calls,
            !.xferflags = IF r.hook = "xdp" THEN r.xferflags ELSE {}]

-----------------------------------------------------------------------------
(* The maps.  One table stands for the maps of both address families.      *)

\* Written by the programs.
CtMaps == [ct |-> <<>>, frag |-> <<>>]
SnatMaps == [nat |-> <<>>, aff |-> <<>>, neigh |-> <<>>]
RateMaps == [throttle |-> <<>>, bucket |-> None, srstate |-> <<>>]
Maps0 ==
  [ct |-> CtMaps.ct, frag |-> CtMaps.frag, nat |-> SnatMaps.nat, aff |-> SnatMaps.aff,
   neigh |-> SnatMaps.neigh, throttle |-> RateMaps.throttle, bucket |-> RateMaps.bucket,
   srstate |-> RateMaps.srstate]

\* Written by the agent.
ServiceMaps ==
  [services |-> <<>>, backends |-> <<>>, revnat |-> <<>>, affmatch |-> {}, srcrange |-> {},
   lut |-> <<>>, health |-> <<>>, sel |-> "RANDOM"]
EndpointMaps == [eps |-> <<>>, tunnels |-> <<>>]
PolicyMaps ==
  [policy |-> [x \in DOMAIN Pods \cup {HostSelf.lxc_id} |-> <<>>], auths |-> <<>>, alive |-> None]
IdentityMaps == [ipcache |-> <<>>, encrypt |-> 0, nodes |-> <<>>]
FeatureMaps ==
  [l2resp |-> {}, egressgw |-> <<>>, vrfs |-> <<>>, srpolicies |-> <<>>, sids |-> {},
   vteps |-> <<>>, worldcidrs |-> {}, masqagent |-> {}]
PrefilterMaps == [prefilter |-> {}]
\* Of the kernel: sockets, routes and the VLANs a device lets in.
KernelTables == [socks |-> {}, routes |-> <<>>, vlans |-> {}]
NoTables ==
  ServiceMaps @@ EndpointMaps @@ PolicyMaps @@ IdentityMaps @@ FeatureMaps @@ PrefilterMaps @@ KernelTables

\* What the entries of the maps are made of.
TupleFields == {"saddr", "daddr", "sport", "dport", "nexthdr", "flags"}
EndpointFields == [eps |-> {"lxc_id", "sec_id", "flags"}, tunnels |-> {"ip4", "key"}]
IdentityFields == [ipcache |-> {"sec_identity", "tunnel_endpoint", "key"}]
PolicyKeyFields == {"id", "egress", "proto", "dport"}
PolicyEntryFields == {"deny", "auth_type", "proxy_port"}
ServiceFields ==
  [services |-> {"count", "flags", "rev_nat_index", "slots", "affinity_timeout", "l7_lb_proxy_port"},
   backends |-> {"address", "port", "flags"}, revnat |-> {"address", "port"}]
ServiceFlags ==
  {"EXTERNAL_IP", "NODEPORT", "EXT_LOCAL_SCOPE", "HOSTPORT", "AFFINITY", "LOADBALANCER", "ROUTABLE",
   "SOURCE_RANGE", "LOCALREDIRECT", "NAT_46X64", "L7LOADBALANCER", "LOOPBACK", "INT_LOCAL_SCOPE",
   "TWO_SCOPES"}
BackendStates == {"ACTIVE", "TERMINATING", "QUARANTINED", "MAINTENANCE"}
AffinityFields == {"last_used", "backend_id"}
CtStatuses == {"CT_NEW", "CT_ESTABLISHED", "CT_REPLY", "CT_RELATED", "CT_REOPENED"}
\* Why a packet is dropped; the last is not a Cilium code.
DropReasons ==
  {"DROP_INVALID_SIP", "DROP_POLICY", "DROP_INVALID", "DROP_CT_INVALID_HDR", "DROP_FRAG_NEEDED",
   "DROP_CT_UNKNOWN_PROTO", "DROP_UNKNOWN_L3", "DROP_UNKNOWN_L4", "DROP_UNKNOWN_ICMP_CODE",
   "DROP_NO_TUNNEL_KEY", "DROP_UNKNOWN_TARGET", "DROP_UNROUTABLE", "DROP_CSUM_L4",
   "DROP_CT_CREATE_FAILED", "DROP_INVALID_EXTHDR", "DROP_FRAG_NOSUPPORT", "DROP_NO_SERVICE",
   "DROP_UNSUPP_SERVICE_PROTO", "DROP_NO_TUNNEL_ENDPOINT", "DROP_NAT_46X64_DISABLED",
   "DROP_EDT_HORIZON", "DROP_UNKNOWN_CT", "DROP_UNSUPPORTED_L2", "DROP_NAT_NO_MAPPING",
   "DROP_NAT_UNSUPP_PROTO", "DROP_NO_FIB", "DROP_ENCAP_PROHIBITED", "DROP_INVALID_IDENTITY",
   "DROP_IS_CLUSTER_IP", "DROP_FRAG_NOT_FOUND", "DROP_FORBIDDEN_ICMP6", "DROP_NOT_IN_SRC_RANGE",
   "DROP_PROXY_LOOKUP_FAILED", "DROP_PROXY_UNKNOWN_PROTO", "DROP_POLICY_DENY", "DROP_VLAN_FILTERED",
   "DROP_INVALID_VNI", "DROP_INVALID_TC_BUFFER", "DROP_NAT46", "DROP_NAT64",
   "DROP_POLICY_AUTH_REQUIRED", "DROP_NO_EGRESS_GATEWAY", "DROP_UNENCRYPTED_TRAFFIC",
   "DROP_TTL_EXCEEDED", "DROP_NO_NODE_ID", "DROP_RATE_LIMITED", "CTX_ACT_DROP"}
\* Every entry of table t is a record of these fields.
EntriesHave(t, fields) == \A k \in DOMAIN t : DOMAIN t[k] = fields

-----------------------------------------------------------------------------
(* Actions.                                                                *)

Init ==
  /\ build \in Builds
  /\ tables = Tables0
  /\ maps = Maps0
  /\ now = 0
  /\ run = [c \in Cpus |-> None]
  /\ left = [arrivals |-> MaxArrivals, changes |-> MaxChanges]
  /\ opened = <<>>
  /\ served = <<>>

\* With acceleration, or a prefilter, a network device has an XDP program.
FirstHook(a) ==
  IF a.hook = "from_netdev" /\ build \cap {"ENABLE_NODEPORT_ACCELERATION", "ENABLE_PREFILTER"} # {}
  THEN [a EXCEPT !.hook = "xdp"] ELSE a
Arriving ==
  {FreshRun(FirstHook(a), rnd[1], rnd[2], full) : a \in Arrivals(build), rnd \in Rnds, full \in Fulls}
\* The kernel takes a packet on to the next hook, if there is one.
Handed(r) ==
  LET next == Onward(Machine(r), r.hook) IN IF next = None THEN {} ELSE {HandedOver(r, next)}

\* A CPU runs one program: of the hook a packet arrives at or is handed to,
\* or the one that was tail-called.
Step(c) ==
  /\ run[c] = None => left.arrivals > 0
  /\ \E r \in IF run[c] = None THEN Arriving ELSE IF Done(run[c]) THEN Handed(run[c]) ELSE {run[c]} :
       Leaves(c, Execute(r), r.next)
  /\ left' = IF run[c] = None THEN [left EXCEPT !.arrivals = @ - 1] ELSE left
  /\ UNCHANGED <<build, tables, now>>
\* The packet meets no other program.
Leave(c) ==
  /\ run[c] # None
  /\ Done(run[c]) /\ Handed(run[c]) = {}
  /\ run' = [run EXCEPT ![c] = None]
  /\ UNCHANGED <<build, tables, maps, now, left, opened, served>>

\* The agent replaces tables.
Agent ==
  /\ left.changes > 0
  /\ tables' \in Changes(tables)
  /\ left' = [left EXCEPT !.changes = @ - 1]
  /\ UNCHANGED <<build, maps, now, run, opened, served>>

\* The key of a pod's connection in the connection tracking map.
CtKey(conn) ==
  [saddr |-> conn.daddr, daddr |-> conn.saddr, sport |-> conn.sport, dport |-> conn.dport,
   nexthdr |-> conn.proto, flags |-> {}]

\* The agent's garbage collector removes an entry that has expired, while no
\* program runs.
Collect ==
  /\ \A c \in Cpus : run[c] = None
  /\ \E k \in DOMAIN maps.ct :
       /\ maps.ct[k].lifetime < now
       /\ maps' = [maps EXCEPT !.ct = MapDelete(@, k)]
       /\ opened' = [conn \in {x \in DOMAIN opened : CtKey(x) # k} |-> opened[conn]]
  /\ UNCHANGED <<build, tables, now, run, left, served>>

Tick ==
  /\ now < MaxTime
  /\ \A c \in Cpus : run[c] = None
  /\ now' = now + 1
  /\ UNCHANGED <<build, tables, maps, run, left, opened, served>>

Next == (\E c \in Cpus : Step(c) \/ Leave(c)) \/ Agent \/ Collect \/ Tick
Spec == Init /\ [][Next]_vars

-----------------------------------------------------------------------------
(* Properties.                                                             *)

TypeOK ==
  /\ build \in Builds
  /\ now \in 0..MaxTime
  /\ \A c \in Cpus : run[c] # None =>
       /\ run[c].hook \in Hooks
       /\ run[c].verdict \in {"", "STACK", "REDIRECT", "TX", "PROXY"}
       /\ run[c].err \in DropReasons \cup {""}
       /\ run[c].ret \in CtStatuses \cup {""}
  /\ DOMAIN tables = DOMAIN NoTables /\ DOMAIN maps = DOMAIN Maps0
  /\ \A t \in DOMAIN EndpointFields : EntriesHave(tables[t], EndpointFields[t])
  /\ \A t \in DOMAIN IdentityFields : EntriesHave(tables[t], IdentityFields[t])
  /\ \A t \in DOMAIN ServiceFields : EntriesHave(tables[t], ServiceFields[t])
  /\ \A k \in DOMAIN tables.services : tables.services[k].flags \subseteq ServiceFlags
  /\ \A k \in DOMAIN tables.backends : tables.backends[k].flags \in BackendStates
  /\ \A x \in DOMAIN tables.policy :
       /\ EntriesHave(tables.policy[x], PolicyEntryFields)
       /\ \A k \in DOMAIN tables.policy[x] : DOMAIN k = PolicyKeyFields
  /\ EntriesHave(maps.aff, AffinityFields)
  /\ \A k \in DOMAIN maps.ct \cup DOMAIN maps.nat : DOMAIN k = TupleFields
  /\ \A k \in DOMAIN maps.ct :
       /\ DOMAIN maps.ct[k] = DOMAIN ct_entry
       /\ maps.ct[k].lifetime \in 0..now + CT_CONNECTION_LIFETIME_TCP + CT_SERVICE_LIFETIME_TCP
  /\ left \in [arrivals : 0..MaxArrivals, changes : 0..MaxChanges]

\* The endpoint that the step of CPU c hands a packet to, None if it does not.
DeliversTo(c) ==
  LET r == run'[c] IN
  IF r = None \/ r = run[c] THEN None
  ELSE IF ToPod(r) THEN IF r.verdict = "REDIRECT" THEN r.to ELSE r.ifindex
  ELSE IF ToHost(r) THEN HostSelf.lxc_id
  ELSE None
\* The packet before and after that step.
Before(c) == IF run[c] = None THEN run'[c].arrival.pkt ELSE run[c].pkt
After(c) == run'[c].pkt
\* An entry of the endpoint's policy that lets the packet in.
Admits(endpoint, id, p, k) ==
  /\ ~k.egress /\ ~tables.policy[endpoint][k].deny
  /\ k.id \in {id, "UNKNOWN"}
  /\ k.proto \in {p.proto, "any"}
  /\ k.dport \in {p.dport, AnyPort}
\* Who sent it: a pod of this node, a pod another node vouches for, the
\* host, or whom the address belongs to.
SenderId(a) ==
  IF a.at \in DOMAIN Pods THEN Pods[a.at].sec_id
  ELSE IF FromHost(a) THEN "HOST"
  ELSE IF a.tun # None THEN a.tun.id
  ELSE IF Has(tables.ipcache, a.pkt.saddr) THEN tables.ipcache[a.pkt.saddr].sec_identity ELSE "WORLD"
Admitted(c, endpoint) ==
  LET p == Before(c) IN
  \/ \E k \in DOMAIN tables.policy[endpoint] : Admits(endpoint, SenderId(run'[c].arrival), p, k)
  \/ ConnReply(p) \in DOMAIN opened
  \/ p.proto = "ICMP" /\ \E conn \in DOMAIN opened : conn.saddr = p.daddr /\ conn.daddr = p.saddr

\* A pod receives only what its ingress policy admits at that moment, and
\* the replies, and the ICMP errors, of the connections its own egress
\* policy let it open (bpf_lxc.c ipv4_policy, ipv6_policy).
PolicyEnforced ==
  [][\A c \in Cpus : DeliversTo(c) \in DOMAIN Pods => Admitted(c, DeliversTo(c))]_vars

\* With the host firewall, the same of the host's own sockets, by whichever
\* device and program a packet comes to them (host_firewall.h; bpf_host.c
\* handle_ipv4, cil_to_host, to_host_from_lxc).
HostGuarded ==
  [][\A c \in Cpus : DeliversTo(c) = HostSelf.lxc_id /\ "ENABLE_HOST_FIREWALL" \in build
       => Admitted(c, HostSelf.lxc_id)]_vars

\* A reply that reaches the pod which opened the connection comes from the
\* address the pod sent its last request to: the service's, if it was a
\* service (lb.h lb4_rev_nat, lb4_local; bpf_lxc.c lxc egress entry).
RepliesFromPeer ==
  [][\A c \in Cpus : DeliversTo(c) # None =>
       LET q == ConnReply(Before(c)) IN
       (IF q \in DOMAIN opened THEN opened[q].by = DeliversTo(c) ELSE FALSE)
         => /\ After(c).saddr = opened[q].addr
            /\ After(c).sport = opened[q].port]_vars

\* A reply to a request that came from outside leaves the node, to whoever
\* it goes, as the reply to what the sender sent: from the service's address
\* if the request was for a service, whatever translations the request and
\* the reply went through (nodeport.h nodeport_lb4, rev_dnat, nat.h, DSR).
RepliesMatchRequests ==
  [][\A c \in Cpus : run'[c] # None =>
       LET r == run'[c]
           q == ConnReply(r.arrival.pkt)
       IN  r # run[c] /\ Leaving(r) /\ q \in DOMAIN served => ConnReply(r.pkt) = served[q]]_vars

\* Once a client has opened a connection with a SYN that carries no DSR
\* information, the pod's replies to it are not rewritten to a service's
\* address, whatever an earlier connection of the same ports was
\* (nodeport.h nodeport_extract_dsr_v4: "If it's reopened, avoid sending
\* subsequent traffic down the DSR path").
ReopenedLeavesDsr ==
  [][\A c \in Cpus : run'[c] # None =>
       LET r == run'[c]
           q == ConnReply(r.arrival.pkt)
       IN  r # run[c] /\ ToWire(r) /\ (IF q \in DOMAIN served THEN served[q] = q ELSE FALSE)
             => Conn(r.pkt) = Conn(r.arrival.pkt)]_vars

\* Programs reach each other by tail calls, of which the kernel allows 33
\* (MAX_TAIL_CALL_CNT): recirculation ends long before.
TailCallsEnd == \A c \in Cpus : run[c] # None => run[c].calls <= 12

\* An entry of a connection that has not seen a packet after the SYN, or
\* whose two sides have closed it, is on its way out: no packet keeps it
\* alive for longer (conntrack.h ct_update_timeout, ct_lookup_tuple).
DyingEntriesDie ==
  \A k \in DOMAIN maps.ct : LET e == maps.ct[k] IN
    /\ k.nexthdr = "TCP" /\ ~e.seen_non_syn => e.lifetime <= now + CT_SYN_TIMEOUT
    /\ ~ct_entry_alive(e) => e.lifetime <= now + CT_CLOSE_TIMEOUT
================================================================================
