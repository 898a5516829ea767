---------------------------------- MODULE Nat ----------------------------------
(***************************************************************************)
(* Source NAT of the Cilium datapath (examples/cilium-lxc/bpf/lib/nat.h).  *)
(* Fields of m used here:                                                  *)
(*   nat       SNAT_MAPPING_IPV4 and 6: tuple -> [addr, port, needs_ct].   *)
(*             An original tuple has no flags, a reverse one TUPLE_F_IN    *)
(*   natent    the nat entry the program found or created                  *)
(*   target    struct ipv4_nat_target                                      *)
(*   rnd, rnd2 the two values get_prandom_u32() gives this run             *)
(*   masqagent IP_MASQ_AGENT_IPV4                                          *)
(* Unlike those of connection tracking, a NAT tuple has its ports in the   *)
(* packet's order.  The err "NAT_PUNT_TO_STACK" means that the packet      *)
(* leaves untranslated.  Maps per cluster are left out.                    *)
(***************************************************************************)
EXTENDS Forward, FiniteSetsExt

CONSTANTS IPV4_MASQUERADE, IPV6_MASQUERADE, NAT_MIN_EGRESS, SNAT_COLLISION_RETRIES,
          SNAT_EXCLUSION_DST_CIDR

ASSUME RetriesAssumption == SNAT_COLLISION_RETRIES \in Nat \ {0}

Punt(m) == Drop(m, "NAT_PUNT_TO_STACK")
\* A lookup with a tuple and a ct_state of its own.
Scoped(m, r) == [r EXCEPT !.tuple = m.tuple, !.state = m.state, !.ret = m.ret]

-----------------------------------------------------------------------------
(* Ports.                                                                  *)

__snat_clamp_port_range(start, end, val) == (val % (end - start)) + start
__snat_try_keep_port(start, end, val, rnd) ==
  IF val \in start..end THEN val ELSE __snat_clamp_port_range(start, end, rnd)

__snat_lookup(m, t) == IF Has(m.nat, t) THEN m.nat[t] ELSE None

\* Both entries are created only where there is none (BPF_NOEXIST); when the
\* second is refused the first is taken back.
__snat_update(m, otuple, ostate, rtuple, rstate) ==
  IF m.full \/ Has(m.nat, rtuple) THEN Drop(m, "DROP_NAT_NO_MAPPING")
  ELSE IF m.relfull \/ Has(m.nat, otuple) THEN Drop(m, "DROP_NAT_NO_MAPPING")
  ELSE [m EXCEPT !.nat = MapUpdate(MapUpdate(@, rtuple, rstate), otuple, ostate)]
snat_v6_update(m, otuple, ostate, rtuple, rstate) ==
  __snat_update(m, otuple, ostate, rtuple, rstate)

snat_v4_lookup(m, t) == __snat_lookup(m, t)
snat_v6_lookup(m, t) == __snat_lookup(m, t)

\* The port tried at each turn of the loop: the flow's own, then a random
\* one, then the clamped successor of the one before.
snat_port_tried(m, sport) ==
  LET t == m.target
      p[i \in 0..SNAT_COLLISION_RETRIES - 1] ==
        CASE i = 0 -> __snat_try_keep_port(t.min_port, t.max_port, sport, m.rnd)
          [] i = 1 -> __snat_clamp_port_range(t.min_port, t.max_port, m.rnd2)
          [] OTHER -> __snat_clamp_port_range(t.min_port, t.max_port, p[i - 1] + 1)
  IN  p

\* Mutant: the port is not looked up, and the entries overwrite others.
snat_v4_new_mapping_blind(m) ==
  LET o == m.tuple
      port == snat_port_tried(m, o.sport)[0]
      rtuple == [saddr |-> o.daddr, daddr |-> m.target.addr, sport |-> o.dport,
                 dport |-> port, nexthdr |-> o.nexthdr, flags |-> {"TUPLE_F_IN"}]
      ostate == [addr |-> m.target.addr, port |-> port, needs_ct |-> m.target.needs_ct]
      rstate == [addr |-> o.saddr, port |-> o.sport, needs_ct |-> m.target.needs_ct]
  IN  [m EXCEPT !.natent = ostate,
                !.nat = MapUpdate(MapUpdate(@, rtuple, rstate), o, ostate)]
snat_v4_new_mapping(m) ==
  LET o == m.tuple
      tried == snat_port_tried(m, o.sport)
      RTuple(port) == [saddr |-> o.daddr, daddr |-> m.target.addr, sport |-> o.dport,
                       dport |-> port, nexthdr |-> o.nexthdr, flags |-> {"TUPLE_F_IN"}]
      free == {i \in DOMAIN tried : __snat_lookup(m, RTuple(tried[i])) = None}
      port == tried[Min(free)]
      ostate == [addr |-> m.target.addr, port |-> port, needs_ct |-> m.target.needs_ct]
      rstate == [addr |-> o.saddr, port |-> o.sport, needs_ct |-> m.target.needs_ct]
  IN  IF free = {} THEN Drop(m, "DROP_NAT_NO_MAPPING")
      ELSE __snat_update([m EXCEPT !.natent = ostate], o, ostate, RTuple(port), rstate)
snat_v6_new_mapping(m) == snat_v4_new_mapping(m)

-----------------------------------------------------------------------------
(* Mappings.                                                               *)

\* A flow of the node itself also has a connection tracking entry, so that
\* the garbage collector knows when its mapping can go.
snat_handle_mapping(m, Lazy(_), Create(_), New(_)) ==
  LET found == __snat_lookup(m, m.tuple)
      l == Lazy([m EXCEPT !.tuple = ct_tuple_swap_addrs(@), !.state = ct_state])
      c == IF l.err = "" /\ l.ret = "CT_NEW" THEN Create(l) ELSE l
      m1 == IF m.target.needs_ct THEN Scoped(m, c) ELSE m
  IN  IF m1.err # "" THEN m1
      ELSE IF found # None THEN [m1 EXCEPT !.natent = found]
      ELSE New(m1)
snat_v4_nat_handle_mapping(m) ==
  LET Lazy(n) == ct_lazy_lookup4(n, "CT_EGRESS", "SCOPE_FORWARD", {})
      Create(n) == ct_create4(n, "CT_EGRESS", ct_state, FALSE, FALSE, FALSE)
  IN  snat_handle_mapping(m, Lazy, Create, snat_v4_new_mapping)
snat_v6_nat_handle_mapping(m) ==
  LET Lazy(n) == ct_lazy_lookup6(n, "CT_EGRESS", "SCOPE_FORWARD", {})
      Create(n) == ct_create6(n, "CT_EGRESS", ct_state, FALSE, FALSE, FALSE)
  IN  snat_handle_mapping(m, Lazy, Create, snat_v6_new_mapping)

snat_rev_handle_mapping(m, Lazy(_)) ==
  LET found == __snat_lookup(m, m.tuple)
      orig == [m.tuple EXCEPT !.daddr = found.addr, !.dport = found.port]
      l == Lazy([m EXCEPT !.tuple = ct_tuple_swap_ports(orig), !.state = ct_state])
      m1 == IF found.needs_ct THEN Scoped(m, l) ELSE m
  IN  IF found = None THEN Drop(m, "DROP_NAT_NO_MAPPING")
      ELSE IF m1.err # "" THEN m1 ELSE [m1 EXCEPT !.natent = found]
snat_v4_rev_nat_handle_mapping(m) ==
  LET Lazy(n) == ct_lazy_lookup4(n, "CT_INGRESS", "SCOPE_REVERSE", {})
  IN  snat_rev_handle_mapping(m, Lazy)
snat_v6_rev_nat_handle_mapping(m) ==
  LET Lazy(n) == ct_lazy_lookup6(n, "CT_INGRESS", "SCOPE_REVERSE", {})
  IN  snat_rev_handle_mapping(m, Lazy)

\* h is the packet or the header an ICMP error quotes.  The address has been
\* written when a port that cannot be changed is met.
RewriteSrc(h, addr) == [h EXCEPT !.saddr = addr]
RewriteDst(h, addr) == [h EXCEPT !.daddr = addr]
RewritePort(h, side, nexthdr, port) ==
  IF nexthdr = "ICMP" THEN [h EXCEPT !.id = port]
  ELSE IF side = "src" THEN [h EXCEPT !.sport = port] ELSE [h EXCEPT !.dport = port]
snat_v4_rewrite_headers(m, inner, side, nexthdr, hasl4, old, new) ==
  LET h == IF inner THEN m.pkt.inner ELSE m.pkt
      h1 == IF side = "src" THEN RewriteSrc(h, new.addr) ELSE RewriteDst(h, new.addr)
      Put(x) == IF inner THEN [m EXCEPT !.pkt.inner = x] ELSE [m EXCEPT !.pkt = x]
  IN  IF old = new THEN m
      ELSE IF ~hasl4 \/ old.port = new.port THEN Put(h1)
      ELSE IF nexthdr = "SCTP" /\ On(m, "ENABLE_SCTP") THEN Drop(Put(h1), "DROP_CSUM_L4")
      ELSE IF nexthdr \notin {"TCP", "UDP", "ICMP"} THEN Drop(Put(h1), "DROP_UNKNOWN_L4")
      ELSE Put(RewritePort(h1, side, nexthdr, new.port))
snat_v6_rewrite_headers(m, inner, side, nexthdr, old, new) ==
  snat_v4_rewrite_headers(m, inner, side, nexthdr, TRUE, old, new)

At(addr, port) == [addr |-> addr, port |-> port]
EntryAt(e) == At(e.addr, e.port)

snat_v4_nat_can_skip(m) ==
  ~m.target.egress_gateway /\ ~m.target.from_local_endpoint /\ m.tuple.sport < NAT_MIN_EGRESS
snat_v6_nat_can_skip(m) == ~m.target.from_local_endpoint /\ m.tuple.sport < NAT_MIN_EGRESS
snat_v4_rev_nat_can_skip(m) == m.tuple.dport \notin m.target.min_port..m.target.max_port
snat_v6_rev_nat_can_skip(m) == m.tuple.dport \notin m.target.min_port..m.target.max_port

\* The reply of a backend that answers in the service's name.
snat_v4_create_dsr(m, t, to_saddr, to_sport) ==
  LET tmp == [t EXCEPT !.flags = {}, !.sport = t.dport, !.dport = t.sport] IN
  IF m.full THEN Drop(m, "DROP_NAT_NO_MAPPING")
  ELSE [m EXCEPT !.nat = MapUpdate(@, tmp, [addr |-> to_saddr, port |-> to_sport, needs_ct |-> FALSE])]
snat_v6_create_dsr(m, t, to_saddr, to_sport) == snat_v4_create_dsr(m, t, to_saddr, to_sport)

snat_v4_init_tuple(m, flags) == [m EXCEPT !.tuple = [PktTuple(m.pkt) EXCEPT !.flags = flags]]
snat_v6_init_tuple(m, flags) == [m EXCEPT !.tuple = [PktTuple(m.pkt) EXCEPT !.flags = flags]]

-----------------------------------------------------------------------------
(* Which packets are translated.                                           *)

\* What is the same in both families once the endpoint's side is known.
masquerade_rest(m, masq, local_ep, remote_ep, is_reply, agent) ==
  LET d == m.tuple.daddr IN
  IF \/ d \in SNAT_EXCLUSION_DST_CIDR
     \/ local_ep # None /\ "HOST" \in local_ep.flags
     \/ remote_ep = None
     \/ On(m, agent) /\ d \in m.masqagent
     \/ ~On(m, "TUNNEL_MODE") /\ identity_is_remote_node(remote_ep.sec_identity)
     \/ is_reply \/ local_ep = None
  THEN Punt(m) ELSE [m EXCEPT !.target.addr = masq]
ExtractForMasquerade(m, Extract(_)) ==
  [Extract(m) EXCEPT !.hasl4 = m.hasl4, !.target.from_local_endpoint = TRUE]
WithoutPorts(m) == [m EXCEPT !.tuple.sport = 0, !.tuple.dport = 0]

snat_v4_needs_masquerade(m) ==
  LET local_ep == lookup_ip4_endpoint(m, m.tuple.saddr)
      remote_ep == lookup_ip4_remote_endpoint(m, m.tuple.daddr)
      x == IF local_ep = None THEN m ELSE ExtractForMasquerade(m, ct_extract_ports4)
      is_reply == local_ep # None /\ ct_is_reply4(x, x.tuple)
      m1 == IF local_ep = None THEN m ELSE WithoutPorts(x)
      egress_ip == egress_gw_snat_needed_hook(m1, m.tuple.saddr, m.tuple.daddr)
      target == [m1.target EXCEPT !.addr = IPV4_MASQUERADE, !.needs_ct = TRUE]
  IN  IF ~(On(m, "ENABLE_MASQUERADE_IPV4") /\ On(m, "IS_BPF_HOST")) THEN Punt(m)
      ELSE IF m.tuple.saddr = IPV4_MASQUERADE THEN [m EXCEPT !.target = target]
      ELSE IF x.err # "" THEN x
      ELSE IF ~is_reply /\ egress_ip # None
      THEN [m1 EXCEPT !.target.addr = egress_ip, !.target.egress_gateway = TRUE,
                      !.target.needs_ct = @ \/ local_ep = None]
      ELSE masquerade_rest(m1, IPV4_MASQUERADE, local_ep, remote_ep, is_reply,
                           "ENABLE_IP_MASQ_AGENT_IPV4")
snat_v6_needs_masquerade(m) ==
  LET local_ep == lookup_ip6_endpoint(m, m.tuple.saddr)
      remote_ep == lookup_ip6_remote_endpoint(m, m.tuple.daddr)
      x == IF local_ep = None THEN m ELSE ExtractForMasquerade(m, ct_extract_ports6)
      is_reply == local_ep # None /\ ct_is_reply4(x, x.tuple)
      m1 == IF local_ep = None THEN m ELSE WithoutPorts(x)
  IN  IF ~(On(m, "ENABLE_MASQUERADE_IPV6") /\ On(m, "IS_BPF_HOST")) THEN Punt(m)
      ELSE IF m.tuple.saddr = IPV6_MASQUERADE
      THEN [m EXCEPT !.target.addr = IPV6_MASQUERADE, !.target.needs_ct = TRUE]
      ELSE IF x.err # "" THEN x
      ELSE masquerade_rest(m1, IPV6_MASQUERADE, local_ep, remote_ep, is_reply,
                           "ENABLE_IP_MASQ_AGENT_IPV6")

-----------------------------------------------------------------------------
(* Out.                                                                    *)

\* The tuple of the packet an ICMP error quotes, seen from the error's
\* receiver; echo is the type the quoted message must have.
QuotedTuple(m, flags, echo) ==
  LET i == m.pkt.inner IN
  [saddr |-> i.daddr, daddr |-> i.saddr, nexthdr |-> i.proto, flags |-> flags,
   sport |-> IF i.proto = "ICMP" THEN IF echo = "echoreply" THEN i.id ELSE 0 ELSE i.dport,
   dport |-> IF i.proto = "ICMP" THEN IF echo = "echo" THEN i.id ELSE 0 ELSE i.sport]
QuotedOk(m, echo) == m.pkt.inner # None /\ (m.pkt.inner.proto = "ICMP" => m.pkt.inner.icmp = echo)

snat_v4_nat_handle_icmp_frag_needed(m) ==
  LET t == QuotedTuple(m, {}, "echoreply")
      e == snat_v4_lookup(m, t)
      Outer(n) == snat_v4_rewrite_headers(n, FALSE, "src", "ICMP", m.hasl4, At(t.saddr, 0), At(e.addr, 0))
  IN  IF ~QuotedOk(m, "echoreply") THEN Drop(m, "DROP_INVALID")
      ELSE IF t.nexthdr \notin L4Protos(m) \cup {"ICMP"} THEN Drop(m, "DROP_UNKNOWN_L4")
      ELSE IF e = None THEN Punt(m)
      ELSE Then(snat_v4_rewrite_headers(m, TRUE, "dst", t.nexthdr, TRUE, At(t.saddr, t.sport),
                                        EntryAt(e)), Outer)

\* The program's tuple follows the packet only when update_tuple is set.
__snat_v4_nat(m, update_tuple) ==
  LET t == m.tuple
      Rewrite(n) ==
        LET r == snat_v4_rewrite_headers(n, FALSE, "src", t.nexthdr, n.hasl4,
                                         At(t.saddr, t.sport), EntryAt(n.natent))
        IN  IF update_tuple THEN [r EXCEPT !.tuple.saddr = n.natent.addr,
                                           !.tuple.sport = n.natent.port] ELSE r
  IN  Then(snat_v4_nat_handle_mapping(m), Rewrite)
__snat_v6_nat(m, update_tuple) ==
  LET t == m.tuple
      Rewrite(n) ==
        LET r == snat_v6_rewrite_headers(n, FALSE, "src", t.nexthdr,
                                         At(t.saddr, t.sport), EntryAt(n.natent))
        IN  IF update_tuple THEN [r EXCEPT !.tuple.saddr = n.natent.addr,
                                           !.tuple.sport = n.natent.port] ELSE r
  IN  Then(snat_v6_nat_handle_mapping(m), Rewrite)

\* The ports of the packet in its own order.
NatPorts(m, Load(_)) ==
  LET r == Load(m) IN
  IF r.err # "" THEN Drop(r, "DROP_INVALID") ELSE [r EXCEPT !.tuple = ct_tuple_swap_ports(@)]

snat_v4_nat(m) ==
  LET Nat4(n) == IF snat_v4_nat_can_skip(n) THEN Punt(n) ELSE __snat_v4_nat(n, FALSE)
      p == m.pkt
  IN  IF m.tuple.nexthdr \in L4Protos(m) THEN Then(NatPorts(m, ipv4_load_l4_ports), Nat4)
      ELSE IF m.tuple.nexthdr # "ICMP" THEN Punt(m)
      ELSE IF p.short THEN Drop(m, "DROP_INVALID")
      ELSE CASE p.icmp = "echo" -> Nat4([m EXCEPT !.tuple.dport = 0, !.tuple.sport = p.id])
             [] p.icmp = "echoreply" -> Punt(m)
             [] p.icmp = "error" -> Drop(m, "DROP_UNKNOWN_ICMP_CODE")
             [] p.icmp = "fragneeded" -> snat_v4_nat_handle_icmp_frag_needed(m)
             [] OTHER -> Drop(m, "DROP_NAT_UNSUPP_PROTO")
snat_v6_nat(m) ==
  LET Nat6(n) == IF snat_v6_nat_can_skip(n) THEN Punt(n) ELSE __snat_v6_nat(n, FALSE)
      p == m.pkt
  IN  IF m.tuple.nexthdr \in L4Protos(m) THEN Then(NatPorts(m, l4_load_ports), Nat6)
      ELSE IF m.tuple.nexthdr # "ICMP" THEN Punt(m)
      ELSE IF p.short THEN Drop(m, "DROP_INVALID")
      ELSE CASE p.icmp = "echo" -> Nat6([m EXCEPT !.tuple.dport = 0, !.tuple.sport = p.id])
             [] p.icmp \in {"echoreply", "ns", "na"} -> Punt(m)
             [] OTHER -> Drop(m, "DROP_NAT_UNSUPP_PROTO")

-----------------------------------------------------------------------------
(* Back in.                                                                *)

snat_v4_rev_nat_handle_icmp_frag_needed(m) ==
  LET t == QuotedTuple(m, {"TUPLE_F_IN"}, "echo")
      e == snat_v4_lookup(m, t)
  IN  IF ~QuotedOk(m, "echo") THEN Drop(m, "DROP_INVALID")
      ELSE IF t.nexthdr \notin L4Protos(m) \cup {"ICMP"} \/ e = None THEN Punt(m)
      ELSE [snat_v4_rewrite_headers(m, TRUE, "src", t.nexthdr, TRUE, At(t.daddr, t.dport), EntryAt(e))
            EXCEPT !.natent = e]
snat_v6_rev_nat_handle_icmp_pkt_toobig(m) == snat_v4_rev_nat_handle_icmp_frag_needed(m)

\* An error keeps the port 0 of its own tuple: only its address changes.
snat_v4_rev_nat(m) ==
  LET m0 == snat_v4_init_tuple([m EXCEPT !.hasl4 = TRUE], {"TUPLE_F_IN"})
      Out(n, port) == snat_v4_rewrite_headers(n, FALSE, "dst", n.tuple.nexthdr, n.hasl4,
                        At(n.tuple.daddr, n.tuple.dport), At(n.natent.addr, port))
      Mapped(n) == Out(n, n.natent.port)
      Quoted(n) == Out(n, 0)
      Flow(n) == IF snat_v4_rev_nat_can_skip(n) THEN Punt(n)
                 ELSE Then(snat_v4_rev_nat_handle_mapping(n), Mapped)
  IN  IF m0.tuple.nexthdr \in L4Protos(m) THEN Then(NatPorts(m0, ipv4_load_l4_ports), Flow)
      ELSE IF m0.tuple.nexthdr # "ICMP" THEN Punt(m0)
      ELSE IF m.pkt.short THEN Drop(m0, "DROP_INVALID")
      ELSE CASE m.pkt.icmp = "echoreply" -> Flow([m0 EXCEPT !.tuple.dport = m.pkt.id])
             [] m.pkt.icmp = "fragneeded" -> Then(snat_v4_rev_nat_handle_icmp_frag_needed(m0), Quoted)
             [] OTHER -> Punt(m0)
snat_v6_rev_nat(m) ==
  LET m0 == Then(ipv6_hdrlen(m), LAMBDA n : snat_v6_init_tuple(n, {"TUPLE_F_IN"}))
      Out(n, port) == snat_v6_rewrite_headers(n, FALSE, "dst", n.tuple.nexthdr,
                        At(n.tuple.daddr, n.tuple.dport), At(n.natent.addr, port))
      Mapped(n) == Out(n, n.natent.port)
      Quoted(n) == Out(n, 0)
      Flow(n) == IF snat_v6_rev_nat_can_skip(n) THEN Punt(n)
                 ELSE Then(snat_v6_rev_nat_handle_mapping(n), Mapped)
  IN  IF m0.err # "" THEN m0
      ELSE IF m0.tuple.nexthdr \in L4Protos(m) THEN Then(NatPorts(m0, l4_load_ports), Flow)
      ELSE IF m0.tuple.nexthdr # "ICMP" THEN Punt(m0)
      ELSE IF m.pkt.short THEN Drop(m0, "DROP_INVALID")
      ELSE CASE m.pkt.icmp = "echoreply" -> Flow([m0 EXCEPT !.tuple.dport = m.pkt.id])
             [] m.pkt.icmp = "fragneeded" -> Then(snat_v6_rev_nat_handle_icmp_pkt_toobig(m0), Quoted)
             [] OTHER -> Punt(m0)

-----------------------------------------------------------------------------
(* IPv4 packets of flows translated from IPv6.                             *)

snat_remap_rfc8215(m) == ipv4_to_ipv6(m, Nat46Rfc(m.pkt.saddr), Nat46(m.pkt.daddr))
__snat_v6_has_v4_complete(m, saddr6, t4) ==
  Has(m.nat, [saddr |-> saddr6, daddr |-> Nat46(t4.daddr), nexthdr |-> t4.nexthdr,
              sport |-> t4.dport, dport |-> t4.sport, flags |-> {"TUPLE_F_IN"}])
snat_v6_has_v4_match(m, t4) == __snat_v6_has_v4_complete(m, Nat46(t4.saddr), t4)
snat_v6_has_v4_match_rfc8215(m, t4) == __snat_v6_has_v4_complete(m, Nat46Rfc(t4.saddr), t4)
================================================================================
