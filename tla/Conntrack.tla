------------------------------- MODULE Conntrack -------------------------------
(***************************************************************************)
(* Connection tracking of the Cilium datapath                              *)
(* (examples/cilium-lxc/bpf/lib/conntrack.h, ipv4.h, l4.h).                *)
(*                                                                         *)
(* A BPF program is an operator on a record m, the state one run of it     *)
(* sees: the packet, its own variables and the maps.  Fields used here:    *)
(*   opts    the compile-time options that are on                          *)
(*   pkt     the packet                                                    *)
(*   tuple, state, ret, hasl4   tuple, ct_state, result and has_l4_header  *)
(*   ct      the connection tracking maps.  The TCP map and the map for    *)
(*           the other protocols are one function: the protocol is part of *)
(*           the key                                                       *)
(*   frag    IPV4_FRAG_DATAGRAMS_MAP                                       *)
(*   now     bpf_mono_now()                                                *)
(*   full    map_update_elem fails in this run                             *)
(*   err     the drop reason, "" as long as there is none                  *)
(* The IPv6 functions are the IPv4 ones on longer addresses; where they    *)
(* differ the difference is spelled out.                                   *)
(***************************************************************************)
EXTENDS Integers, FiniteSets

CONSTANTS
  CT_CONNECTION_LIFETIME_TCP, CT_CONNECTION_LIFETIME_NONTCP,
  CT_SERVICE_LIFETIME_TCP, CT_SERVICE_LIFETIME_NONTCP,
  CT_SYN_TIMEOUT, CT_CLOSE_TIMEOUT, CT_SERVICE_CLOSE_REBALANCE,
  CT_REPORT_INTERVAL

ASSUME LifetimeAssumption ==
  {CT_CONNECTION_LIFETIME_TCP, CT_CONNECTION_LIFETIME_NONTCP,
   CT_SERVICE_LIFETIME_TCP, CT_SERVICE_LIFETIME_NONTCP,
   CT_SYN_TIMEOUT, CT_CLOSE_TIMEOUT, CT_SERVICE_CLOSE_REBALANCE,
   CT_REPORT_INTERVAL} \subseteq Nat
\* An entry that is being closed goes no later than one that was never answered.
ASSUME TimeoutAssumption == CT_CLOSE_TIMEOUT <= CT_SYN_TIMEOUT

-----------------------------------------------------------------------------
(* Running a program.                                                      *)

On(m, option) == option \in m.opts

\* A step of a program that has returned an error does nothing.
Drop(m, reason) == [m EXCEPT !.err = reason]
Then(m, Step(_)) == IF m.err = "" THEN Step(m) ELSE m

\* map_update_elem and map_delete_elem on a map that is a partial function.
MapUpdate(map, key, value) ==
  [k \in DOMAIN map \cup {key} |-> IF k = key THEN value ELSE map[k]]
MapDelete(map, key) == [k \in DOMAIN map \ {key} |-> map[k]]
Has(map, key) == key \in DOMAIN map

-----------------------------------------------------------------------------
(* Entries.                                                                *)

Dirs == {"CT_EGRESS", "CT_INGRESS", "CT_SERVICE"}
CtHits == {"CT_ESTABLISHED", "CT_REOPENED", "CT_REPLY", "CT_RELATED"}

\* struct ct_entry without the packet and byte counters.
ct_entry ==
  [lifetime |-> 0, rx_closing |-> FALSE, tx_closing |-> FALSE,
   lb_loopback |-> FALSE, seen_non_syn |-> FALSE, node_port |-> FALSE,
   proxy_redirect |-> FALSE, dsr |-> FALSE, from_l7lb |-> FALSE,
   from_tunnel |-> FALSE, rev_nat_index |-> 0, backend_id |-> 0,
   ifindex |-> 0, src_sec_id |-> "UNKNOWN", tx_flags_seen |-> {},
   rx_flags_seen |-> {}, last_tx_report |-> 0, last_rx_report |-> 0]

ct_state ==
  [rev_nat_index |-> 0, loopback |-> FALSE, node_port |-> FALSE,
   dsr |-> FALSE, syn |-> FALSE, proxy_redirect |-> FALSE,
   from_l7lb |-> FALSE, from_tunnel |-> FALSE, src_sec_id |-> "UNKNOWN",
   ifindex |-> 0, backend_id |-> 0]

ct_tcp_select_action(flags) ==
  CASE flags \cap {"RST", "FIN"} # {} -> "ACTION_CLOSE"
    [] flags \cap {"RST", "FIN"} = {} /\ "SYN" \in flags -> "ACTION_CREATE"
    [] OTHER -> "ACTION_UNSPEC"

ct_entry_seen_both_syns(e) == "SYN" \in e.rx_flags_seen \cap e.tx_flags_seen
ct_entry_alive(e) == ~e.rx_closing \/ ~e.tx_closing
ct_entry_closing(e) == e.tx_closing \/ e.rx_closing
ct_entry_expired_rebalance(e, now) ==
  e.last_tx_report + CT_SERVICE_CLOSE_REBALANCE <= now

\* Mutant: the lifetime is added to what is left.
ct_update_lifetime_extending(e, now, lifetime, dir, flags) ==
  [e EXCEPT !.lifetime = @ + lifetime]

\* CT_REPORT_FLAGS is 0xff: every flag is reported.
ct_update_lifetime(e, now, lifetime, dir, flags) ==
  LET rx   == dir = "CT_INGRESS"
      seen == IF rx THEN e.rx_flags_seen ELSE e.tx_flags_seen
      last == IF rx THEN e.last_rx_report ELSE e.last_tx_report
      e1   == [e EXCEPT !.lifetime = now + lifetime]
  IN  IF last + CT_REPORT_INTERVAL < now \/ ~(flags \subseteq seen)
      THEN IF rx
           THEN [e1 EXCEPT !.rx_flags_seen = seen \cup flags, !.last_rx_report = now]
           ELSE [e1 EXCEPT !.tx_flags_seen = seen \cup flags, !.last_tx_report = now]
      ELSE e1

ct_update_timeout(e, now, tcp, dir, flags) ==
  LET e1 == IF tcp /\ "SYN" \notin flags THEN [e EXCEPT !.seen_non_syn = TRUE] ELSE e
      svc == dir = "CT_SERVICE"
      lifetime ==
        CASE ~tcp -> IF svc THEN CT_SERVICE_LIFETIME_NONTCP
                            ELSE CT_CONNECTION_LIFETIME_NONTCP
          [] tcp /\ e1.seen_non_syn -> IF svc THEN CT_SERVICE_LIFETIME_TCP
                                              ELSE CT_CONNECTION_LIFETIME_TCP
          [] OTHER -> CT_SYN_TIMEOUT
  IN  ct_update_lifetime(e1, now, lifetime, dir, flags)

ct_reset_seen_flags(e) == [e EXCEPT !.rx_flags_seen = {}, !.tx_flags_seen = {}]
ct_reset_closing(e) == [e EXCEPT !.rx_closing = FALSE, !.tx_closing = FALSE]

ct_entry_matches_types(m, e, types) ==
  \/ types = {}
  \/ On(m, "ENABLE_NODEPORT") /\ "CT_ENTRY_NODEPORT" \in types
       /\ e.node_port /\ e.rev_nat_index # 0
  \/ On(m, "ENABLE_NODEPORT") /\ On(m, "ENABLE_DSR")
       /\ "CT_ENTRY_DSR" \in types /\ e.dsr

-----------------------------------------------------------------------------
(* Looking up one tuple.                                                   *)

\* ACTION_CREATE on a closing entry: the connection starts again.
ct_reopen(e, now, tcp, dir, flags) ==
  ct_update_timeout([ct_reset_seen_flags(ct_reset_closing(e)) EXCEPT !.seen_non_syn = FALSE],
                    now, tcp, dir, flags)

\* ACTION_CLOSE: a reset before both SYNs were seen closes both directions.
ct_close(e, now, dir, flags) ==
  LET both == ~ct_entry_seen_both_syns(e) /\ "RST" \in flags /\ dir # "CT_SERVICE"
      rx   == dir = "CT_INGRESS"
      e1   == [e EXCEPT !.rx_closing = @ \/ both \/ rx, !.tx_closing = @ \/ both \/ ~rx]
  IN  IF ct_entry_alive(e1) THEN e1
      ELSE ct_update_lifetime(e1, now, CT_CLOSE_TIMEOUT, dir, flags)

\* Mutant: the service of the connection is not copied.
ct_state_from_without_service(state, e, dir, syn) ==
  [state EXCEPT !.backend_id = IF dir = "CT_SERVICE" THEN e.backend_id ELSE @,
                !.loopback = e.lb_loopback, !.node_port = e.node_port]
\* What a hit copies from the entry into the program's ct_state.
ct_state_from(state, e, dir, syn) ==
  IF dir = "CT_SERVICE"
  THEN [state EXCEPT !.rev_nat_index = e.rev_nat_index,
                     !.backend_id = e.backend_id, !.syn = syn]
  ELSE [state EXCEPT !.rev_nat_index = e.rev_nat_index, !.loopback = e.lb_loopback,
                     !.node_port = e.node_port, !.dsr = e.dsr,
                     !.proxy_redirect = e.proxy_redirect, !.from_l7lb = e.from_l7lb,
                     !.from_tunnel = e.from_tunnel, !.ifindex = e.ifindex]

\* Mutant: a packet of a closed connection refreshes its entry.
ct_lookup_tuple_refreshing(m, action, dir, types, tcp, flags) ==
  IF ~Has(m.ct, m.tuple) THEN [m EXCEPT !.ret = "CT_NEW"]
  ELSE LET e1 == ct_update_timeout(m.ct[m.tuple], m.now, tcp, dir, flags)
           e2 == IF action = "ACTION_CLOSE" THEN ct_close(e1, m.now, dir, flags) ELSE e1
       IN  [m EXCEPT !.ct[m.tuple] = e2, !.ret = "CT_ESTABLISHED",
                     !.state = ct_state_from(m.state, e1, dir, "SYN" \in flags)]

ct_refresh(e, now, tcp, dir, flags) ==
  IF ct_entry_alive(e) THEN ct_update_timeout(e, now, tcp, dir, flags) ELSE e
ct_rebalances(m, e, dir, flags) ==
  /\ On(m, "HAVE_LARGE_INSN_LIMIT")
  /\ dir = "CT_SERVICE" /\ "SYN" \in flags
  /\ ct_entry_closing(e) /\ ct_entry_expired_rebalance(e, m.now)
ct_lookup_hit(m, e, action, dir, tcp, flags) ==
  LET reopened == action = "ACTION_CREATE" /\ ct_entry_closing(e)
  IN  [m EXCEPT !.ct[m.tuple] = IF reopened THEN ct_reopen(e, m.now, tcp, dir, flags)
                                ELSE IF action = "ACTION_CLOSE" THEN ct_close(e, m.now, dir, flags)
                                ELSE e,
                !.state = ct_state_from(m.state, e, dir, "SYN" \in flags),
                !.ret = IF reopened THEN "CT_REOPENED" ELSE "CT_ESTABLISHED"]
ct_lookup_tuple(m, action, dir, types, tcp, flags) ==
  LET e == m.ct[m.tuple] IN
  IF ~Has(m.ct, m.tuple) THEN [m EXCEPT !.ret = "CT_NEW"]
  ELSE IF ~ct_entry_matches_types(m, e, types) \/ ct_rebalances(m, e, dir, flags)
  THEN [m EXCEPT !.ret = "CT_NEW"]
  ELSE ct_lookup_hit(m, ct_refresh(e, m.now, tcp, dir, flags), action, dir, tcp, flags)

ct_lookup_select_tuple_type(dir, scope) ==
  CASE dir = "CT_SERVICE" -> {"TUPLE_F_SERVICE"}
    [] dir # "CT_SERVICE" /\ scope = "SCOPE_FORWARD" ->
         IF dir = "CT_EGRESS" THEN {} ELSE {"TUPLE_F_IN"}
    [] OTHER -> IF dir = "CT_EGRESS" THEN {"TUPLE_F_IN"} ELSE {}

-----------------------------------------------------------------------------
(* Tuples.  The C struct has the ports in the order dport, sport, and they *)
(* are filled from the packet in its order, source first: as long as the   *)
(* tuple is not reversed its dport is the packet's source port.            *)

ct_flip_tuple_dir(t) ==
  [t EXCEPT !.flags = IF "TUPLE_F_IN" \in @ THEN @ \ {"TUPLE_F_IN"} ELSE @ \cup {"TUPLE_F_IN"}]
ct_flip_tuple_dir6(t) == ct_flip_tuple_dir(t)
ct_tuple_swap_addrs(t) == [t EXCEPT !.saddr = t.daddr, !.daddr = t.saddr]
ct_tuple_swap_addrs6(t) == ct_tuple_swap_addrs(t)
ct_tuple_swap_ports(t) == [t EXCEPT !.sport = t.dport, !.dport = t.sport]
ct_tuple_swap_ports6(t) == ct_tuple_swap_ports(t)
ct_tuple_reverse(t) == ct_flip_tuple_dir(ct_tuple_swap_ports(ct_tuple_swap_addrs(t)))
ct_tuple_reverse6(t) == ct_flip_tuple_dir6(ct_tuple_swap_ports6(ct_tuple_swap_addrs6(t)))

L4Protos(m) == {"TCP", "UDP"} \cup (IF On(m, "ENABLE_SCTP") THEN {"SCTP"} ELSE {})

PktTuple(p) ==
  [saddr |-> p.saddr, daddr |-> p.daddr, sport |-> 0, dport |-> 0,
   nexthdr |-> p.proto, flags |-> {}]

ipv4_extract_tuple(m) ==
  IF m.pkt.proto \notin L4Protos(m) THEN Drop(m, "DROP_CT_UNKNOWN_PROTO")
  ELSE [m EXCEPT !.tuple = PktTuple(m.pkt)]
\* The IPv6 twin has written the addresses before it looks at the protocol.
ipv6_extract_tuple(m) ==
  LET m1 == [m EXCEPT !.tuple = PktTuple(m.pkt)] IN
  IF m.pkt.proto \notin L4Protos(m) THEN Drop(m1, "DROP_CT_UNKNOWN_PROTO") ELSE m1

FragId(p) == [saddr |-> p.saddr, daddr |-> p.daddr, id |-> p.id, proto |-> p.proto]
Ports(p) == [sport |-> p.sport, dport |-> p.dport]
SetPorts(m, ports) ==
  [m EXCEPT !.tuple = [@ EXCEPT !.dport = ports.sport, !.sport = ports.dport]]

ipv4_is_fragment(p) == p.frag # "no"
ipv4_is_not_first_fragment(p) == p.frag = "rest"
ipv4_has_l4_header(p) == ~ipv4_is_not_first_fragment(p)

l4_load_ports(m) ==
  IF m.pkt.short THEN Drop(m, "DROP_CT_INVALID_HDR") ELSE SetPorts(m, Ports(m.pkt))

ipv4_frag_get_l4ports(m) ==
  IF Has(m.frag, FragId(m.pkt)) THEN SetPorts(m, m.frag[FragId(m.pkt)])
  ELSE Drop(m, "DROP_FRAG_NOT_FOUND")

\* The first fragment leaves its ports behind for the others; that the map
\* is full only counts in the metrics.
ipv4_handle_fragmentation(m) ==
  IF ipv4_is_not_first_fragment(m.pkt)
  THEN ipv4_frag_get_l4ports([m EXCEPT !.hasl4 = FALSE])
  ELSE LET m1 == l4_load_ports(m) IN
       IF m1.err = "" /\ ipv4_is_fragment(m.pkt) /\ ~m.full
       THEN [m1 EXCEPT !.frag = MapUpdate(@, FragId(m.pkt), Ports(m.pkt))]
       ELSE m1

\* Without fragment support the bytes after the header are taken as ports.
ipv4_load_l4_ports(m) ==
  IF On(m, "ENABLE_IPV4_FRAGMENTS") THEN ipv4_handle_fragmentation(m) ELSE l4_load_ports(m)

ct_extract_icmp(m) ==
  LET m1 == [m EXCEPT !.tuple = [@ EXCEPT !.sport = 0, !.dport = 0]] IN
  CASE m.pkt.short -> Drop(m, "DROP_CT_INVALID_HDR")
    [] m.pkt.icmp \in {"error", "fragneeded"} -> [m1 EXCEPT !.tuple.flags = @ \cup {"TUPLE_F_RELATED"}]
    [] m.pkt.icmp = "echoreply" -> [m1 EXCEPT !.tuple.sport = m.pkt.id]
    [] m.pkt.icmp = "echo" -> [m1 EXCEPT !.tuple.dport = m.pkt.id]
    [] OTHER -> m1

ct_extract_ports4(m) ==
  CASE m.tuple.nexthdr = "ICMP" -> ct_extract_icmp(m)
    [] m.tuple.nexthdr \in L4Protos(m) -> ipv4_load_l4_ports(m)
    [] OTHER -> Drop(m, "DROP_CT_UNKNOWN_PROTO")
ct_extract_ports6(m) ==
  CASE m.tuple.nexthdr = "ICMP" -> ct_extract_icmp(m)
    [] m.tuple.nexthdr \in L4Protos(m) -> l4_load_ports(m)
    [] OTHER -> Drop(m, "DROP_CT_UNKNOWN_PROTO")

-----------------------------------------------------------------------------
(* Looking up a packet.                                                    *)

\* The reverse tuple is tried first: a hit there is a reply, or an ICMP
\* error about a connection of the other direction.
ct_packet_flags(m) == IF m.tuple.nexthdr = "TCP" /\ m.hasl4 THEN m.pkt.tcp ELSE {}
ct_lookup_packet(m, dir, types) ==
  ct_lookup_tuple(m, ct_tcp_select_action(ct_packet_flags(m)), dir, types,
                  m.tuple.nexthdr = "TCP", ct_packet_flags(m))
ct_lookup_other(m, first, dir, scope, types, Reverse(_)) ==
  IF scope = "SCOPE_FORWARD" THEN first
  ELSE IF first.ret # "CT_NEW"
  THEN [first EXCEPT !.ret = IF "TUPLE_F_RELATED" \in m.tuple.flags THEN "CT_RELATED" ELSE "CT_REPLY"]
  ELSE IF scope = "SCOPE_REVERSE" THEN first
  ELSE ct_lookup_packet([m EXCEPT !.tuple = Reverse(m.tuple)], dir, types)
ct_lookup_scope(m, dir, scope, types, Reverse(_)) ==
  IF m.tuple.nexthdr = "TCP" /\ m.hasl4 /\ m.pkt.short THEN Drop(m, "DROP_CT_INVALID_HDR")
  ELSE ct_lookup_other(m, ct_lookup_packet(m, dir, types), dir, scope, types, Reverse)

ct_lookup_scope4(m, dir, scope, types) == ct_lookup_scope(m, dir, scope, types, ct_tuple_reverse)
ct_lookup_scope6(m, dir, scope, types) == ct_lookup_scope(m, dir, scope, types, ct_tuple_reverse6)

ct_lazy_lookup4(m, dir, scope, types) ==
  ct_lookup_scope4([m EXCEPT !.tuple.flags = ct_lookup_select_tuple_type(dir, scope)],
                   dir, scope, types)
ct_lazy_lookup6(m, dir, scope, types) ==
  ct_lookup_scope6([m EXCEPT !.tuple.flags = ct_lookup_select_tuple_type(dir, scope),
                             !.hasl4 = TRUE], dir, scope, types)

ct_lookup4(m, dir) ==
  LET m1 == [m EXCEPT !.tuple.flags = ct_lookup_select_tuple_type(dir, "SCOPE_BIDIR"),
                      !.hasl4 = TRUE]
      Lookup(n) == ct_lookup_scope4(n, dir, "SCOPE_BIDIR", {})
  IN  Then(ct_extract_ports4(m1), Lookup)
ct_lookup6(m, dir) ==
  LET m1 == [m EXCEPT !.tuple.flags = ct_lookup_select_tuple_type(dir, "SCOPE_BIDIR"),
                      !.hasl4 = TRUE]
      Lookup(n) == ct_lookup_scope6(n, dir, "SCOPE_BIDIR", {})
  IN  Then(ct_extract_ports6(m1), Lookup)

-----------------------------------------------------------------------------
(* Creating and updating entries.                                          *)

\* The tuple under which ICMP errors about the connection are looked up.
RelatedTuple(t) ==
  [saddr |-> t.saddr, daddr |-> t.daddr, nexthdr |-> "ICMP", sport |-> 0, dport |-> 0,
   flags |-> t.flags \cup {"TUPLE_F_RELATED"}]

\* A failed update of either map drops the packet; an entry that is already
\* in the main map stays there.  m.full fails the main map, m.relfull the
\* map for related packets.
ct_insert(m, e, related) ==
  LET m1 == [m EXCEPT !.ct = MapUpdate(@, m.tuple, e)]
  IN  CASE m.full -> Drop(m, "DROP_CT_CREATE_FAILED")
        [] ~m.full /\ ~related -> m1
        [] ~m.full /\ related /\ m.relfull -> Drop(m1, "DROP_CT_CREATE_FAILED")
        [] OTHER -> [m1 EXCEPT !.ct = MapUpdate(@, RelatedTuple(m.tuple), e)]
ct_create(m, e0, dir, s, related) ==
  LET tcp == m.tuple.nexthdr = "TCP"
  IN  ct_insert(m, [ct_update_timeout([e0 EXCEPT !.rev_nat_index = s.rev_nat_index],
                                      m.now, tcp, dir, IF tcp THEN {"SYN"} ELSE {})
                      EXCEPT !.src_sec_id = s.src_sec_id], related)

ct_create4(m, dir, s, proxy_redirect, from_l7lb, related) ==
  ct_create(m, IF dir = "CT_SERVICE" THEN [ct_entry EXCEPT !.backend_id = s.backend_id]
               ELSE [ct_entry EXCEPT !.lb_loopback = s.loopback, !.node_port = s.node_port,
                       !.dsr = s.dsr, !.from_tunnel = s.from_tunnel, !.ifindex = s.ifindex,
                       !.proxy_redirect = proxy_redirect, !.from_l7lb = from_l7lb],
            dir, s, related)
\* The IPv6 entry records neither loopback nor the tunnel.
ct_create6(m, dir, s, proxy_redirect, from_l7lb, related) ==
  ct_create(m, IF dir = "CT_SERVICE" THEN [ct_entry EXCEPT !.backend_id = s.backend_id]
               ELSE [ct_entry EXCEPT !.node_port = s.node_port, !.dsr = s.dsr,
                       !.ifindex = s.ifindex, !.proxy_redirect = proxy_redirect,
                       !.from_l7lb = from_l7lb],
            dir, s, related)

WithFlags(t, flags) == [t EXCEPT !.flags = flags]
OutEntry(m, t) == m.ct[WithFlags(t, {})]
HasOut(m, t) == Has(m.ct, WithFlags(t, {}))

ct_is_reply4(m, t) == Has(m.ct, WithFlags(t, {"TUPLE_F_IN"}))
ct_has_loopback_egress_entry4(m, t) == HasOut(m, t) /\ OutEntry(m, t).lb_loopback
ct_has_nodeport_egress_entry4(m, t, dsr) ==
  HasOut(m, t) /\ (OutEntry(m, t).node_port \/ (dsr /\ OutEntry(m, t).dsr))
ct_has_nodeport_egress_entry6(m, t, dsr) ==
  HasOut(m, t) /\ (OutEntry(m, t).node_port \/ (dsr /\ OutEntry(m, t).dsr))
ct_has_dsr_egress_entry4(m, t) == HasOut(m, t) /\ OutEntry(m, t).dsr
ct_has_dsr_egress_entry6(m, t) == HasOut(m, t) /\ OutEntry(m, t).dsr

\* The updates below do nothing when the entry is gone.
ct_update_svc_entry(m, t, backend_id, rev_nat_index) ==
  IF Has(m.ct, t) THEN [m EXCEPT !.ct[t].backend_id = backend_id,
                                 !.ct[t].rev_nat_index = rev_nat_index] ELSE m
ct_update_rev_nat_index(m, t, s) ==
  IF Has(m.ct, t) THEN [m EXCEPT !.ct[t].rev_nat_index = s.rev_nat_index] ELSE m
ct_update_dsr(m, t, dsr) == IF Has(m.ct, t) THEN [m EXCEPT !.ct[t].dsr = dsr] ELSE m
ct_update_nodeport(m, t, np) == IF Has(m.ct, t) THEN [m EXCEPT !.ct[t].node_port = np] ELSE m
================================================================================
