----------------------------- MODULE LoadBalancer -----------------------------
(***************************************************************************)
(* Service load balancing of the Cilium datapath                           *)
(* (examples/cilium-lxc/bpf/lib/lb.h, ratelimit.h).  Fields of m used here,*)
(* beside those of Conntrack:                                              *)
(*   services  LB4_SERVICES_MAP_V2: the master entry of a service, with    *)
(*             the backend ids of its slots                                *)
(*   backends, revnat, aff, affmatch, srcrange, lut                        *)
(*             the backend, reverse NAT, affinity, affinity match, source  *)
(*             range and Maglev maps                                       *)
(*   sel       LB_SELECTION                                                *)
(*   rnd       get_prandom_u32(), or the hash of the tuple                 *)
(*   backend   the variable backend_id                                     *)
(*   cb        the ctx meta slots CB_*; the ones that share a word are     *)
(*             kept apart                                                  *)
(*   bucket    RATELIMIT_MAP of the interface the packet came in by        *)
(***************************************************************************)
EXTENDS Conntrack

CONSTANTS
  IPV4_LOOPBACK,    \* the source of a pod that talks to itself by a service
  BUCKET_SIZE, TOKENS_PER_TOPUP, TOPUP_INTERVAL,
  None

-----------------------------------------------------------------------------
(* Services and backends.                                                  *)

lb_is_svc_proto(m, proto) == proto \in L4Protos(m)

svc_is_nodeport(m, svc) == On(m, "ENABLE_NODEPORT") /\ "NODEPORT" \in svc.flags
svc_has_src_range_check(m, svc) ==
  On(m, "ENABLE_SRC_RANGE_CHECK") /\ "SOURCE_RANGE" \in svc.flags
svc_is_l7loadbalancer(m, svc) == On(m, "ENABLE_L7_LB") /\ "L7LOADBALANCER" \in svc.flags
svc_is_two_scopes(svc) == "TWO_SCOPES" \in svc.flags
svc_is_affinity(m, svc) == On(m, "ENABLE_SESSION_AFFINITY") /\ "AFFINITY" \in svc.flags
svc_is_routable(svc) == "ROUTABLE" \in svc.flags
lb_skip_l4_dnat(m) == On(m, "DSR_XLATE_FRONTEND")

\* The key has the service port in network order of the reversed tuple.
lb4_fill_key(t) == [address |-> t.daddr, dport |-> t.sport, scope |-> "EXT"]
lb6_fill_key(t) == [address |-> t.daddr, dport |-> t.sport, scope |-> "EXT"]

lb4_extract_tuple(m) ==
  LET m1 == [m EXCEPT !.tuple = PktTuple(m.pkt)] IN
  CASE m.pkt.proto \in L4Protos(m) ->
         \* has_l4_header is not asked for here
         [ipv4_load_l4_ports(m1) EXCEPT !.hasl4 = m.hasl4]
    [] m.pkt.proto = "ICMP" -> Drop(m1, "DROP_UNSUPP_SERVICE_PROTO")
    [] OTHER -> Drop(m1, "DROP_UNKNOWN_L4")
lb6_extract_tuple(m) ==
  LET m1 == [m EXCEPT !.tuple = PktTuple(m.pkt)] IN
  CASE m.pkt.proto \in L4Protos(m) -> l4_load_ports(m1)
    [] m.pkt.proto = "ICMP" -> Drop(m1, "DROP_UNSUPP_SERVICE_PROTO")
    [] OTHER -> Drop(m1, "DROP_UNKNOWN_L4")

lb4_src_range_ok(m, svc, saddr) ==
  svc_has_src_range_check(m, svc) => <<svc.rev_nat_index, saddr>> \in m.srcrange
lb6_src_range_ok(m, svc, saddr) ==
  svc_has_src_range_check(m, svc) => <<svc.rev_nat_index, saddr>> \in m.srcrange

lb4_to_lb6_service(m, svc) == On(m, "ENABLE_NAT_46X64") /\ "NAT_46X64" \in svc.flags
lb6_to_lb4_service(m, svc) == On(m, "ENABLE_NAT_46X64") /\ "NAT_46X64" \in svc.flags

\* A service with two scopes is looked up again in the internal one.
lb_lookup_service(m, key, scope_switch, check, Usable(_)) ==
  LET ext == [key EXCEPT !.scope = "EXT"]
      int == [key EXCEPT !.scope = "INT"]
      Ok(svc) == svc.count > 0 \/ ~check \/ svc_is_l7loadbalancer(m, svc)
  IN  CASE ~Has(m.services, ext) -> None
        [] Has(m.services, ext) /\ (~scope_switch \/ ~svc_is_two_scopes(m.services[ext])) ->
             IF Ok(m.services[ext]) \/ Usable(m.services[ext]) THEN m.services[ext] ELSE None
        [] OTHER ->
             IF Has(m.services, int) /\ Ok(m.services[int]) THEN m.services[int] ELSE None
lb4_lookup_service(m, key, scope_switch, check) ==
  LET Usable(svc) == lb4_to_lb6_service(m, svc)
  IN  lb_lookup_service(m, key, scope_switch, check, Usable)
lb6_lookup_service(m, key, scope_switch, check) ==
  LET Usable(svc) == FALSE
  IN  lb_lookup_service(m, key, scope_switch, check, Usable)

lb4_lookup_backend(m, id) == IF Has(m.backends, id) THEN m.backends[id] ELSE None
lb6_lookup_backend(m, id) == IF Has(m.backends, id) THEN m.backends[id] ELSE None
lb4_lookup_backend_slot(svc, slot) == IF Has(svc.slots, slot) THEN svc.slots[slot] ELSE 0
lb6_lookup_backend_slot(svc, slot) == IF Has(svc.slots, slot) THEN svc.slots[slot] ELSE 0

lb4_select_backend_id(m, svc) ==
  CASE m.sel = "RANDOM" -> lb4_lookup_backend_slot(svc, (m.rnd % svc.count) + 1)
    [] m.sel = "MAGLEV" -> IF Has(m.lut, svc.rev_nat_index)
                           THEN LET lut == m.lut[svc.rev_nat_index]
                                IN  lut[(m.rnd % Cardinality(DOMAIN lut)) + 1]
                           ELSE 0
    [] OTHER -> lb4_lookup_backend_slot(svc, 1)
lb6_select_backend_id(m, svc) ==
  CASE m.sel = "RANDOM" -> lb6_lookup_backend_slot(svc, (m.rnd % svc.count) + 1)
    [] m.sel = "MAGLEV" -> IF Has(m.lut, svc.rev_nat_index)
                           THEN LET lut == m.lut[svc.rev_nat_index]
                                IN  lut[(m.rnd % Cardinality(DOMAIN lut)) + 1]
                           ELSE 0
    [] OTHER -> lb6_lookup_backend_slot(svc, 1)

-----------------------------------------------------------------------------
(* Session affinity.                                                       *)

AffinityKey(svc, netns, client) ==
  [rev_nat_id |-> svc.rev_nat_index, netns |-> netns, client |-> client]

lb4_affinity_backend_id(m, svc, netns, client) ==
  LET key == AffinityKey(svc, netns, client)
      val == m.aff[key]
      none == [m EXCEPT !.backend = 0]
      stale == \/ val.last_used + svc.affinity_timeout <= m.now
               \/ <<svc.rev_nat_index, val.backend_id>> \notin m.affmatch
  IN  IF ~Has(m.aff, key) THEN none
      ELSE IF stale THEN [none EXCEPT !.aff = MapDelete(@, key)]
      ELSE [m EXCEPT !.aff[key].last_used = m.now, !.backend = val.backend_id]
lb6_affinity_backend_id(m, svc, netns, client) == lb4_affinity_backend_id(m, svc, netns, client)

lb4_update_affinity(m, svc, netns, client, id) ==
  [m EXCEPT !.aff = MapUpdate(@, AffinityKey(svc, netns, client),
                              [backend_id |-> id, last_used |-> m.now])]
lb6_update_affinity(m, svc, netns, client, id) == lb4_update_affinity(m, svc, netns, client, id)

-----------------------------------------------------------------------------
(* Translating the packet.                                                 *)

lb_l4_xlate(m, dport, backend_port) ==
  IF backend_port = 0 \/ dport = backend_port THEN m
  ELSE IF m.tuple.nexthdr = "SCTP" THEN Drop(m, "DROP_CSUM_L4")
  ELSE [m EXCEPT !.pkt.dport = backend_port]

lb4_xlate(m, new_saddr, key, be, skip_l3_xlate) ==
  LET m1 == IF skip_l3_xlate THEN m
            ELSE [m EXCEPT !.pkt.daddr = be.address,
                           !.pkt.saddr = IF new_saddr # None THEN new_saddr ELSE @]
  IN  IF m.hasl4 THEN lb_l4_xlate(m1, key.dport, be.port) ELSE m1
lb6_xlate(m, key, be, skip_l3_xlate) ==
  LET m1 == IF skip_l3_xlate THEN m ELSE [m EXCEPT !.pkt.daddr = be.address]
  IN  lb_l4_xlate(m1, key.dport, be.port)

reverse_map_l4_port(m, port) ==
  CASE m.tuple.nexthdr \in L4Protos(m) ->
         IF port # m.pkt.sport /\ m.tuple.nexthdr = "SCTP" THEN Drop(m, "DROP_CSUM_L4")
         ELSE [m EXCEPT !.pkt.sport = port]
    [] m.tuple.nexthdr = "ICMP" -> m
    [] OTHER -> Drop(m, "DROP_UNKNOWN_L4")

\* For a connection of a pod to itself the destination becomes the pod's
\* own address again, which is the packet's source before the translation.
lb4_rev_nat_entry(m, nat, loopback, tuple_saddr, hasl4) ==
  LET old == IF tuple_saddr THEN m.tuple.saddr ELSE m.pkt.saddr
      m1  == [m EXCEPT !.pkt.saddr = nat.address,
                       !.pkt.daddr = IF loopback THEN old ELSE @,
                       !.tuple.saddr = CASE loopback -> old
                                         [] ~loopback /\ tuple_saddr -> nat.address
                                         [] OTHER -> @]
  IN  IF hasl4 /\ nat.port # 0 THEN reverse_map_l4_port(m1, nat.port) ELSE m1
lb6_rev_nat_entry(m, nat, tuple_saddr) ==
  LET m1 == [m EXCEPT !.pkt.saddr = nat.address,
                      !.tuple.saddr = IF tuple_saddr THEN nat.address ELSE @]
  IN  IF nat.port # 0 THEN reverse_map_l4_port(m1, nat.port) ELSE m1

\* Without an entry the packet keeps the backend's address.
lb4_rev_nat(m, index, loopback, tuple_saddr, hasl4) ==
  IF Has(m.revnat, index)
  THEN lb4_rev_nat_entry(m, m.revnat[index], loopback, tuple_saddr, hasl4) ELSE m
lb6_rev_nat(m, index, tuple_saddr) ==
  IF Has(m.revnat, index) THEN lb6_rev_nat_entry(m, m.revnat[index], tuple_saddr) ELSE m

-----------------------------------------------------------------------------
(* lb4_local and lb6_local: choose the backend and translate.              *)

lb_affine(m, svc) ==
  IF svc_is_affinity(m, svc) THEN lb4_affinity_backend_id(m, svc, FALSE, m.tuple.saddr)
  ELSE [m EXCEPT !.backend = 0]

\* CT_NEW: the client's affinity, or a fresh choice, recorded in an entry.
lb_record(m, s, Create(_, _)) ==
  IF ~Has(m.backends, m.backend) THEN Drop(m, "DROP_NO_SERVICE") ELSE Create([m EXCEPT !.state = s], s)
lb_first_choice(m, svc, Select(_, _)) ==
  IF m.backend # 0 /\ Has(m.backends, m.backend) THEN m ELSE [m EXCEPT !.backend = Select(m, svc)]
lb_new_backend(m, svc, Select(_, _), Create(_, _)) ==
  LET b == lb_first_choice(lb_affine(m, svc), svc, Select)
  IN  lb_record(b, [b.state EXCEPT !.backend_id = b.backend, !.rev_nat_index = svc.rev_nat_index], Create)

(***************************************************************************)
(* CT_REPLY: the backend of the entry, unless the entry belongs to another *)
(* service or its backend is gone, or is leaving and this is a new         *)
(* connection.                                                             *)
(***************************************************************************)
lb_numbered(m, svc) ==
  LET s == [m.state EXCEPT !.rev_nat_index = svc.rev_nat_index]
  IN  IF m.state.rev_nat_index # 0 THEN m ELSE [ct_update_rev_nat_index(m, m.tuple, s) EXCEPT !.state = s]
lb_adopt(m, svc) ==
  ct_update_svc_entry([m EXCEPT !.state.rev_nat_index = svc.rev_nat_index],
                      m.tuple, m.backend, svc.rev_nat_index)
lb_make_over(m, svc) == IF m.backend = 0 THEN Drop(m, "DROP_NO_SERVICE") ELSE lb_adopt(m, svc)
lb_second_choice(m, svc, Select(_, _)) ==
  IF m.backend # 0 THEN m ELSE [m EXCEPT !.backend = Select(m, svc)]
lb_entry_backend(m, svc, Select(_, _)) ==
  IF m.state.rev_nat_index = svc.rev_nat_index THEN [m EXCEPT !.backend = m.state.backend_id]
  ELSE lb_make_over(lb_second_choice(lb_affine(m, svc), svc, Select), svc)
lb_usable(m) ==
  IF Has(m.backends, m.backend) THEN m.backends[m.backend].flags = "ACTIVE" \/ ~m.state.syn ELSE FALSE
lb_replace_backend(m, svc, Select(_, _)) ==
  LET n == [m EXCEPT !.backend = Select(m, svc)] IN
  IF svc = None THEN Drop(m, "DROP_NO_SERVICE")
  ELSE IF ~Has(n.backends, n.backend) THEN Drop(n, "DROP_NO_SERVICE")
  ELSE lb_adopt(n, svc)
lb_checked_backend(m, key, Select(_, _), Lookup(_, _)) ==
  IF m.err # "" \/ lb_usable(m) THEN m ELSE lb_replace_backend(m, Lookup(m, key), Select)
lb_known_backend(m, key, svc, Select(_, _), Lookup(_, _)) ==
  lb_checked_backend(lb_entry_backend(lb_numbered(m, svc), svc, Select), key, Select, Lookup)

\* tuple.flags is restored on every path, the error paths included.
lb_from_ct(m, key, svc, Create(_, _), Select(_, _), Lookup(_, _)) ==
  IF m.err # "" THEN Drop(m, "DROP_UNKNOWN_CT")
  ELSE IF m.ret = "CT_NEW" THEN lb_new_backend(m, svc, Select, Create)
  ELSE IF m.ret = "CT_REPLY" THEN lb_known_backend(m, key, svc, Select, Lookup)
  ELSE Drop(m, "DROP_UNKNOWN_CT")
lb_remember(m, svc) ==
  IF m.err = "" /\ svc_is_affinity(m, svc)
  THEN lb4_update_affinity(m, svc, FALSE, m.tuple.saddr, m.backend) ELSE m
lb_choose(m, key, svc, Lazy(_), Create(_, _), Select(_, _), Lookup(_, _)) ==
  IF svc.count = 0 THEN Drop(m, "DROP_NO_SERVICE")
  ELSE lb_remember([lb_from_ct(Lazy(m), key, svc, Create, Select, Lookup)
                      EXCEPT !.tuple.flags = m.tuple.flags], svc)

lb4_to_backend(m, key, be, skip_l3_xlate) ==
  LET loop == ~On(m, "DISABLE_LOOPBACK_LB") /\ m.tuple.saddr = be.address
      c1 == IF loop THEN [m EXCEPT !.state.loopback = TRUE] ELSE m
      c2 == IF ~On(m, "DISABLE_LOOPBACK_LB") /\ c1.state.loopback THEN c1 ELSE [c1 EXCEPT !.tuple.daddr = be.address]
      c3 == IF be.port = 0 THEN c2 ELSE [c2 EXCEPT !.tuple.sport = be.port]
  IN  IF lb_skip_l4_dnat(m) THEN c2
      ELSE lb4_xlate(c3, IF loop THEN IPV4_LOOPBACK ELSE None, key, be, skip_l3_xlate)
lb4_chosen(m, key, skip_l3_xlate) ==
  IF m.err # "" THEN m ELSE lb4_to_backend(m, key, m.backends[m.backend], skip_l3_xlate)
lb4_local(m, key, svc, skip_l3_xlate) ==
  LET Lazy(n) == ct_lazy_lookup4(n, "CT_SERVICE", "SCOPE_REVERSE", {})
      Create(n, s) == ct_create4(n, "CT_SERVICE", s, FALSE, FALSE, FALSE)
      Lookup(n, k) == lb4_lookup_service(n, k, FALSE, TRUE)
  IN  lb4_chosen(lb_choose(m, key, svc, Lazy, Create, lb4_select_backend_id, Lookup), key, skip_l3_xlate)
lb6_to_backend(m, key, be, skip_l3_xlate) ==
  LET c2 == [m EXCEPT !.tuple.daddr = be.address]
      c3 == IF be.port = 0 THEN c2 ELSE [c2 EXCEPT !.tuple.sport = be.port]
  IN  IF lb_skip_l4_dnat(m) THEN c2 ELSE lb6_xlate(c3, key, be, skip_l3_xlate)
lb6_chosen(m, key, skip_l3_xlate) ==
  IF m.err # "" THEN m ELSE lb6_to_backend(m, key, m.backends[m.backend], skip_l3_xlate)
lb6_local(m, key, svc, skip_l3_xlate) ==
  LET Lazy(n) == ct_lazy_lookup6(n, "CT_SERVICE", "SCOPE_REVERSE", {})
      Create(n, s) == ct_create6(n, "CT_SERVICE", s, FALSE, FALSE, FALSE)
      Lookup(n, k) == lb6_lookup_service(n, k, FALSE, TRUE)
  IN  lb6_chosen(lb_choose(m, key, svc, Lazy, Create, lb6_select_backend_id, Lookup), key, skip_l3_xlate)

-----------------------------------------------------------------------------
(* What is carried over a tail call in the meta slots.                     *)

lb4_ctx_store_state(m, state, proxy_port) ==
  [m EXCEPT !.cb.proxy = proxy_port,
            !.cb.ct_state = [rev_nat_index |-> state.rev_nat_index, loopback |-> state.loopback]]
lb4_ctx_restore_state(m) ==
  [m EXCEPT !.state.rev_nat_index = m.cb.ct_state.rev_nat_index,
            !.state.loopback = @ \/ m.cb.ct_state.loopback,
            !.proxy_port = m.cb.proxy,
            !.cb.ct_state = [rev_nat_index |-> 0, loopback |-> FALSE],
            !.cb.proxy = 0]
lb6_ctx_store_state(m, state, proxy_port) ==
  [m EXCEPT !.cb.proxy = proxy_port,
            !.cb.ct_state = [rev_nat_index |-> state.rev_nat_index, loopback |-> FALSE]]
lb6_ctx_restore_state(m) ==
  [m EXCEPT !.state.rev_nat_index = m.cb.ct_state.rev_nat_index,
            !.proxy_port = m.cb.proxy,
            !.cb.ct_state = [rev_nat_index |-> 0, loopback |-> FALSE],
            !.cb.proxy = 0]

-----------------------------------------------------------------------------
(* The answer to a packet for a service without backends.                  *)

IcmpUnreach(p) ==
  [p EXCEPT !.proto = "ICMP", !.icmp = "error", !.saddr = p.daddr, !.daddr = p.saddr,
            !.sport = 0, !.dport = 0, !.frag = "no", !.id = 0, !.tcp = {},
            !.inner = [saddr |-> p.saddr, daddr |-> p.daddr, sport |-> p.sport,
                       dport |-> p.dport, proto |-> p.proto, id |-> p.id, icmp |-> p.icmp]]

tail_no_service_ipv4(m) ==
  [m EXCEPT !.pkt = IcmpUnreach(@), !.verdict = "TX"]

\* The token bucket of the interface, None before its first packet.
ratelimit_check_and_take(m) ==
  LET since == m.now - m.bucket.last_topup
      topped == IF since <= TOPUP_INTERVAL THEN m.bucket
                ELSE LET t == m.bucket.tokens + (since \div TOPUP_INTERVAL) * TOKENS_PER_TOPUP
                     IN  [last_topup |-> m.now - (since % TOPUP_INTERVAL),
                          tokens |-> IF t > BUCKET_SIZE THEN BUCKET_SIZE ELSE t]
  IN  CASE m.bucket = None ->
             IF m.full THEN Drop(m, "DROP_RATE_LIMITED")
             ELSE [m EXCEPT !.bucket = [last_topup |-> m.now, tokens |-> TOKENS_PER_TOPUP - 1]]
        [] OTHER -> IF topped.tokens > 0
                    THEN [m EXCEPT !.bucket = [topped EXCEPT !.tokens = @ - 1]]
                    ELSE Drop([m EXCEPT !.bucket = topped], "DROP_RATE_LIMITED")
tail_no_service_ipv6(m) ==
  LET Answer(n) == [n EXCEPT !.pkt = IcmpUnreach(@), !.verdict = "TX"]
  IN  Then(ratelimit_check_and_take(m), Answer)
================================================================================
