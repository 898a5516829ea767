------------------------------- MODULE Katran -------------------------------
(***************************************************************************)
(* The Katran layer-4 load balancer of examples/katran: the XDP program    *)
(* balancer_ingress, the health-check classifiers and the programs it is   *)
(* chained with.  A packet runs to its end in one step, because the card's *)
(* receive hashing gives the packets of one flow to one CPU in order; the  *)
(* control plane, the kernel's LRU eviction and the clock step in between. *)
(*                                                                         *)
(* A program is an operator on a record k:                                 *)
(*   pkt      the packet; has is the set of its headers that lie before    *)
(*            data_end, inner the packet an ICMP error quotes or a tunnel  *)
(*            carries, room whether bpf_xdp_adjust_head finds room         *)
(*   flow     pckt.flow, with flags (pckt.flags) and real (pckt.real_index)*)
(*   vip      the key of the entry vip_info points to                      *)
(*   by       how the real was chosen, and flood whether the connection    *)
(*            rate was exceeded: read by the properties only               *)
(*   verdict  "" while the program runs, out the packet sent               *)
(* The counters of the statistics maps other than the connection rate, the *)
(* checksums and the TOS byte are left out.                                *)
(***************************************************************************)
EXTENDS Naturals, FiniteSets, Sequences

CONSTANTS
  KOpts,             \* compile-time switches that are set
  PacketHash(_, _),  \* jhash of source and ports, by address family
  RING_SIZE, MAX_CONN_RATE, ONE_SEC, LRU_UDP_TIMEOUT,
  KPackets(_),       \* the packets that arrive, given the VIPs
  KProbes,           \* the packets the prober sends
  MaxKTime,          \* bound on the clock
  MaxKEvents,        \* bound on the packets, ring changes and evictions
  KNone

ASSUME KatranConstants == RING_SIZE \in Nat \ {0} /\ MAX_CONN_RATE \in Nat

VARIABLES
  vip_map,           \* [ip, port, proto] -> [flags, vip_num]
  lru_mapping,       \* flow -> [pos, atime]
  ch_rings,          \* ring position -> real
  reals,             \* real -> [v6, dst]
  quic_mapping,      \* connection id -> real
  conn_rate,         \* stats[NEW_CONN_RATE_CNTR]: [v1, v2]
  decap_dst,         \* addresses whose tunnels end here
  lpm_src,           \* lpm_src_v4 and lpm_src_v6: source -> real
  root_array,        \* the installed programs: records [slot, prog]
  hc_reals_map,      \* mark of a probe -> real
  ktime,             \* bpf_ktime_get_ns()
  klast,             \* the run that ended last
  home,              \* where the packets of a group of connections belong
  kleft              \* what is left of MaxKEvents
kconfig == <<reals, quic_mapping, decap_dst, lpm_src, root_array, hc_reals_map>>
kvars == <<vip_map, lru_mapping, ch_rings, conn_rate, ktime, klast, home, kleft, kconfig>>

KV6(p) == p.eth = "IPV6"
KOn(o) == o \in KOpts
KEnd(k, verdict) == IF k.verdict = "" THEN [k EXCEPT !.verdict = verdict] ELSE k
KThen(k, F(_)) == IF k.verdict = "" THEN F(k) ELSE k
KMapSet(f, key, v) == [x \in DOMAIN f \cup {key} |-> IF x = key THEN v ELSE f[x]]

-----------------------------------------------------------------------------
(* Answers the balancer sends itself: pings and "packet too big".          *)

swap_mac_and_send(k) == [k EXCEPT !.verdict = "XDP_TX", !.out = k.pkt]

send_icmp_reply(k) ==
  IF "l4" \notin k.pkt.has THEN KEnd(k, "XDP_DROP")
  ELSE swap_mac_and_send([k EXCEPT !.pkt = [@ EXCEPT !.icmp = "reply", !.ttl = 64,
                                            !.src = k.pkt.dst, !.dst = k.pkt.src]])
send_icmp6_reply(k) ==
  IF "l4" \notin k.pkt.has THEN KEnd(k, "XDP_DROP")
  ELSE swap_mac_and_send([k EXCEPT !.pkt = [@ EXCEPT !.icmp = "reply", !.ttl = 64,
                                            !.src = k.pkt.dst, !.dst = k.pkt.src]])

\* The packet is cut and becomes what the answer quotes.
send_icmp4_too_big(k) ==
  IF ~k.pkt.room THEN KEnd(k, "XDP_DROP")
  ELSE [k EXCEPT !.verdict = "XDP_TX",
                 !.out = [k.pkt EXCEPT !.proto = "ICMP", !.icmp = "unreach", !.ttl = 64,
                                       !.src = k.pkt.dst, !.dst = k.pkt.src,
                                       !.big = FALSE, !.inner = k.pkt]]
send_icmp6_too_big(k) ==
  IF ~k.pkt.room THEN KEnd(k, "XDP_DROP")
  ELSE [k EXCEPT !.verdict = "XDP_TX",
                 !.out = [k.pkt EXCEPT !.proto = "ICMP", !.icmp = "too_big", !.ttl = 64,
                                       !.src = k.pkt.dst, !.dst = k.pkt.src,
                                       !.big = FALSE, !.inner = k.pkt]]
send_icmp_too_big(k) == IF KV6(k.pkt) THEN send_icmp6_too_big(k) ELSE send_icmp4_too_big(k)

-----------------------------------------------------------------------------
(* Parsing.  An ICMP error quotes a packet of the real to the client, so   *)
(* its addresses and ports are swapped to get the client's flow.           *)

KQuoted(k, q) ==
  [k EXCEPT !.flow = [@ EXCEPT !.proto = q.proto, !.src = q.dst, !.dst = q.src],
            !.flags = @ \cup {"F_ICMP"}]
parse_icmp(k) ==
  IF "l4" \notin k.pkt.has THEN KEnd(k, "XDP_DROP")
  ELSE IF k.pkt.icmp = "echo" THEN send_icmp_reply(k)
  ELSE IF k.pkt.icmp # "unreach" THEN KEnd(k, "XDP_PASS")
  ELSE IF "inner_ip" \notin k.pkt.has \/ k.pkt.inner.ipopts THEN KEnd(k, "XDP_DROP")
  ELSE KQuoted(k, k.pkt.inner)
parse_icmpv6(k) ==
  IF "l4" \notin k.pkt.has THEN KEnd(k, "XDP_DROP")
  ELSE IF k.pkt.icmp = "echo" THEN send_icmp6_reply(k)
  ELSE IF k.pkt.icmp \notin {"too_big", "unreach"} THEN KEnd(k, "XDP_PASS")
  ELSE IF "inner_ip" \notin k.pkt.has THEN KEnd(k, "XDP_DROP")
  ELSE KQuoted(k, k.pkt.inner)

process_l3_headers6(k) ==
  IF "ip" \notin k.pkt.has \/ k.pkt.frag THEN KEnd(k, "XDP_DROP")
  ELSE LET p == [k EXCEPT !.flow.proto = k.pkt.proto]
       IN  IF k.pkt.proto = "ICMP" THEN parse_icmpv6(p)
           ELSE [p EXCEPT !.flow.src = k.pkt.src, !.flow.dst = k.pkt.dst]
process_l3_headers4(k) ==
  IF "ip" \notin k.pkt.has \/ k.pkt.ipopts \/ k.pkt.frag THEN KEnd(k, "XDP_DROP")
  ELSE LET p == [k EXCEPT !.flow.proto = k.pkt.proto]
       IN  IF k.pkt.proto = "ICMP" THEN parse_icmp(p)
           ELSE [p EXCEPT !.flow.src = k.pkt.src, !.flow.dst = k.pkt.dst]
process_l3_headers(k) == IF KV6(k.pkt) THEN process_l3_headers6(k) ELSE process_l3_headers4(k)

\* calc_offset: the transport header is that of the quoted packet.
calc_offset(k) ==
  IF "F_ICMP" \in k.flags THEN [hdr |-> k.pkt.inner, ok |-> "inner_l4" \in k.pkt.has]
  ELSE [hdr |-> k.pkt, ok |-> "l4" \in k.pkt.has]

parse_udp(k) ==
  LET at == calc_offset(k)
  IN  IF ~at.ok THEN KEnd(k, "XDP_DROP")
      ELSE IF "F_ICMP" \notin k.flags
      THEN [k EXCEPT !.flow.sport = at.hdr.sport, !.flow.dport = at.hdr.dport]
      ELSE [k EXCEPT !.flow.sport = at.hdr.dport, !.flow.dport = at.hdr.sport]
\* Mutant: the ports of a quoted packet are taken as they stand.
parse_tcp_unswapped(k) ==
  LET at == calc_offset(k)
  IN  IF ~at.ok THEN KEnd(k, "XDP_DROP")
      ELSE [k EXCEPT !.flow.sport = at.hdr.sport, !.flow.dport = at.hdr.dport,
                     !.flags = IF at.hdr.syn THEN @ \cup {"F_SYN_SET"} ELSE @]
parse_tcp(k) ==
  LET at == calc_offset(k)
      p  == [k EXCEPT !.flags = IF at.hdr.syn THEN @ \cup {"F_SYN_SET"} ELSE @]
  IN  IF ~at.ok THEN KEnd(k, "XDP_DROP")
      ELSE IF "F_ICMP" \notin k.flags
      THEN [p EXCEPT !.flow.sport = at.hdr.sport, !.flow.dport = at.hdr.dport]
      ELSE [p EXCEPT !.flow.sport = at.hdr.dport, !.flow.dport = at.hdr.sport]

\* The connection id is not decoded: a packet that carries a server's id
\* counts as CONCRETE_QUIC_REAL_ID, one that does not as none (0).
CONCRETE_QUIC_REAL_ID == 3
GUE_DPORT == 6080
parse_quic(k) ==
  LET at == calc_offset(k)
  IN  IF at.ok /\ at.hdr.quic \in {"short", "handshake"} THEN CONCRETE_QUIC_REAL_ID ELSE 0

-----------------------------------------------------------------------------
(* Tunnels that end here: unwrap, then pass on or run the program again.   *)

decrement_ttl(k, inner) ==
  IF "inner_ip" \notin k.pkt.has THEN KEnd(k, "XDP_DROP")
  ELSE LET t == [k EXCEPT !.pkt.inner.ttl = @ - 1]
       IN  IF inner.ttl = 1 THEN KEnd(t, "XDP_DROP") ELSE t

KUnwrap(k) == IF ~k.pkt.room THEN KEnd(k, "XDP_DROP")
              ELSE [k EXCEPT !.pkt = [k.pkt.inner EXCEPT !.room = k.pkt.room]]
decap_v4(k) == KUnwrap(k)
decap_v6(k) == KUnwrap(k)
gue_decap_v4(k) == KUnwrap(k)
gue_decap_v6(k) == KUnwrap(k)

check_decap_dst(k) == [k EXCEPT !.pass = k.flow.dst \notin decap_dst]

\* The tail call to the recirculation slot starts the program afresh.
recirculate(k) == [k EXCEPT !.verdict = IF KOn("RECIRCULATION") THEN "again" ELSE "XDP_PASS"]
KDecapEnd(k) == IF k.pass THEN KEnd(k, "XDP_PASS") ELSE recirculate(k)

\* A TTL that runs out is found before the tunnel header is taken off, and
\* acted on only after it.
KDecapWith(k, F(_)) ==
  LET t == decrement_ttl(k, k.pkt.inner)
      d == F([t EXCEPT !.verdict = ""])
  IN  IF d.verdict # "" THEN d
      ELSE IF t.verdict # "" THEN KEnd(d, t.verdict)
      ELSE KDecapEnd(d)
process_encaped_ipip_pckt(k) ==
  IF KV6(k.pkt) THEN KDecapWith(k, decap_v6) ELSE KDecapWith(k, decap_v4)
process_encaped_gue_pckt(k) ==
  IF KV6(k.pkt) THEN KDecapWith(k, gue_decap_v6) ELSE KDecapWith(k, gue_decap_v4)

-----------------------------------------------------------------------------
(* Choosing the real server.                                               *)

\* Counts a new connection; TRUE when there were too many in this second.
is_under_flood(k) ==
  IF k.now - k.rate.v2 > ONE_SEC
  THEN [k EXCEPT !.rate = [v1 |-> 1, v2 |-> k.now], !.flood = FALSE]
  ELSE [k EXCEPT !.rate.v1 = @ + 1, !.flood = k.rate.v1 + 1 > MAX_CONN_RATE]

get_packet_hash(k) == IF KOn("KLEE_VERIFICATION") THEN 42 ELSE PacketHash(k.flow, KV6(k.pkt))

\* The entry of the source in lpm_src_v4 or lpm_src_v6.
KSrcRoute(k) ==
  IF KOn("LPM_SRC_LOOKUP") /\ "F_SRC_ROUTING" \in k.vips[k.vip].flags /\ ~k.flood
     /\ k.flow.src \in DOMAIN lpm_src
  THEN lpm_src[k.flow.src] ELSE KNone

\* For F_HASH_DPORT_ONLY the flow itself is changed, the key of the LRU too.
KRingKey(k) ==
  LET f == IF "F_HASH_DPORT_ONLY" \in k.vips[k.vip].flags
           THEN [k EXCEPT !.flow.sport = k.flow.dport, !.flow.src = 0] ELSE k
  IN  [f EXCEPT !.key = RING_SIZE * k.vips[k.vip].vip_num + (get_packet_hash(f) % RING_SIZE)]

KRecord(k) ==
  IF "F_LRU_BYPASS" \in k.vips[k.vip].flags \/ k.flood THEN k
  ELSE [k EXCEPT !.lru = KMapSet(@, k.flow, [pos |-> k.real,
                                   atime |-> IF k.flow.proto = "UDP" THEN k.now ELSE 0])]

get_packet_dst(k) ==
  LET f == is_under_flood(k)
      r == KRingKey(f)
      s == IF KSrcRoute(f) # KNone THEN [f EXCEPT !.real = KSrcRoute(f), !.by = "source"]
           ELSE IF r.key \notin DOMAIN ch_rings THEN KEnd(r, "XDP_DROP")
           ELSE [r EXCEPT !.real = ch_rings[r.key], !.by = "ring"]
  IN  IF s.verdict # "" THEN s
      ELSE IF s.real \notin DOMAIN reals THEN KEnd(s, "XDP_DROP")
      ELSE KRecord(s)

connection_table_lookup(k) ==
  LET e == k.lru[k.flow]
      h == [k EXCEPT !.real = e.pos, !.by = "lru"]
  IN  IF k.flow \notin DOMAIN k.lru THEN k
      ELSE IF k.flow.proto # "UDP" THEN h
      ELSE IF k.now - e.atime > LRU_UDP_TIMEOUT THEN k
      ELSE [h EXCEPT !.lru[k.flow].atime = k.now]

-----------------------------------------------------------------------------
(* process_packet.                                                         *)

ParseTransport(k) ==
  IF KOn("INLINE_DECAP_IPIP") /\ k.flow.proto \in {"IPIP", "IPV6"}
  THEN process_encaped_ipip_pckt(check_decap_dst(k))
  ELSE IF k.flow.proto = "TCP" THEN parse_tcp(k)
  ELSE IF k.flow.proto = "UDP"
  THEN LET u == parse_udp(k)
       IN  IF u.verdict = "" /\ KOn("INLINE_DECAP_GUE") /\ u.flow.dport = GUE_DPORT
           THEN process_encaped_gue_pckt(check_decap_dst(u)) ELSE u
  ELSE KEnd(k, "XDP_PASS")

\* Every VIP that is hit is given the ring 7.
KHit(k, key) == [k EXCEPT !.vip = key, !.vips[key].vip_num = 7]
LookupVip(k) ==
  LET key == [ip |-> k.flow.dst, port |-> k.flow.dport, proto |-> k.flow.proto]
      any == [key EXCEPT !.port = 0]
  IN  IF key \in DOMAIN k.vips THEN KHit(k, key)
      ELSE IF any \notin DOMAIN k.vips THEN KEnd(k, "XDP_PASS")
      ELSE IF "F_HASH_DPORT_ONLY" \in k.vips[any].flags THEN KHit(k, any)
      ELSE KHit([k EXCEPT !.flow.dport = 0], any)

RefuseBig(k) ==
  IF ~k.pkt.big THEN k
  ELSE IF KOn("ICMP_TOOBIG_GENERATION") THEN send_icmp_too_big(k) ELSE KEnd(k, "XDP_DROP")

\* quic_mapping is an array: an id without a real leads to real 0.
QuicRoute(k) ==
  IF k.flow.proto = "UDP" /\ "F_QUIC_VIP" \in k.vips[k.vip].flags /\ parse_quic(k) > 0
  THEN LET real == quic_mapping[parse_quic(k)]
       IN  IF real \in DOMAIN reals THEN [k EXCEPT !.real = real, !.by = "quic"]
           ELSE KEnd([k EXCEPT !.real = real], "XDP_DROP")
  ELSE k

ChooseReal(k) ==
  LET f == IF "F_HASH_NO_SRC_PORT" \in k.vips[k.vip].flags THEN [k EXCEPT !.flow.sport = 0] ELSE k
      l == IF "F_SYN_SET" \in k.flags \/ "F_LRU_BYPASS" \in k.vips[k.vip].flags THEN f
           ELSE connection_table_lookup(f)
  IN  IF k.real # KNone THEN k
      ELSE IF l.real # KNone THEN l
      ELSE get_packet_dst(l)

KOuter(k, eth, proto, src, real, dport) ==
  [k.pkt EXCEPT !.eth = eth, !.proto = proto, !.src = src, !.dst = reals[real].dst, !.dport = dport,
                !.sport = k.flow.sport, !.ttl = 64, !.inner = k.pkt]
KSend(k, outer) == IF ~k.pkt.room THEN KEnd(k, "XDP_DROP")
                   ELSE [k EXCEPT !.out = outer, !.verdict = "XDP_TX"]
create_v4_hdr(k, proto, src, real, dport) == KOuter(k, "IP", proto, src, real, dport)
create_v6_hdr(k, proto, src, real, dport) == KOuter(k, "IPV6", proto, src, real, dport)
create_udp_hdr == GUE_DPORT

\* The source of the tunnel is made from the client's address and port.
encap_v4(k) == KSend(k, create_v4_hdr(k, "IPIP", <<"V4_PREFIX", k.flow.src, k.flow.sport>>, k.real, 0))
encap_v6(k) == KSend(k, create_v6_hdr(k, IF KV6(k.pkt) THEN "IPV6" ELSE "IPIP",
                                      <<"V6_PREFIX", k.flow.src, k.flow.sport>>, k.real, 0))
gue_encap_v4(k) == KSend(k, create_v4_hdr(k, "UDP", "V4_SRC", k.real, create_udp_hdr))
gue_encap_v6(k) == KSend(k, create_v6_hdr(k, "UDP", "V6_SRC", k.real, create_udp_hdr))

Encapsulate(k) ==
  IF KV6(k.pkt) /\ reals[k.real].v6
  THEN IF KOn("GUE_ENCAP") THEN gue_encap_v6(k) ELSE encap_v6(k)
  ELSE IF KOn("GUE_ENCAP") THEN gue_encap_v4(k) ELSE encap_v4(k)

process_packet(k) ==
  KThen(KThen(KThen(KThen(KThen(KThen(process_l3_headers(k),
    ParseTransport), LookupVip), RefuseBig), QuicRoute), ChooseReal), Encapsulate)

\* The record a run starts from.
KRun(pkt) ==
  [pkt |-> pkt, flow |-> [src |-> 0, dst |-> 0, sport |-> 0, dport |-> 0, proto |-> ""],
   flags |-> {}, real |-> KNone, vip |-> KNone, key |-> 0, by |-> "", flood |-> FALSE,
   pass |-> TRUE, verdict |-> "", out |-> KNone, now |-> ktime,
   lru |-> lru_mapping, rate |-> conn_rate, vips |-> vip_map]

balancer_ingress(k) ==
  IF "eth" \notin k.pkt.has THEN KEnd(k, "XDP_DROP")
  ELSE IF k.pkt.eth \in {"IP", "IPV6"} THEN process_packet(k) ELSE KEnd(k, "XDP_PASS")

-----------------------------------------------------------------------------
(* The programs beside the balancer.                                       *)

\* pktcntr: counts (left out here) and never decides.
pktcntr(k) == KEnd(k, "XDP_PASS")

\* xdp_root: the slots of root_array in turn, by tail calls that return only
\* when the slot is empty: the first program installed gets the packet.
xdp_root(k) ==
  IF root_array = {} THEN KEnd(k, "XDP_PASS")
  ELSE LET first == CHOOSE r \in root_array : \A q \in root_array : r.slot <= q.slot
       IN  IF first.prog = "pktcntr" THEN pktcntr(k) ELSE balancer_ingress(k)

\* The classifiers on the egress of the prober: the packet with the mark of
\* a real is sent to it through the kind of tunnel the balancer uses.
hc_encap_ipip(k, real) ==
  IF ~k.pkt.room THEN KEnd(k, "TC_ACT_SHOT")
  ELSE IF reals[real].v6
  THEN [k EXCEPT !.out = create_v6_hdr(k, IF KV6(k.pkt) THEN "IPV6" ELSE "IPIP", "V6_SRC", real, 0)]
  \* the Ethernet type is not set on this branch
  ELSE [k EXCEPT !.out = [create_v4_hdr(k, "IPIP", "V4_SRC", real, 0) EXCEPT !.eth = k.pkt.eth]]
hc_encap_gue(k, real) ==
  IF ~k.pkt.room THEN KEnd(k, "TC_ACT_SHOT")
  ELSE IF reals[real].v6
  THEN [k EXCEPT !.out = create_v6_hdr(k, "UDP", "V6_SRC", real, create_udp_hdr)]
  ELSE [k EXCEPT !.out = [create_v4_hdr(k, "UDP", "V4_SRC", real, create_udp_hdr)
                          EXCEPT !.eth = k.pkt.eth]]

\* healthchecking_kern.c: the program builds the tunnel header itself.
healthchecker(k) ==
  IF k.pkt.mark = 0 \/ k.pkt.mark \notin DOMAIN hc_reals_map THEN KEnd(k, "TC_ACT_UNSPEC")
  ELSE IF k.pkt.big \/ "eth" \notin k.pkt.has THEN KEnd(k, "TC_ACT_SHOT")
  ELSE LET real == hc_reals_map[k.pkt.mark]
           e == IF KOn("GUE_ENCAP") THEN hc_encap_gue(k, real) ELSE hc_encap_ipip(k, real)
       IN  KEnd([e EXCEPT !.real = real, !.pkt.mark = 0], "redirect")
\* healthchecking_ipip.c: the tunnel device adds it.
healthchecker_ipip(k) ==
  IF k.pkt.mark = 0 \/ k.pkt.mark \notin DOMAIN hc_reals_map THEN KEnd(k, "TC_ACT_UNSPEC")
  ELSE IF k.pkt.big THEN KEnd(k, "TC_ACT_SHOT")
  ELSE LET r == hc_reals_map[k.pkt.mark]
       IN  KEnd([k EXCEPT !.real = r, !.pkt.mark = 0, !.by = IF reals[r].v6 THEN "v6_intf" ELSE "v4_intf"],
                "redirect")
-----------------------------------------------------------------------------
(* The steps.                                                              *)

\* What the comments of process_packet say belongs together: the packets of
\* a connection and the ICMP errors about it, for a VIP without a port the
\* connections to all its ports, with F_HASH_NO_SRC_PORT those from all ports.
Group(p) ==
  LET q == p.inner
      c == IF p.proto = "ICMP"
           THEN [src |-> q.dst, dst |-> q.src, sport |-> q.dport, dport |-> q.sport, proto |-> q.proto]
           ELSE [src |-> p.src, dst |-> p.dst, sport |-> p.sport, dport |-> p.dport, proto |-> p.proto]
      exact == [ip |-> c.dst, port |-> c.dport, proto |-> c.proto]
      any == [exact EXCEPT !.port = 0]
      vip == IF exact \in DOMAIN vip_map THEN exact ELSE any
  IN  [c EXCEPT !.dport = IF vip = exact THEN @ ELSE 0,
                !.sport = IF "F_HASH_NO_SRC_PORT" \in vip_map[vip].flags THEN 0 ELSE @]

\* The run a packet's journey ends with: a tunnel that ends here is taken
\* off and the packet in it starts again.
Again(k) == IF k.verdict = "again" THEN xdp_root(KRun(k.pkt)) ELSE k
Deliver(p) == Again(xdp_root(KRun(p)))

\* Flows that the connection table is to keep together.
Tracked(k) ==
  k.by \in {"lru", "ring", "source"}
  /\ vip_map[k.vip].flags \cap {"F_LRU_BYPASS", "F_HASH_DPORT_ONLY"} = {}

\* A choice made while the rate is exceeded is not recorded.
NewHome(k, g) ==
  IF ~Tracked(k) THEN home
  ELSE IF k.flood THEN [x \in DOMAIN home \ {g} |-> home[x]]
  ELSE KMapSet(home, g, [real |-> k.real, seen |-> ktime])

KEvent == kleft > 0 /\ kleft' = kleft - 1

KOutcome(k) ==
  LET g == IF Tracked(k) THEN Group(k.pkt) ELSE KNone
  IN  /\ KEvent
      /\ lru_mapping' = k.lru /\ conn_rate' = k.rate /\ vip_map' = k.vips
      /\ klast' = [group |-> g, real |-> k.real, by |-> k.by, verdict |-> k.verdict,
                   syn |-> "F_SYN_SET" \in k.flags]
      /\ home' = NewHome(k, g)
      /\ UNCHANGED <<ch_rings, ktime, kconfig>>
KArrive(p) == KOutcome(Deliver(p))

KProbe(p) ==
  LET k == IF KOn("TUNNEL_DEVICE") THEN healthchecker_ipip(KRun(p)) ELSE healthchecker(KRun(p))
  IN  /\ KEvent
      /\ klast' = [group |-> KNone, real |-> k.real, by |-> k.by, verdict |-> k.verdict, syn |-> FALSE]
      /\ UNCHANGED <<vip_map, lru_mapping, ch_rings, conn_rate, ktime, home, kconfig>>

\* The control plane gives a position of the ring to another real.
KSetRing(i, real) ==
  /\ KEvent
  /\ ch_rings[i] # real
  /\ ch_rings' = [ch_rings EXCEPT ![i] = real]
  /\ UNCHANGED <<vip_map, lru_mapping, conn_rate, ktime, klast, home, kconfig>>

\* The kernel makes room in the LRU map.
KEvict(f) ==
  /\ KEvent
  /\ lru_mapping' = [x \in DOMAIN lru_mapping \ {f} |-> lru_mapping[x]]
  /\ home' = [x \in DOMAIN home \ {f} |-> home[x]]
  /\ UNCHANGED <<vip_map, ch_rings, conn_rate, ktime, klast, kconfig>>

KTick ==
  /\ ktime < MaxKTime
  /\ ktime' = ktime + 1
  /\ UNCHANGED <<vip_map, lru_mapping, ch_rings, conn_rate, klast, home, kleft, kconfig>>

KatranNext ==
  \/ \E p \in KPackets(vip_map) : KArrive(p)
  \/ \E p \in KProbes : KProbe(p)
  \/ \E i \in DOMAIN ch_rings, r \in DOMAIN reals : KSetRing(i, r)
  \/ \E f \in DOMAIN lru_mapping : KEvict(f)
  \/ KTick

\* What the control plane has installed: the positions of the rings and the
\* routes by source lead to reals that are there.  reals is an array, so that
\* any index the driver gives out is.
KConfigured ==
  /\ KNone \notin DOMAIN reals
  /\ \A i \in DOMAIN ch_rings : ch_rings[i] \in DOMAIN reals
  /\ \A s \in DOMAIN lpm_src : lpm_src[s] \in DOMAIN reals
  /\ \A v \in DOMAIN vip_map : DOMAIN vip_map[v] = {"flags", "vip_num"}

\* No connection has been seen.
KatranInit ==
  /\ KConfigured
  /\ lru_mapping = [f \in {} |-> KNone] /\ home = [f \in {} |-> KNone]
  /\ klast = [group |-> KNone, real |-> KNone, by |-> "", verdict |-> "", syn |-> FALSE]
  /\ conn_rate = [v1 |-> 0, v2 |-> 0]
  /\ ktime = 0 /\ kleft = MaxKEvents

KatranSpec == KatranInit /\ [][KatranNext]_kvars
-----------------------------------------------------------------------------
(* A connection stays with its real server: after a packet of a group was  *)
(* given to a real, every later one that does not open a connection, and   *)
(* every ICMP error about one, goes to the same real, however the ring was *)
(* changed in between, until the entry is evicted or (UDP) times out       *)
(* (process_packet, connection_table_lookup, get_packet_dst).              *)
ConnectionAffinity ==
  [][LET g == klast'.group
     IN  klast' # klast /\ g # KNone /\ ~klast'.syn /\ g \in DOMAIN home =>
           \/ klast'.real = home[g].real
           \/ g.proto = "UDP" /\ ktime - home[g].seen > LRU_UDP_TIMEOUT]_kvars
=============================================================================
