------------------------------ MODULE NodeProofs ------------------------------
(***************************************************************************)
(* Proofs about the node: whatever packets arrive, whatever the agent does *)
(* and however the CPUs interleave, a connection tracking entry that       *)
(* should go does go.                                                      *)
(***************************************************************************)
EXTENDS Node, TLAPS

\* What the programs need of an entry of the connection tracking map.
Fields(e) == {"lifetime", "rx_closing", "tx_closing", "seen_non_syn"} \subseteq DOMAIN e
\* An entry under a key of this protocol, which has to go in time.
EntrySound(tcp, e) ==
  /\ Fields(e) /\ e.lifetime \in Int
  /\ tcp /\ ~e.seen_non_syn => e.lifetime <= now + CT_SYN_TIMEOUT
  /\ ~ct_entry_alive(e) => e.lifetime <= now + CT_CLOSE_TIMEOUT
CtSound(ct) == \A k \in DOMAIN ct : EntrySound(k.nexthdr = "TCP", ct[k])

\* The state of a program that runs now.
Sound(m) ==
  /\ now \in Nat
  /\ {"ct", "now"} \subseteq DOMAIN m
  /\ m.now = now
  /\ CtSound(m.ct)

-----------------------------------------------------------------------------
(* Connection tracking.                                                    *)

LEMMA Lifetimes ==
  /\ CT_CONNECTION_LIFETIME_TCP \in Nat /\ CT_CONNECTION_LIFETIME_NONTCP \in Nat
  /\ CT_SERVICE_LIFETIME_TCP \in Nat /\ CT_SERVICE_LIFETIME_NONTCP \in Nat
  /\ CT_SYN_TIMEOUT \in Nat /\ CT_CLOSE_TIMEOUT \in Nat
  /\ CT_CLOSE_TIMEOUT <= CT_SYN_TIMEOUT
BY LifetimeAssumption, TimeoutAssumption

LEMMA UpdateLifetime ==
  ASSUME NEW e, Fields(e), NEW lifetime, NEW dir, NEW flags
  PROVE  LET r == ct_update_lifetime(e, now, lifetime, dir, flags) IN
         /\ Fields(r) /\ r.lifetime = now + lifetime
         /\ r.rx_closing = e.rx_closing /\ r.tx_closing = e.tx_closing
         /\ r.seen_non_syn = e.seen_non_syn
BY DEF ct_update_lifetime, Fields

LEMMA UpdateTimeout ==
  ASSUME NEW e, Fields(e), NEW tcp, NEW dir, NEW flags, now \in Nat
  PROVE  LET r == ct_update_timeout(e, now, tcp, dir, flags) IN
         /\ Fields(r) /\ r.lifetime \in Int
         /\ r.rx_closing = e.rx_closing /\ r.tx_closing = e.tx_closing
         /\ tcp /\ ~r.seen_non_syn => r.lifetime <= now + CT_SYN_TIMEOUT
<1> DEFINE e1 == IF tcp /\ "SYN" \notin flags THEN [e EXCEPT !.seen_non_syn = TRUE] ELSE e
           svc == dir = "CT_SERVICE"
           lifetime ==
             CASE ~tcp -> IF svc THEN CT_SERVICE_LIFETIME_NONTCP ELSE CT_CONNECTION_LIFETIME_NONTCP
               [] tcp /\ e1.seen_non_syn -> IF svc THEN CT_SERVICE_LIFETIME_TCP ELSE CT_CONNECTION_LIFETIME_TCP
               [] OTHER -> CT_SYN_TIMEOUT
<1>1. Fields(e1) /\ e1.rx_closing = e.rx_closing /\ e1.tx_closing = e.tx_closing
  BY DEF Fields
<1>2. lifetime \in Nat /\ (tcp /\ ~e1.seen_non_syn => lifetime = CT_SYN_TIMEOUT)
  <2> HIDE DEF e1, svc
  <2> QED BY Lifetimes
<1>3. ct_update_timeout(e, now, tcp, dir, flags) = ct_update_lifetime(e1, now, lifetime, dir, flags)
  BY DEF ct_update_timeout
<1> HIDE DEF e1, lifetime
<1> QED BY <1>1, <1>2, <1>3, UpdateLifetime

LEMMA RefreshSound ==
  ASSUME now \in Nat, NEW tcp, NEW e, EntrySound(tcp, e), NEW dir, NEW flags
  PROVE  EntrySound(tcp, ct_refresh(e, now, tcp, dir, flags))
BY UpdateTimeout DEF ct_refresh, EntrySound, ct_entry_alive

LEMMA ReopenSound ==
  ASSUME now \in Nat, NEW tcp, NEW e, EntrySound(tcp, e), NEW dir, NEW flags
  PROVE  EntrySound(tcp, ct_reopen(e, now, tcp, dir, flags))
<1> DEFINE e1 == [ct_reset_seen_flags(ct_reset_closing(e)) EXCEPT !.seen_non_syn = FALSE]
<1>1. Fields(e1) /\ e1.rx_closing = FALSE /\ e1.tx_closing = FALSE
  BY DEF EntrySound, Fields, ct_reset_seen_flags, ct_reset_closing
<1>2. ct_reopen(e, now, tcp, dir, flags) = ct_update_timeout(e1, now, tcp, dir, flags)
  BY DEF ct_reopen
<1> HIDE DEF e1
<1> QED BY <1>1, <1>2, UpdateTimeout DEF EntrySound, ct_entry_alive

LEMMA CloseSound ==
  ASSUME now \in Nat, NEW tcp, NEW e, EntrySound(tcp, e), NEW dir, NEW flags
  PROVE  EntrySound(tcp, ct_close(e, now, dir, flags))
<1> DEFINE both == ~ct_entry_seen_both_syns(e) /\ "RST" \in flags /\ dir # "CT_SERVICE"
           rx == dir = "CT_INGRESS"
           e1 == [e EXCEPT !.rx_closing = @ \/ both \/ rx, !.tx_closing = @ \/ both \/ ~rx]
<1>1. Fields(e1) /\ e1.lifetime = e.lifetime /\ e1.seen_non_syn = e.seen_non_syn
  <2> HIDE DEF both, rx
  <2> QED BY DEF EntrySound, Fields
<1>2. ct_close(e, now, dir, flags)
        = IF ct_entry_alive(e1) THEN e1 ELSE ct_update_lifetime(e1, now, CT_CLOSE_TIMEOUT, dir, flags)
  BY DEF ct_close
<1> HIDE DEF e1
<1>3. CASE ct_entry_alive(e1)
  BY <1>1, <1>2, <1>3 DEF EntrySound
<1>4. CASE ~ct_entry_alive(e1)
  BY <1>1, <1>2, <1>4, UpdateLifetime, Lifetimes DEF EntrySound
<1> QED BY <1>3, <1>4

\* The map with one entry replaced or added.
LEMMA ReplaceSound ==
  ASSUME NEW ct, CtSound(ct), NEW k, NEW e, EntrySound(k.nexthdr = "TCP", e)
  PROVE  CtSound([ct EXCEPT ![k] = e])
BY DEF CtSound
LEMMA UpdateSound ==
  ASSUME NEW ct, CtSound(ct), NEW k, NEW e, EntrySound(k.nexthdr = "TCP", e)
  PROVE  CtSound(MapUpdate(ct, k, e))
BY DEF CtSound, MapUpdate

\* A program's own variables are not the map.
LEMMA SetSound ==
  ASSUME NEW m, Sound(m), NEW f, f # "ct", f # "now", NEW v
  PROVE  Sound([m EXCEPT ![f] = v])
BY DEF Sound

LEMMA Drop_Sound == ASSUME NEW m, Sound(m), NEW reason PROVE Sound(Drop(m, reason))
BY DEF Drop, Sound

LEMMA ct_lookup_hit_Sound ==
  ASSUME NEW m, Sound(m), NEW e, NEW action, NEW dir, NEW tcp, NEW flags,
         tcp = (m.tuple.nexthdr = "TCP"), EntrySound(tcp, e)
  PROVE  Sound(ct_lookup_hit(m, e, action, dir, tcp, flags))
<1> DEFINE r == ct_lookup_hit(m, e, action, dir, tcp, flags)
           reopened == action = "ACTION_CREATE" /\ ct_entry_closing(e)
           e1 == IF reopened THEN ct_reopen(e, m.now, tcp, dir, flags)
                 ELSE IF action = "ACTION_CLOSE" THEN ct_close(e, m.now, dir, flags) ELSE e
<1>1. EntrySound(tcp, e1)
  BY ReopenSound, CloseSound DEF Sound
<1>2. r.ct = [m.ct EXCEPT ![m.tuple] = e1] /\ DOMAIN r = DOMAIN m /\ r.now = m.now
  BY DEF ct_lookup_hit, Sound
<1> HIDE DEF r, e1
<1>3. CtSound(r.ct)
  BY <1>1, <1>2, ReplaceSound DEF Sound
<1>4. Sound(r)
  BY <1>2, <1>3 DEF Sound
<1> QED BY <1>4 DEF r

LEMMA ct_lookup_tuple_Sound ==
  ASSUME NEW m, Sound(m), NEW action, NEW dir, NEW types, NEW tcp, NEW flags,
         tcp = (m.tuple.nexthdr = "TCP")
  PROVE  Sound(ct_lookup_tuple(m, action, dir, types, tcp, flags))
<1> DEFINE e == m.ct[m.tuple]
<1>1. Sound([m EXCEPT !.ret = "CT_NEW"])
  BY DEF Sound
<1>2. ASSUME Has(m.ct, m.tuple)
      PROVE  Sound(ct_lookup_hit(m, ct_refresh(e, m.now, tcp, dir, flags), action, dir, tcp, flags))
  <2>1. EntrySound(tcp, e)
    BY <1>2 DEF Sound, CtSound, Has
  <2>2. EntrySound(tcp, ct_refresh(e, m.now, tcp, dir, flags))
    BY <2>1, RefreshSound DEF Sound
  <2> QED BY <2>2, ct_lookup_hit_Sound
<1> QED BY <1>1, <1>2 DEF ct_lookup_tuple

LEMMA ct_lookup_packet_Sound == ASSUME NEW m, Sound(m), NEW dir, NEW types PROVE Sound(ct_lookup_packet(m, dir, types))
BY ct_lookup_tuple_Sound DEF ct_lookup_packet

LEMMA ct_insert_Sound ==
  ASSUME NEW m, Sound(m), NEW e, NEW related,
         EntrySound(m.tuple.nexthdr = "TCP", e), EntrySound(FALSE, e)
  PROVE  Sound(ct_insert(m, e, related))
<1> DEFINE m1 == [m EXCEPT !.ct = MapUpdate(@, m.tuple, e)]
           m2 == [m1 EXCEPT !.ct = MapUpdate(@, RelatedTuple(m.tuple), e)]
<1>1. Sound(m1)
  BY UpdateSound DEF Sound
<1>2. EntrySound(RelatedTuple(m.tuple).nexthdr = "TCP", e)
  BY DEF RelatedTuple
<1> HIDE DEF m1
<1>3. Sound(m2)
  BY <1>1, <1>2, UpdateSound DEF Sound
<1> HIDE DEF m2
<1>4. ct_insert(m, e, related) \in {Drop(m, "DROP_CT_CREATE_FAILED"), m1, Drop(m1, "DROP_CT_CREATE_FAILED"), m2}
  BY DEF ct_insert, m1, m2
<1> QED BY <1>1, <1>3, <1>4, Drop_Sound

LEMMA ct_create_Sound ==
  ASSUME NEW m, Sound(m), NEW e0, NEW dir, NEW s, NEW related,
         Fields(e0), e0.rx_closing = FALSE, e0.tx_closing = FALSE
  PROVE  Sound(ct_create(m, e0, dir, s, related))
<1> DEFINE tcp == m.tuple.nexthdr = "TCP"
           e1 == [e0 EXCEPT !.rev_nat_index = s.rev_nat_index]
           e2 == ct_update_timeout(e1, m.now, tcp, dir, IF tcp THEN {"SYN"} ELSE {})
           e3 == [e2 EXCEPT !.src_sec_id = s.src_sec_id]
<1>1. Fields(e1) /\ e1.rx_closing = FALSE /\ e1.tx_closing = FALSE
  BY DEF Fields
<1> HIDE DEF e1
<1>2. EntrySound(tcp, e2)
  <2> DEFINE flags == IF tcp THEN {"SYN"} ELSE {}
  <2>1. e2 = ct_update_timeout(e1, now, tcp, dir, flags)
    BY DEF Sound
  <2> HIDE DEF e2, tcp, flags
  <2> QED BY <1>1, <2>1, UpdateTimeout DEF Sound, EntrySound, ct_entry_alive
<1> HIDE DEF e2
<1>3. EntrySound(tcp, e3) /\ EntrySound(FALSE, e3)
  BY <1>2 DEF EntrySound, Fields, ct_entry_alive
<1> HIDE DEF e3
<1>4. ct_create(m, e0, dir, s, related) = ct_insert(m, e3, related)
  BY DEF ct_create, e1, e2, e3
<1> QED BY <1>3, <1>4, ct_insert_Sound

LEMMA NewEntry == Fields(ct_entry) /\ ct_entry.rx_closing = FALSE /\ ct_entry.tx_closing = FALSE
BY DEF ct_entry, Fields

LEMMA ct_create4_Sound ==
  ASSUME NEW m, Sound(m), NEW dir, NEW s, NEW proxy_redirect, NEW from_l7lb, NEW related
  PROVE  Sound(ct_create4(m, dir, s, proxy_redirect, from_l7lb, related))
<1> DEFINE e0 == IF dir = "CT_SERVICE" THEN [ct_entry EXCEPT !.backend_id = s.backend_id]
                 ELSE [ct_entry EXCEPT !.lb_loopback = s.loopback, !.node_port = s.node_port,
                         !.dsr = s.dsr, !.from_tunnel = s.from_tunnel, !.ifindex = s.ifindex,
                         !.proxy_redirect = proxy_redirect, !.from_l7lb = from_l7lb]
<1>1. Fields(e0) /\ e0.rx_closing = FALSE /\ e0.tx_closing = FALSE
  BY NewEntry DEF Fields
<1>2. ct_create4(m, dir, s, proxy_redirect, from_l7lb, related) = ct_create(m, e0, dir, s, related)
  BY DEF ct_create4
<1> HIDE DEF e0
<1> QED BY <1>1, <1>2, ct_create_Sound

LEMMA ct_create6_Sound ==
  ASSUME NEW m, Sound(m), NEW dir, NEW s, NEW proxy_redirect, NEW from_l7lb, NEW related
  PROVE  Sound(ct_create6(m, dir, s, proxy_redirect, from_l7lb, related))
<1> DEFINE e0 == IF dir = "CT_SERVICE" THEN [ct_entry EXCEPT !.backend_id = s.backend_id]
                 ELSE [ct_entry EXCEPT !.node_port = s.node_port, !.dsr = s.dsr,
                         !.ifindex = s.ifindex, !.proxy_redirect = proxy_redirect,
                         !.from_l7lb = from_l7lb]
<1>1. Fields(e0) /\ e0.rx_closing = FALSE /\ e0.tx_closing = FALSE
  BY NewEntry DEF Fields
<1>2. ct_create6(m, dir, s, proxy_redirect, from_l7lb, related) = ct_create(m, e0, dir, s, related)
  BY DEF ct_create6
<1> HIDE DEF e0
<1> QED BY <1>1, <1>2, ct_create_Sound

\* A field of the entry that does not decide how long it lives is set.
LEMMA SetFieldSound ==
  ASSUME NEW ct, CtSound(ct), NEW t \in DOMAIN ct, NEW v,
         NEW f \in {"backend_id", "rev_nat_index", "dsr", "node_port"}
  PROVE  CtSound([ct EXCEPT ![t] = [ct[t] EXCEPT ![f] = v]])
<1>1. EntrySound(t.nexthdr = "TCP", [ct[t] EXCEPT ![f] = v])
  BY DEF CtSound, EntrySound, Fields, ct_entry_alive
<1> HIDE DEF CtSound
<1> QED BY <1>1, ReplaceSound

LEMMA ct_update_rev_nat_index_Sound ==
  ASSUME NEW m, Sound(m), NEW t, NEW s PROVE Sound(ct_update_rev_nat_index(m, t, s))
BY SetFieldSound DEF ct_update_rev_nat_index, Sound, Has
LEMMA ct_update_dsr_Sound ==
  ASSUME NEW m, Sound(m), NEW t, NEW dsr PROVE Sound(ct_update_dsr(m, t, dsr))
BY SetFieldSound DEF ct_update_dsr, Sound, Has
LEMMA ct_update_nodeport_Sound ==
  ASSUME NEW m, Sound(m), NEW t, NEW np PROVE Sound(ct_update_nodeport(m, t, np))
BY SetFieldSound DEF ct_update_nodeport, Sound, Has
LEMMA ct_update_svc_entry_Sound ==
  ASSUME NEW m, Sound(m), NEW t, NEW backend_id, NEW rev_nat_index
  PROVE  Sound(ct_update_svc_entry(m, t, backend_id, rev_nat_index))
BY SetFieldSound DEF ct_update_svc_entry, Sound, Has

-----------------------------------------------------------------------------
(* The other operators of the programs, one lemma each and in the order of *)
(* their modules: a sound state stays sound.  They change their own        *)
(* variables, or call operators whose lemmas come before.                  *)

(* Looking up a packet (Conntrack).                                        *)

LEMMA ipv4_extract_tuple_Sound ==
  ASSUME NEW m, Sound(m) PROVE Sound(ipv4_extract_tuple(m))
BY Drop_Sound, SetSound DEF ipv4_extract_tuple
LEMMA ipv6_extract_tuple_Sound ==
  ASSUME NEW m, Sound(m) PROVE Sound(ipv6_extract_tuple(m))
BY Drop_Sound, SetSound DEF ipv6_extract_tuple
LEMMA SetPorts_Sound ==
  ASSUME NEW m, Sound(m), NEW ports PROVE Sound(SetPorts(m, ports))
BY SetSound DEF SetPorts
LEMMA l4_load_ports_Sound ==
  ASSUME NEW m, Sound(m) PROVE Sound(l4_load_ports(m))
BY Drop_Sound, SetPorts_Sound DEF l4_load_ports
LEMMA ipv4_frag_get_l4ports_Sound ==
  ASSUME NEW m, Sound(m) PROVE Sound(ipv4_frag_get_l4ports(m))
BY SetPorts_Sound, Drop_Sound DEF ipv4_frag_get_l4ports
LEMMA ipv4_handle_fragmentation_Sound ==
  ASSUME NEW m, Sound(m) PROVE Sound(ipv4_handle_fragmentation(m))
BY ipv4_frag_get_l4ports_Sound, l4_load_ports_Sound, SetSound DEF ipv4_handle_fragmentation
LEMMA ipv4_load_l4_ports_Sound ==
  ASSUME NEW m, Sound(m) PROVE Sound(ipv4_load_l4_ports(m))
BY ipv4_handle_fragmentation_Sound, l4_load_ports_Sound DEF ipv4_load_l4_ports
LEMMA ct_extract_icmp_Sound ==
  ASSUME NEW m, Sound(m) PROVE Sound(ct_extract_icmp(m))
BY Drop_Sound, SetSound DEF ct_extract_icmp
LEMMA ct_extract_ports4_Sound ==
  ASSUME NEW m, Sound(m) PROVE Sound(ct_extract_ports4(m))
BY ct_extract_icmp_Sound, ipv4_load_l4_ports_Sound, Drop_Sound DEF ct_extract_ports4
LEMMA ct_extract_ports6_Sound ==
  ASSUME NEW m, Sound(m) PROVE Sound(ct_extract_ports6(m))
BY ct_extract_icmp_Sound, l4_load_ports_Sound, Drop_Sound DEF ct_extract_ports6
LEMMA ct_lookup_scope4_Sound ==
  ASSUME NEW m, Sound(m), NEW dir, NEW scope, NEW types PROVE Sound(ct_lookup_scope4(m, dir, scope, types))
BY Drop_Sound, ct_lookup_packet_Sound, SetSound DEF ct_lookup_scope4, ct_lookup_scope, ct_lookup_other
LEMMA ct_lookup_scope6_Sound ==
  ASSUME NEW m, Sound(m), NEW dir, NEW scope, NEW types PROVE Sound(ct_lookup_scope6(m, dir, scope, types))
BY Drop_Sound, ct_lookup_packet_Sound, SetSound DEF ct_lookup_scope6, ct_lookup_scope, ct_lookup_other
LEMMA ct_lazy_lookup4_Sound ==
  ASSUME NEW m, Sound(m), NEW dir, NEW scope, NEW types PROVE Sound(ct_lazy_lookup4(m, dir, scope, types))
BY ct_lookup_scope4_Sound, SetSound DEF ct_lazy_lookup4
LEMMA ct_lazy_lookup6_Sound ==
  ASSUME NEW m, Sound(m), NEW dir, NEW scope, NEW types PROVE Sound(ct_lazy_lookup6(m, dir, scope, types))
BY ct_lookup_scope6_Sound, SetSound DEF ct_lazy_lookup6
LEMMA ct_lookup4_Sound ==
  ASSUME NEW m, Sound(m), NEW dir PROVE Sound(ct_lookup4(m, dir))
BY ct_lookup_scope4_Sound, ct_extract_ports4_Sound, SetSound DEF ct_lookup4, Then
LEMMA ct_lookup6_Sound ==
  ASSUME NEW m, Sound(m), NEW dir PROVE Sound(ct_lookup6(m, dir))
BY ct_lookup_scope6_Sound, ct_extract_ports6_Sound, SetSound DEF ct_lookup6, Then

(* Services (LoadBalancer).                                                *)

LEMMA lb4_extract_tuple_Sound ==
  ASSUME NEW m, Sound(m) PROVE Sound(lb4_extract_tuple(m))
BY ipv4_load_l4_ports_Sound, Drop_Sound, SetSound DEF lb4_extract_tuple
LEMMA lb6_extract_tuple_Sound ==
  ASSUME NEW m, Sound(m) PROVE Sound(lb6_extract_tuple(m))
BY l4_load_ports_Sound, Drop_Sound, SetSound DEF lb6_extract_tuple
LEMMA lb4_affinity_backend_id_Sound ==
  ASSUME NEW m, Sound(m), NEW svc, NEW netns, NEW client
  PROVE  Sound(lb4_affinity_backend_id(m, svc, netns, client))
BY SetSound DEF lb4_affinity_backend_id
LEMMA lb6_affinity_backend_id_Sound ==
  ASSUME NEW m, Sound(m), NEW svc, NEW netns, NEW client
  PROVE  Sound(lb6_affinity_backend_id(m, svc, netns, client))
BY lb4_affinity_backend_id_Sound DEF lb6_affinity_backend_id
LEMMA lb4_update_affinity_Sound ==
  ASSUME NEW m, Sound(m), NEW svc, NEW netns, NEW client, NEW id
  PROVE  Sound(lb4_update_affinity(m, svc, netns, client, id))
BY SetSound DEF lb4_update_affinity
LEMMA lb6_update_affinity_Sound ==
  ASSUME NEW m, Sound(m), NEW svc, NEW netns, NEW client, NEW id
  PROVE  Sound(lb6_update_affinity(m, svc, netns, client, id))
BY lb4_update_affinity_Sound DEF lb6_update_affinity
LEMMA lb_l4_xlate_Sound ==
  ASSUME NEW m, Sound(m), NEW dport, NEW backend_port PROVE Sound(lb_l4_xlate(m, dport, backend_port))
BY Drop_Sound, SetSound DEF lb_l4_xlate
LEMMA lb4_xlate_Sound ==
  ASSUME NEW m, Sound(m), NEW new_saddr, NEW key, NEW be, NEW skip_l3_xlate
  PROVE  Sound(lb4_xlate(m, new_saddr, key, be, skip_l3_xlate))
BY lb_l4_xlate_Sound, SetSound DEF lb4_xlate
LEMMA lb6_xlate_Sound ==
  ASSUME NEW m, Sound(m), NEW key, NEW be, NEW skip_l3_xlate
  PROVE  Sound(lb6_xlate(m, key, be, skip_l3_xlate))
BY lb_l4_xlate_Sound, SetSound DEF lb6_xlate
LEMMA reverse_map_l4_port_Sound ==
  ASSUME NEW m, Sound(m), NEW port PROVE Sound(reverse_map_l4_port(m, port))
BY Drop_Sound, SetSound DEF reverse_map_l4_port
LEMMA lb4_rev_nat_entry_Sound ==
  ASSUME NEW m, Sound(m), NEW nat, NEW loopback, NEW tuple_saddr, NEW hasl4
  PROVE  Sound(lb4_rev_nat_entry(m, nat, loopback, tuple_saddr, hasl4))
BY reverse_map_l4_port_Sound, SetSound DEF lb4_rev_nat_entry
LEMMA lb6_rev_nat_entry_Sound ==
  ASSUME NEW m, Sound(m), NEW nat, NEW tuple_saddr PROVE Sound(lb6_rev_nat_entry(m, nat, tuple_saddr))
BY reverse_map_l4_port_Sound, SetSound DEF lb6_rev_nat_entry
LEMMA lb4_rev_nat_Sound ==
  ASSUME NEW m, Sound(m), NEW index, NEW loopback, NEW tuple_saddr, NEW hasl4
  PROVE  Sound(lb4_rev_nat(m, index, loopback, tuple_saddr, hasl4))
BY lb4_rev_nat_entry_Sound DEF lb4_rev_nat
LEMMA lb6_rev_nat_Sound ==
  ASSUME NEW m, Sound(m), NEW index, NEW tuple_saddr PROVE Sound(lb6_rev_nat(m, index, tuple_saddr))
BY lb6_rev_nat_entry_Sound DEF lb6_rev_nat
LEMMA lb_affine_Sound ==
  ASSUME NEW m, Sound(m), NEW svc PROVE Sound(lb_affine(m, svc))
BY lb4_affinity_backend_id_Sound, SetSound DEF lb_affine
LEMMA lb_numbered_Sound ==
  ASSUME NEW m, Sound(m), NEW svc PROVE Sound(lb_numbered(m, svc))
BY ct_update_rev_nat_index_Sound, SetSound DEF lb_numbered
LEMMA lb_adopt_Sound ==
  ASSUME NEW m, Sound(m), NEW svc PROVE Sound(lb_adopt(m, svc))
BY ct_update_svc_entry_Sound, SetSound DEF lb_adopt
LEMMA lb_make_over_Sound ==
  ASSUME NEW m, Sound(m), NEW svc PROVE Sound(lb_make_over(m, svc))
BY Drop_Sound, lb_adopt_Sound DEF lb_make_over
LEMMA lb_remember_Sound ==
  ASSUME NEW m, Sound(m), NEW svc PROVE Sound(lb_remember(m, svc))
BY lb4_update_affinity_Sound DEF lb_remember
LEMMA lb4_to_backend_Sound ==
  ASSUME NEW m, Sound(m), NEW key, NEW be, NEW skip_l3_xlate
  PROVE  Sound(lb4_to_backend(m, key, be, skip_l3_xlate))
BY lb4_xlate_Sound, SetSound DEF lb4_to_backend
LEMMA lb4_chosen_Sound ==
  ASSUME NEW m, Sound(m), NEW key, NEW skip_l3_xlate PROVE Sound(lb4_chosen(m, key, skip_l3_xlate))
BY lb4_to_backend_Sound DEF lb4_chosen
LEMMA lb4_local_Sound ==
  ASSUME NEW m, Sound(m), NEW key, NEW svc, NEW skip_l3_xlate PROVE Sound(lb4_local(m, key, svc, skip_l3_xlate))
<1> DEFINE Lazy(n) == ct_lazy_lookup4(n, "CT_SERVICE", "SCOPE_REVERSE", {})
           Create(n, s) == ct_create4(n, "CT_SERVICE", s, FALSE, FALSE, FALSE)
           Lookup(n, k) == lb4_lookup_service(n, k, FALSE, TRUE)
           Select(n, s) == lb4_select_backend_id(n, s)
<1>1. ASSUME NEW n, Sound(n) PROVE Sound(Lazy(n))
  BY <1>1, ct_lazy_lookup4_Sound
<1>2. ASSUME NEW n, Sound(n), NEW s PROVE Sound(Create(n, s))
  BY <1>2, ct_create4_Sound
<1>3. lb4_local(m, key, svc, skip_l3_xlate)
        = lb4_chosen(lb_choose(m, key, svc, Lazy, Create, Select, Lookup), key, skip_l3_xlate)
  BY DEF lb4_local, lb_choose, lb_from_ct, lb_new_backend, lb_known_backend, lb_first_choice, lb_record,
         lb_checked_backend, lb_entry_backend, lb_replace_backend, lb_second_choice
<1> HIDE DEF Lazy, Create, Lookup, Select
<1>4. ASSUME NEW n, Sound(n) PROVE Sound(lb_new_backend(n, svc, Select, Create))
  <2> DEFINE b == lb_first_choice(lb_affine(n, svc), svc, Select)
             s == [b.state EXCEPT !.backend_id = b.backend, !.rev_nat_index = svc.rev_nat_index]
  <2>1. Sound(b)
    BY <1>4, lb_affine_Sound, SetSound DEF lb_first_choice
  <2>2. lb_new_backend(n, svc, Select, Create) = lb_record(b, s, Create)
    BY DEF lb_new_backend, lb_record
  <2> HIDE DEF b, s
  <2> QED BY <2>1, <2>2, <1>2, Drop_Sound, SetSound DEF lb_record
<1>5. ASSUME NEW n, Sound(n) PROVE Sound(lb_known_backend(n, key, svc, Select, Lookup))
  <2> DEFINE n1 == lb_numbered(n, svc)
             n2 == lb_entry_backend(n1, svc, Select)
             n3 == lb_second_choice(lb_affine(n1, svc), svc, Select)
  <2>1. Sound(n1)
    BY <1>5, lb_numbered_Sound
  <2>2. Sound(n2)
    <3> HIDE DEF n1
    <3>1. Sound(n3)
      BY <2>1, lb_affine_Sound, SetSound DEF lb_second_choice
    <3>2. n2 = IF n1.state.rev_nat_index = svc.rev_nat_index THEN [n1 EXCEPT !.backend = n1.state.backend_id]
               ELSE lb_make_over(n3, svc)
      BY DEF lb_entry_backend
    <3> HIDE DEF n2, n3
    <3> QED BY <2>1, <3>1, <3>2, lb_make_over_Sound, SetSound
  <2>3. lb_known_backend(n, key, svc, Select, Lookup) = lb_checked_backend(n2, key, Select, Lookup)
    BY DEF lb_known_backend, lb_checked_backend, lb_replace_backend
  <2> HIDE DEF n2
  <2> QED BY <2>2, <2>3, Drop_Sound, lb_adopt_Sound, SetSound DEF lb_checked_backend, lb_replace_backend
<1>6. ASSUME NEW n, Sound(n) PROVE Sound(lb_from_ct(n, key, svc, Create, Select, Lookup))
  BY <1>4, <1>5, <1>6, Drop_Sound DEF lb_from_ct
<1>7. Sound(lb_choose(m, key, svc, Lazy, Create, Select, Lookup))
  <2> DEFINE c == lb_from_ct(Lazy(m), key, svc, Create, Select, Lookup)
  <2>1. Sound(c)
    BY <1>1, <1>6
  <2>2. lb_choose(m, key, svc, Lazy, Create, Select, Lookup)
          = IF svc.count = 0 THEN Drop(m, "DROP_NO_SERVICE")
            ELSE lb_remember([c EXCEPT !.tuple.flags = m.tuple.flags], svc)
    BY DEF lb_choose
  <2> HIDE DEF c
  <2> QED BY <2>1, <2>2, Drop_Sound, lb_remember_Sound, SetSound
<1> QED BY <1>3, <1>7, lb4_chosen_Sound
LEMMA lb6_to_backend_Sound ==
  ASSUME NEW m, Sound(m), NEW key, NEW be, NEW skip_l3_xlate
  PROVE  Sound(lb6_to_backend(m, key, be, skip_l3_xlate))
BY lb6_xlate_Sound, SetSound DEF lb6_to_backend
LEMMA lb6_chosen_Sound ==
  ASSUME NEW m, Sound(m), NEW key, NEW skip_l3_xlate PROVE Sound(lb6_chosen(m, key, skip_l3_xlate))
BY lb6_to_backend_Sound DEF lb6_chosen
LEMMA lb6_local_Sound ==
  ASSUME NEW m, Sound(m), NEW key, NEW svc, NEW skip_l3_xlate PROVE Sound(lb6_local(m, key, svc, skip_l3_xlate))
<1> DEFINE Lazy(n) == ct_lazy_lookup6(n, "CT_SERVICE", "SCOPE_REVERSE", {})
           Create(n, s) == ct_create6(n, "CT_SERVICE", s, FALSE, FALSE, FALSE)
           Lookup(n, k) == lb6_lookup_service(n, k, FALSE, TRUE)
           Select(n, s) == lb6_select_backend_id(n, s)
<1>1. ASSUME NEW n, Sound(n) PROVE Sound(Lazy(n))
  BY <1>1, ct_lazy_lookup6_Sound
<1>2. ASSUME NEW n, Sound(n), NEW s PROVE Sound(Create(n, s))
  BY <1>2, ct_create6_Sound
<1>3. lb6_local(m, key, svc, skip_l3_xlate)
        = lb6_chosen(lb_choose(m, key, svc, Lazy, Create, Select, Lookup), key, skip_l3_xlate)
  BY DEF lb6_local, lb_choose, lb_from_ct, lb_new_backend, lb_known_backend, lb_first_choice, lb_record,
         lb_checked_backend, lb_entry_backend, lb_replace_backend, lb_second_choice
<1> HIDE DEF Lazy, Create, Lookup, Select
<1>4. ASSUME NEW n, Sound(n) PROVE Sound(lb_new_backend(n, svc, Select, Create))
  <2> DEFINE b == lb_first_choice(lb_affine(n, svc), svc, Select)
             s == [b.state EXCEPT !.backend_id = b.backend, !.rev_nat_index = svc.rev_nat_index]
  <2>1. Sound(b)
    BY <1>4, lb_affine_Sound, SetSound DEF lb_first_choice
  <2>2. lb_new_backend(n, svc, Select, Create) = lb_record(b, s, Create)
    BY DEF lb_new_backend, lb_record
  <2> HIDE DEF b, s
  <2> QED BY <2>1, <2>2, <1>2, Drop_Sound, SetSound DEF lb_record
<1>5. ASSUME NEW n, Sound(n) PROVE Sound(lb_known_backend(n, key, svc, Select, Lookup))
  <2> DEFINE n1 == lb_numbered(n, svc)
             n2 == lb_entry_backend(n1, svc, Select)
             n3 == lb_second_choice(lb_affine(n1, svc), svc, Select)
  <2>1. Sound(n1)
    BY <1>5, lb_numbered_Sound
  <2>2. Sound(n2)
    <3> HIDE DEF n1
    <3>1. Sound(n3)
      BY <2>1, lb_affine_Sound, SetSound DEF lb_second_choice
    <3>2. n2 = IF n1.state.rev_nat_index = svc.rev_nat_index THEN [n1 EXCEPT !.backend = n1.state.backend_id]
               ELSE lb_make_over(n3, svc)
      BY DEF lb_entry_backend
    <3> HIDE DEF n2, n3
    <3> QED BY <2>1, <3>1, <3>2, lb_make_over_Sound, SetSound
  <2>3. lb_known_backend(n, key, svc, Select, Lookup) = lb_checked_backend(n2, key, Select, Lookup)
    BY DEF lb_known_backend, lb_checked_backend, lb_replace_backend
  <2> HIDE DEF n2
  <2> QED BY <2>2, <2>3, Drop_Sound, lb_adopt_Sound, SetSound DEF lb_checked_backend, lb_replace_backend
<1>6. ASSUME NEW n, Sound(n) PROVE Sound(lb_from_ct(n, key, svc, Create, Select, Lookup))
  BY <1>4, <1>5, <1>6, Drop_Sound DEF lb_from_ct
<1>7. Sound(lb_choose(m, key, svc, Lazy, Create, Select, Lookup))
  <2> DEFINE c == lb_from_ct(Lazy(m), key, svc, Create, Select, Lookup)
  <2>1. Sound(c)
    BY <1>1, <1>6
  <2>2. lb_choose(m, key, svc, Lazy, Create, Select, Lookup)
          = IF svc.count = 0 THEN Drop(m, "DROP_NO_SERVICE")
            ELSE lb_remember([c EXCEPT !.tuple.flags = m.tuple.flags], svc)
    BY DEF lb_choose
  <2> HIDE DEF c
  <2> QED BY <2>1, <2>2, Drop_Sound, lb_remember_Sound, SetSound
<1> QED BY <1>3, <1>7, lb6_chosen_Sound
LEMMA lb4_ctx_store_state_Sound ==
  ASSUME NEW m, Sound(m), NEW state, NEW proxy_port PROVE Sound(lb4_ctx_store_state(m, state, proxy_port))
BY SetSound DEF lb4_ctx_store_state
LEMMA lb4_ctx_restore_state_Sound ==
  ASSUME NEW m, Sound(m) PROVE Sound(lb4_ctx_restore_state(m))
BY SetSound DEF lb4_ctx_restore_state
LEMMA lb6_ctx_store_state_Sound ==
  ASSUME NEW m, Sound(m), NEW state, NEW proxy_port PROVE Sound(lb6_ctx_store_state(m, state, proxy_port))
BY SetSound DEF lb6_ctx_store_state
LEMMA lb6_ctx_restore_state_Sound ==
  ASSUME NEW m, Sound(m) PROVE Sound(lb6_ctx_restore_state(m))
BY SetSound DEF lb6_ctx_restore_state
LEMMA tail_no_service_ipv4_Sound ==
  ASSUME NEW m, Sound(m) PROVE Sound(tail_no_service_ipv4(m))
BY SetSound DEF tail_no_service_ipv4
LEMMA ratelimit_check_and_take_Sound ==
  ASSUME NEW m, Sound(m) PROVE Sound(ratelimit_check_and_take(m))
BY Drop_Sound, SetSound DEF ratelimit_check_and_take
LEMMA tail_no_service_ipv6_Sound ==
  ASSUME NEW m, Sound(m) PROVE Sound(tail_no_service_ipv6(m))
BY ratelimit_check_and_take_Sound, SetSound DEF tail_no_service_ipv6, Then

(* Identity, policy and proxies (Policy).                                  *)

LEMMA set_identity_mark_Sound ==
  ASSUME NEW m, Sound(m), NEW id, NEW magic PROVE Sound(set_identity_mark(m, id, magic))
BY SetSound DEF set_identity_mark
LEMMA set_identity_meta_Sound ==
  ASSUME NEW m, Sound(m), NEW id PROVE Sound(set_identity_meta(m, id))
BY SetSound DEF set_identity_meta
LEMMA set_encrypt_key_mark_Sound ==
  ASSUME NEW m, Sound(m), NEW key, NEW node_id PROVE Sound(set_encrypt_key_mark(m, key, node_id))
BY SetSound DEF set_encrypt_key_mark
LEMMA set_encrypt_key_meta_Sound ==
  ASSUME NEW m, Sound(m), NEW key, NEW node_id PROVE Sound(set_encrypt_key_meta(m, key, node_id))
BY SetSound DEF set_encrypt_key_meta
LEMMA inherit_identity_from_host_Sound ==
  ASSUME NEW m, Sound(m) PROVE Sound(inherit_identity_from_host(m))
BY SetSound DEF inherit_identity_from_host
LEMMA ctx_skip_nodeport_clear_Sound ==
  ASSUME NEW m, Sound(m) PROVE Sound(ctx_skip_nodeport_clear(m))
BY SetSound DEF ctx_skip_nodeport_clear
LEMMA ctx_skip_nodeport_set_Sound ==
  ASSUME NEW m, Sound(m) PROVE Sound(ctx_skip_nodeport_set(m))
BY SetSound DEF ctx_skip_nodeport_set
LEMMA ctx_skip_host_fw_set_Sound ==
  ASSUME NEW m, Sound(m) PROVE Sound(ctx_skip_host_fw_set(m))
BY SetSound DEF ctx_skip_host_fw_set
LEMMA ctx_skip_host_fw_clear_Sound ==
  ASSUME NEW m, Sound(m) PROVE Sound(ctx_skip_host_fw_clear(m))
BY SetSound DEF ctx_skip_host_fw_clear
LEMMA ctx_snat_done_set_Sound ==
  ASSUME NEW m, Sound(m) PROVE Sound(ctx_snat_done_set(m))
BY SetSound DEF ctx_snat_done_set
LEMMA account_and_check_Sound ==
  ASSUME NEW m, Sound(m), NEW entry PROVE Sound(account_and_check(m, entry))
BY SetSound DEF account_and_check
LEMMA policy_decide_Sound ==
  ASSUME NEW m, Sound(m), NEW key, NEW untracked_fragment
  PROVE  Sound(policy_decide(m, key, untracked_fragment))
BY account_and_check_Sound, SetSound DEF policy_decide
LEMMA policy_can_access_Sound ==
  ASSUME NEW m, Sound(m), NEW remote_id, NEW egress, NEW dport, NEW untracked_fragment
  PROVE  Sound(policy_can_access(m, remote_id, egress, dport, untracked_fragment))
BY policy_decide_Sound, SetSound DEF policy_can_access
LEMMA Audit_Sound ==
  ASSUME NEW m, Sound(m) PROVE Sound(Audit(m))
BY SetSound DEF Audit
LEMMA policy_can_ingress_Sound ==
  ASSUME NEW m, Sound(m), NEW src_id, NEW untracked_fragment
  PROVE  Sound(policy_can_ingress(m, src_id, untracked_fragment))
BY Audit_Sound, policy_can_access_Sound DEF policy_can_ingress
LEMMA policy_can_ingress4_Sound ==
  ASSUME NEW m, Sound(m), NEW src_id, NEW untracked_fragment
  PROVE  Sound(policy_can_ingress4(m, src_id, untracked_fragment))
BY policy_can_ingress_Sound DEF policy_can_ingress4
LEMMA policy_can_ingress6_Sound ==
  ASSUME NEW m, Sound(m), NEW src_id PROVE Sound(policy_can_ingress6(m, src_id))
BY policy_can_ingress_Sound DEF policy_can_ingress6
LEMMA policy_can_egress_Sound ==
  ASSUME NEW m, Sound(m), NEW src_id, NEW dst_id PROVE Sound(policy_can_egress(m, src_id, dst_id))
BY Audit_Sound, policy_can_access_Sound, SetSound DEF policy_can_egress
LEMMA policy_can_egress4_Sound ==
  ASSUME NEW m, Sound(m), NEW src_id, NEW dst_id PROVE Sound(policy_can_egress4(m, src_id, dst_id))
BY policy_can_egress_Sound DEF policy_can_egress4
LEMMA policy_can_egress6_Sound ==
  ASSUME NEW m, Sound(m), NEW src_id, NEW dst_id PROVE Sound(policy_can_egress6(m, src_id, dst_id))
BY policy_can_egress_Sound DEF policy_can_egress6
LEMMA policy_mark_skip_Sound ==
  ASSUME NEW m, Sound(m) PROVE Sound(policy_mark_skip(m))
BY SetSound DEF policy_mark_skip
LEMMA policy_clear_mark_Sound ==
  ASSUME NEW m, Sound(m) PROVE Sound(policy_clear_mark(m))
BY SetSound DEF policy_clear_mark
LEMMA auth_lookup_Sound ==
  ASSUME NEW m, Sound(m), NEW local_id, NEW remote_id, NEW remote_node_ip
  PROVE  Sound(auth_lookup(m, local_id, remote_id, remote_node_ip))
BY SetSound DEF auth_lookup
LEMMA ctx_redirect_to_proxy_ingress_Sound ==
  ASSUME NEW m, Sound(m), NEW proxy_port PROVE Sound(ctx_redirect_to_proxy_ingress(m, proxy_port))
BY Drop_Sound DEF ctx_redirect_to_proxy_ingress
LEMMA ctx_redirect_to_proxy_Sound ==
  ASSUME NEW m, Sound(m), NEW proxy_port, NEW from_host
  PROVE  Sound(ctx_redirect_to_proxy(m, proxy_port, from_host))
BY ctx_redirect_to_proxy_ingress_Sound, SetSound DEF ctx_redirect_to_proxy
LEMMA ctx_redirect_to_proxy4_Sound ==
  ASSUME NEW m, Sound(m), NEW proxy_port, NEW from_host
  PROVE  Sound(ctx_redirect_to_proxy4(m, proxy_port, from_host))
BY ctx_redirect_to_proxy_Sound DEF ctx_redirect_to_proxy4
LEMMA ctx_redirect_to_proxy6_Sound ==
  ASSUME NEW m, Sound(m), NEW proxy_port, NEW from_host
  PROVE  Sound(ctx_redirect_to_proxy6(m, proxy_port, from_host))
BY ctx_redirect_to_proxy_Sound DEF ctx_redirect_to_proxy6
LEMMA extract_tuple_Sound ==
  ASSUME NEW m, Sound(m) PROVE Sound(extract_tuple(m))
BY l4_load_ports_Sound, ipv4_extract_tuple_Sound, ipv6_extract_tuple_Sound, SetSound DEF extract_tuple, Then
LEMMA ctx_redirect_to_proxy_first_Sound ==
  ASSUME NEW m, Sound(m), NEW proxy_port PROVE Sound(ctx_redirect_to_proxy_first(m, proxy_port))
BY ctx_redirect_to_proxy_ingress_Sound, extract_tuple_Sound, SetSound DEF ctx_redirect_to_proxy_first, Then
LEMMA redirect_ep_Sound ==
  ASSUME NEW m, Sound(m), NEW ep PROVE Sound(redirect_ep(m, ep))
BY SetSound DEF redirect_ep
LEMMA ipv4_dec_ttl_Sound ==
  ASSUME NEW m, Sound(m) PROVE Sound(ipv4_dec_ttl(m))
BY Drop_Sound, SetSound DEF ipv4_dec_ttl
LEMMA ipv6_dec_hoplimit_Sound ==
  ASSUME NEW m, Sound(m) PROVE Sound(ipv6_dec_hoplimit(m))
BY Drop_Sound, SetSound DEF ipv6_dec_hoplimit
LEMMA ipv6_l3_Sound ==
  ASSUME NEW m, Sound(m) PROVE Sound(ipv6_l3(m))
BY ipv6_dec_hoplimit_Sound, SetSound DEF ipv6_l3
LEMMA ipv4_l3_Sound ==
  ASSUME NEW m, Sound(m) PROVE Sound(ipv4_l3(m))
BY ipv4_dec_ttl_Sound DEF ipv4_l3
LEMMA l3_local_delivery_Sound ==
  ASSUME NEW m, Sound(m), NEW seclabel, NEW magic, NEW ep, NEW from_host, NEW hairpin_flow, NEW from_tunnel
  PROVE  Sound(l3_local_delivery(m, seclabel, magic, ep, from_host, hairpin_flow, from_tunnel))
BY set_identity_mark_Sound, redirect_ep_Sound, SetSound DEF l3_local_delivery
LEMMA ipv4_local_delivery_Sound ==
  ASSUME NEW m, Sound(m), NEW seclabel, NEW magic, NEW ep, NEW from_host, NEW hairpin_flow, NEW from_tunnel
  PROVE  Sound(ipv4_local_delivery(m, seclabel, magic, ep, from_host, hairpin_flow, from_tunnel))
BY l3_local_delivery_Sound, ipv4_l3_Sound DEF ipv4_local_delivery, Then
LEMMA ipv6_local_delivery_Sound ==
  ASSUME NEW m, Sound(m), NEW seclabel, NEW magic, NEW ep, NEW from_host, NEW from_tunnel
  PROVE  Sound(ipv6_local_delivery(m, seclabel, magic, ep, from_host, from_tunnel))
BY ipv6_l3_Sound, l3_local_delivery_Sound DEF ipv6_local_delivery

(* Forwarding, tunnels and ICMP (Forward).                                 *)

LEMMA CTX_ACT_OK_Sound ==
  ASSUME NEW m, Sound(m) PROVE Sound(CTX_ACT_OK(m))
BY SetSound DEF CTX_ACT_OK
LEMMA ctx_redirect_Sound ==
  ASSUME NEW m, Sound(m), NEW ifindex PROVE Sound(ctx_redirect(m, ifindex))
BY SetSound DEF ctx_redirect
LEMMA ep_tail_call_Sound ==
  ASSUME NEW m, Sound(m), NEW program PROVE Sound(ep_tail_call(m, program))
BY SetSound DEF ep_tail_call
LEMMA ipv6_hdrlen_Sound ==
  ASSUME NEW m, Sound(m) PROVE Sound(ipv6_hdrlen(m))
BY Drop_Sound DEF ipv6_hdrlen
LEMMA icmp6_send_reply_Sound ==
  ASSUME NEW m, Sound(m) PROVE Sound(icmp6_send_reply(m))
BY SetSound DEF icmp6_send_reply
LEMMA send_icmp6_ndisc_adv_Sound ==
  ASSUME NEW m, Sound(m), NEW to_router PROVE Sound(send_icmp6_ndisc_adv(m, to_router))
BY icmp6_send_reply_Sound, SetSound DEF send_icmp6_ndisc_adv
LEMMA tail_icmp6_send_time_exceeded_Sound ==
  ASSUME NEW m, Sound(m) PROVE Sound(tail_icmp6_send_time_exceeded(m))
BY CTX_ACT_OK_Sound, Drop_Sound, icmp6_send_reply_Sound, SetSound DEF tail_icmp6_send_time_exceeded
LEMMA tail_icmp6_handle_ns_Sound ==
  ASSUME NEW m, Sound(m) PROVE Sound(tail_icmp6_handle_ns(m))
BY Drop_Sound, send_icmp6_ndisc_adv_Sound DEF tail_icmp6_handle_ns
LEMMA icmp6_ndp_handle_Sound ==
  ASSUME NEW m, Sound(m) PROVE Sound(icmp6_ndp_handle(m))
BY ep_tail_call_Sound, CTX_ACT_OK_Sound DEF icmp6_ndp_handle
LEMMA icmp4_to_icmp6_Sound ==
  ASSUME NEW m, Sound(m) PROVE Sound(icmp4_to_icmp6(m))
BY SetSound DEF icmp4_to_icmp6
LEMMA icmp6_to_icmp4_Sound ==
  ASSUME NEW m, Sound(m) PROVE Sound(icmp6_to_icmp4(m))
BY SetSound DEF icmp6_to_icmp4
LEMMA ipv4_to_ipv6_Sound ==
  ASSUME NEW m, Sound(m), NEW src6, NEW dst6 PROVE Sound(ipv4_to_ipv6(m, src6, dst6))
BY icmp4_to_icmp6_Sound, Drop_Sound, SetSound DEF ipv4_to_ipv6
LEMMA ipv6_to_ipv4_Sound ==
  ASSUME NEW m, Sound(m), NEW src4, NEW dst4 PROVE Sound(ipv6_to_ipv4(m, src4, dst4))
BY icmp6_to_icmp4_Sound, Drop_Sound, SetSound DEF ipv6_to_ipv4
LEMMA nat46_rfc8215_Sound ==
  ASSUME NEW m, Sound(m) PROVE Sound(nat46_rfc8215(m))
BY ipv4_to_ipv6_Sound DEF nat46_rfc8215
LEMMA nat64_rfc8215_Sound ==
  ASSUME NEW m, Sound(m) PROVE Sound(nat64_rfc8215(m))
BY ipv6_to_ipv4_Sound DEF nat64_rfc8215
LEMMA lb4_to_lb6_Sound ==
  ASSUME NEW m, Sound(m) PROVE Sound(lb4_to_lb6(m))
BY ipv4_to_ipv6_Sound, Drop_Sound DEF lb4_to_lb6
LEMMA lb6_to_lb4_Sound ==
  ASSUME NEW m, Sound(m) PROVE Sound(lb6_to_lb4(m))
BY nat64_rfc8215_Sound, Drop_Sound DEF lb6_to_lb4
LEMMA neigh_record_ip4_Sound ==
  ASSUME NEW m, Sound(m) PROVE Sound(neigh_record_ip4(m))
BY Drop_Sound, SetSound DEF neigh_record_ip4
LEMMA neigh_record_ip6_Sound ==
  ASSUME NEW m, Sound(m) PROVE Sound(neigh_record_ip6(m))
BY neigh_record_ip4_Sound DEF neigh_record_ip6
LEMMA fib_do_redirect_Sound ==
  ASSUME NEW m, Sound(m), NEW needs_l2_check, NEW params, NEW dst, NEW allow_neigh_map
  PROVE  Sound(fib_do_redirect(m, needs_l2_check, params, dst, allow_neigh_map))
BY ctx_redirect_Sound, Drop_Sound, SetSound DEF fib_do_redirect
LEMMA fib_redirect_Sound ==
  ASSUME NEW m, Sound(m), NEW dst, NEW needs_l2_check, NEW use_neigh_map
  PROVE  Sound(fib_redirect(m, dst, needs_l2_check, use_neigh_map))
BY fib_do_redirect_Sound, SetSound DEF fib_redirect
LEMMA fib_redirect_v4_Sound ==
  ASSUME NEW m, Sound(m), NEW needs_l2_check, NEW allow_neigh_map
  PROVE  Sound(fib_redirect_v4(m, needs_l2_check, allow_neigh_map))
BY fib_redirect_Sound, ipv4_l3_Sound DEF fib_redirect_v4, Then
LEMMA fib_redirect_v6_Sound ==
  ASSUME NEW m, Sound(m), NEW needs_l2_check, NEW allow_neigh_map
  PROVE  Sound(fib_redirect_v6(m, needs_l2_check, allow_neigh_map))
BY ipv6_l3_Sound, fib_redirect_Sound DEF fib_redirect_v6
LEMMA set_ipsec_encrypt_Sound ==
  ASSUME NEW m, Sound(m), NEW key, NEW tunnel_endpoint, NEW seclabel, NEW use_meta
  PROVE  Sound(set_ipsec_encrypt(m, key, tunnel_endpoint, seclabel, use_meta))
BY Drop_Sound, set_identity_meta_Sound, CTX_ACT_OK_Sound, set_encrypt_key_meta_Sound,
   set_encrypt_key_mark_Sound
   DEF set_ipsec_encrypt
LEMMA do_decrypt_Sound ==
  ASSUME NEW m, Sound(m) PROVE Sound(do_decrypt(m))
BY CTX_ACT_OK_Sound, ctx_redirect_Sound, SetSound DEF do_decrypt
LEMMA wg_maybe_redirect_to_encrypt_Sound ==
  ASSUME NEW m, Sound(m) PROVE Sound(wg_maybe_redirect_to_encrypt(m))
BY CTX_ACT_OK_Sound, ctx_redirect_Sound DEF wg_maybe_redirect_to_encrypt
LEMMA ctx_set_encap_info_Sound ==
  ASSUME NEW m, Sound(m), NEW node, NEW seclabel, NEW opt
  PROVE  Sound(ctx_set_encap_info(m, node, seclabel, opt))
BY SetSound DEF ctx_set_encap_info
LEMMA encap_with_nodeid_Sound ==
  ASSUME NEW m, Sound(m), NEW tunnel_endpoint, NEW seclabel, NEW opt
  PROVE  Sound(encap_with_nodeid(m, tunnel_endpoint, seclabel, opt))
BY ctx_set_encap_info_Sound DEF encap_with_nodeid
LEMMA encap_with_nodeid_opt_Sound ==
  ASSUME NEW m, Sound(m), NEW tunnel_endpoint, NEW seclabel, NEW opt
  PROVE  Sound(encap_with_nodeid_opt(m, tunnel_endpoint, seclabel, opt))
BY encap_with_nodeid_Sound DEF encap_with_nodeid_opt
LEMMA encap_and_redirect_Sound ==
  ASSUME NEW m, Sound(m), NEW tunnel_endpoint, NEW seclabel
  PROVE  Sound(encap_and_redirect(m, tunnel_endpoint, seclabel))
BY ctx_redirect_Sound, encap_with_nodeid_Sound DEF encap_and_redirect
LEMMA encap_and_redirect_with_nodeid_Sound ==
  ASSUME NEW m, Sound(m), NEW tunnel_endpoint, NEW key, NEW seclabel
  PROVE  Sound(encap_and_redirect_with_nodeid(m, tunnel_endpoint, key, seclabel))
BY set_ipsec_encrypt_Sound, encap_and_redirect_Sound DEF encap_and_redirect_with_nodeid
LEMMA encap_and_redirect_to_Sound ==
  ASSUME NEW m, Sound(m), NEW tunnel_endpoint, NEW key, NEW seclabel
  PROVE  Sound(encap_and_redirect_to(m, tunnel_endpoint, key, seclabel))
BY set_ipsec_encrypt_Sound, CTX_ACT_OK_Sound, encap_with_nodeid_Sound, encap_and_redirect_Sound
   DEF encap_and_redirect_to
LEMMA encap_and_redirect_lxc_Sound ==
  ASSUME NEW m, Sound(m), NEW tunnel_endpoint, NEW dst_ip, NEW key, NEW tunnel_key, NEW seclabel
  PROVE  Sound(encap_and_redirect_lxc(m, tunnel_endpoint, dst_ip, key, tunnel_key, seclabel))
BY encap_and_redirect_Sound, Drop_Sound, encap_and_redirect_to_Sound, set_ipsec_encrypt_Sound,
   encap_and_redirect_with_nodeid_Sound
   DEF encap_and_redirect_lxc
LEMMA encap_and_redirect_netdev_Sound ==
  ASSUME NEW m, Sound(m), NEW tunnel_key, NEW key, NEW seclabel
  PROVE  Sound(encap_and_redirect_netdev(m, tunnel_key, key, seclabel))
BY Drop_Sound, encap_and_redirect_with_nodeid_Sound DEF encap_and_redirect_netdev
LEMMA decapsulate_overlay_Sound ==
  ASSUME NEW m, Sound(m) PROVE Sound(decapsulate_overlay(m))
BY CTX_ACT_OK_Sound, ctx_redirect_Sound, SetSound DEF decapsulate_overlay
LEMMA egress_gw_fib_lookup_and_redirect_Sound ==
  ASSUME NEW m, Sound(m), NEW daddr PROVE Sound(egress_gw_fib_lookup_and_redirect(m, daddr))
BY Drop_Sound, CTX_ACT_OK_Sound, fib_do_redirect_Sound, SetSound DEF egress_gw_fib_lookup_and_redirect
LEMMA srv6_encapsulation_Sound ==
  ASSUME NEW m, Sound(m), NEW saddr, NEW sid PROVE Sound(srv6_encapsulation(m, saddr, sid))
BY SetSound DEF srv6_encapsulation
LEMMA srv6_decapsulation_Sound ==
  ASSUME NEW m, Sound(m) PROVE Sound(srv6_decapsulation(m))
BY Drop_Sound, SetSound DEF srv6_decapsulation
LEMMA srv6_create_state_entry_Sound ==
  ASSUME NEW m, Sound(m) PROVE Sound(srv6_create_state_entry(m))
BY Drop_Sound, SetSound DEF srv6_create_state_entry
LEMMA srv6_store_meta_sid_Sound ==
  ASSUME NEW m, Sound(m), NEW sid PROVE Sound(srv6_store_meta_sid(m, sid))
BY SetSound DEF srv6_store_meta_sid
LEMMA srv6_handling4_Sound ==
  ASSUME NEW m, Sound(m), NEW src, NEW dst PROVE Sound(srv6_handling4(m, src, dst))
BY srv6_encapsulation_Sound DEF srv6_handling4
LEMMA srv6_handling6_Sound ==
  ASSUME NEW m, Sound(m), NEW src, NEW dst PROVE Sound(srv6_handling6(m, src, dst))
BY srv6_encapsulation_Sound DEF srv6_handling6
LEMMA srv6_handling_Sound ==
  ASSUME NEW m, Sound(m), NEW dst PROVE Sound(srv6_handling(m, dst))
BY srv6_handling4_Sound, srv6_handling6_Sound DEF srv6_handling
LEMMA tail_srv6_encap_Sound ==
  ASSUME NEW m, Sound(m) PROVE Sound(tail_srv6_encap(m))
BY srv6_handling_Sound, CTX_ACT_OK_Sound DEF tail_srv6_encap, Then
LEMMA tail_srv6_decap_Sound ==
  ASSUME NEW m, Sound(m) PROVE Sound(tail_srv6_decap(m))
BY srv6_create_state_entry_Sound, srv6_decapsulation_Sound, CTX_ACT_OK_Sound DEF tail_srv6_decap, Then
LEMMA edt_set_aggregate_Sound ==
  ASSUME NEW m, Sound(m), NEW id PROVE Sound(edt_set_aggregate(m, id))
BY SetSound DEF edt_set_aggregate
LEMMA edt_get_aggregate_Sound ==
  ASSUME NEW m, Sound(m) PROVE Sound(edt_get_aggregate(m))
BY SetSound DEF edt_get_aggregate
LEMMA edt_sched_departure_Sound ==
  ASSUME NEW m, Sound(m) PROVE Sound(edt_sched_departure(m))
BY edt_get_aggregate_Sound, Drop_Sound, SetSound DEF edt_sched_departure
LEMMA arp_respond_Sound ==
  ASSUME NEW m, Sound(m), NEW mac PROVE Sound(arp_respond(m, mac))
BY ctx_redirect_Sound, SetSound DEF arp_respond
LEMMA ctx_redirect_to_proxy_hairpin_ipv4_Sound ==
  ASSUME NEW m, Sound(m), NEW proxy_port PROVE Sound(ctx_redirect_to_proxy_hairpin_ipv4(m, proxy_port))
BY ipv4_l3_Sound, ctx_redirect_Sound, SetSound
   DEF ctx_redirect_to_proxy_hairpin_ipv4, ctx_redirect_to_proxy_hairpin
LEMMA ctx_redirect_to_proxy_hairpin_ipv6_Sound ==
  ASSUME NEW m, Sound(m), NEW proxy_port PROVE Sound(ctx_redirect_to_proxy_hairpin_ipv6(m, proxy_port))
BY ipv6_l3_Sound, ctx_redirect_Sound, SetSound
   DEF ctx_redirect_to_proxy_hairpin_ipv6, ctx_redirect_to_proxy_hairpin

(* Address translation (Nat).                                              *)

LEMMA Punt_Sound ==
  ASSUME NEW m, Sound(m) PROVE Sound(Punt(m))
BY Drop_Sound DEF Punt
LEMMA __snat_update_Sound ==
  ASSUME NEW m, Sound(m), NEW otuple, NEW ostate, NEW rtuple, NEW rstate
  PROVE  Sound(__snat_update(m, otuple, ostate, rtuple, rstate))
BY Drop_Sound, SetSound DEF __snat_update
LEMMA snat_v6_update_Sound ==
  ASSUME NEW m, Sound(m), NEW otuple, NEW ostate, NEW rtuple, NEW rstate
  PROVE  Sound(snat_v6_update(m, otuple, ostate, rtuple, rstate))
BY __snat_update_Sound DEF snat_v6_update
LEMMA snat_v4_new_mapping_Sound ==
  ASSUME NEW m, Sound(m) PROVE Sound(snat_v4_new_mapping(m))
BY Drop_Sound, __snat_update_Sound, SetSound DEF snat_v4_new_mapping
LEMMA snat_v6_new_mapping_Sound ==
  ASSUME NEW m, Sound(m) PROVE Sound(snat_v6_new_mapping(m))
BY snat_v4_new_mapping_Sound DEF snat_v6_new_mapping
LEMMA snat_v4_nat_handle_mapping_Sound ==
  ASSUME NEW m, Sound(m) PROVE Sound(snat_v4_nat_handle_mapping(m))
BY ct_lazy_lookup4_Sound, ct_create4_Sound, snat_v4_new_mapping_Sound, SetSound
   DEF snat_v4_nat_handle_mapping, snat_handle_mapping, Scoped
LEMMA snat_v6_nat_handle_mapping_Sound ==
  ASSUME NEW m, Sound(m) PROVE Sound(snat_v6_nat_handle_mapping(m))
BY ct_lazy_lookup6_Sound, ct_create6_Sound, snat_v6_new_mapping_Sound, SetSound
   DEF snat_v6_nat_handle_mapping, snat_handle_mapping, Scoped
LEMMA snat_v4_rev_nat_handle_mapping_Sound ==
  ASSUME NEW m, Sound(m) PROVE Sound(snat_v4_rev_nat_handle_mapping(m))
BY ct_lazy_lookup4_Sound, Drop_Sound, SetSound
   DEF snat_v4_rev_nat_handle_mapping, snat_rev_handle_mapping, Scoped
LEMMA snat_v6_rev_nat_handle_mapping_Sound ==
  ASSUME NEW m, Sound(m) PROVE Sound(snat_v6_rev_nat_handle_mapping(m))
BY ct_lazy_lookup6_Sound, Drop_Sound, SetSound
   DEF snat_v6_rev_nat_handle_mapping, snat_rev_handle_mapping, Scoped
LEMMA snat_v4_rewrite_headers_Sound ==
  ASSUME NEW m, Sound(m), NEW inner, NEW side, NEW nexthdr, NEW hasl4, NEW old, NEW new
  PROVE  Sound(snat_v4_rewrite_headers(m, inner, side, nexthdr, hasl4, old, new))
BY Drop_Sound, SetSound DEF snat_v4_rewrite_headers
LEMMA snat_v6_rewrite_headers_Sound ==
  ASSUME NEW m, Sound(m), NEW inner, NEW side, NEW nexthdr, NEW old, NEW new
  PROVE  Sound(snat_v6_rewrite_headers(m, inner, side, nexthdr, old, new))
BY snat_v4_rewrite_headers_Sound DEF snat_v6_rewrite_headers
LEMMA snat_v4_create_dsr_Sound ==
  ASSUME NEW m, Sound(m), NEW t, NEW to_saddr, NEW to_sport
  PROVE  Sound(snat_v4_create_dsr(m, t, to_saddr, to_sport))
BY Drop_Sound, SetSound DEF snat_v4_create_dsr
LEMMA snat_v6_create_dsr_Sound ==
  ASSUME NEW m, Sound(m), NEW t, NEW to_saddr, NEW to_sport
  PROVE  Sound(snat_v6_create_dsr(m, t, to_saddr, to_sport))
BY snat_v4_create_dsr_Sound DEF snat_v6_create_dsr
LEMMA snat_v4_init_tuple_Sound ==
  ASSUME NEW m, Sound(m), NEW flags PROVE Sound(snat_v4_init_tuple(m, flags))
BY SetSound DEF snat_v4_init_tuple
LEMMA snat_v6_init_tuple_Sound ==
  ASSUME NEW m, Sound(m), NEW flags PROVE Sound(snat_v6_init_tuple(m, flags))
BY SetSound DEF snat_v6_init_tuple
LEMMA masquerade_rest_Sound ==
  ASSUME NEW m, Sound(m), NEW masq, NEW local_ep, NEW remote_ep, NEW is_reply, NEW agent
  PROVE  Sound(masquerade_rest(m, masq, local_ep, remote_ep, is_reply, agent))
BY Punt_Sound, SetSound DEF masquerade_rest
LEMMA WithoutPorts_Sound ==
  ASSUME NEW m, Sound(m) PROVE Sound(WithoutPorts(m))
BY SetSound DEF WithoutPorts
LEMMA snat_v4_needs_masquerade_Sound ==
  ASSUME NEW m, Sound(m) PROVE Sound(snat_v4_needs_masquerade(m))
<1> DEFINE local_ep == lookup_ip4_endpoint(m, m.tuple.saddr)
           remote_ep == lookup_ip4_remote_endpoint(m, m.tuple.daddr)
           x == IF local_ep = None THEN m ELSE ExtractForMasquerade(m, ct_extract_ports4)
           is_reply == local_ep # None /\ ct_is_reply4(x, x.tuple)
           m1 == IF local_ep = None THEN m ELSE WithoutPorts(x)
           egress_ip == egress_gw_snat_needed_hook(m1, m.tuple.saddr, m.tuple.daddr)
           target == [m1.target EXCEPT !.addr = IPV4_MASQUERADE, !.needs_ct = TRUE]
           own == [m EXCEPT !.target = target]
           gateway == [m1 EXCEPT !.target.addr = egress_ip, !.target.egress_gateway = TRUE,
                                 !.target.needs_ct = @ \/ local_ep = None]
           rest == masquerade_rest(m1, IPV4_MASQUERADE, local_ep, remote_ep, is_reply,
                                   "ENABLE_IP_MASQ_AGENT_IPV4")
<1>1. Sound(x)
  BY ct_extract_ports4_Sound, SetSound DEF ExtractForMasquerade
<1>2. Sound(m1)
  BY <1>1, WithoutPorts_Sound
<1>3. Sound(gateway) /\ Sound(own)
  <2> HIDE DEF m1, egress_ip, local_ep, target
  <2> QED BY <1>2, SetSound
<1>4. Sound(rest)
  <2> HIDE DEF m1
  <2> QED BY <1>2, masquerade_rest_Sound
<1>5. snat_v4_needs_masquerade(m)
        = IF ~(On(m, "ENABLE_MASQUERADE_IPV4") /\ On(m, "IS_BPF_HOST")) THEN Punt(m)
          ELSE IF m.tuple.saddr = IPV4_MASQUERADE THEN own
          ELSE IF x.err # "" THEN x
          ELSE IF ~is_reply /\ egress_ip # None
          THEN gateway
          ELSE rest
  BY DEF snat_v4_needs_masquerade, ExtractForMasquerade
<1> HIDE DEF x, is_reply, m1, egress_ip, own, gateway, rest, local_ep
<1> QED BY <1>1, <1>2, <1>3, <1>4, <1>5, Punt_Sound
LEMMA snat_v6_needs_masquerade_Sound ==
  ASSUME NEW m, Sound(m) PROVE Sound(snat_v6_needs_masquerade(m))
BY ct_extract_ports6_Sound, WithoutPorts_Sound, Punt_Sound, masquerade_rest_Sound, SetSound
   DEF snat_v6_needs_masquerade, ExtractForMasquerade
LEMMA snat_v4_nat_handle_icmp_frag_needed_Sound ==
  ASSUME NEW m, Sound(m) PROVE Sound(snat_v4_nat_handle_icmp_frag_needed(m))
BY snat_v4_rewrite_headers_Sound, Drop_Sound, Punt_Sound DEF snat_v4_nat_handle_icmp_frag_needed, Then
LEMMA __snat_v4_nat_Sound ==
  ASSUME NEW m, Sound(m), NEW update_tuple PROVE Sound(__snat_v4_nat(m, update_tuple))
BY snat_v4_rewrite_headers_Sound, snat_v4_nat_handle_mapping_Sound, SetSound, ZenonT(60)
   DEF __snat_v4_nat, Then
LEMMA __snat_v6_nat_Sound ==
  ASSUME NEW m, Sound(m), NEW update_tuple PROVE Sound(__snat_v6_nat(m, update_tuple))
BY snat_v6_rewrite_headers_Sound, snat_v6_nat_handle_mapping_Sound, SetSound, ZenonT(60)
   DEF __snat_v6_nat, Then
LEMMA snat_v4_nat_Sound ==
  ASSUME NEW m, Sound(m) PROVE Sound(snat_v4_nat(m))
BY Punt_Sound, __snat_v4_nat_Sound, ipv4_load_l4_ports_Sound, Drop_Sound,
   snat_v4_nat_handle_icmp_frag_needed_Sound, SetSound
   DEF snat_v4_nat, Then, NatPorts
LEMMA snat_v6_nat_Sound ==
  ASSUME NEW m, Sound(m) PROVE Sound(snat_v6_nat(m))
BY Punt_Sound, __snat_v6_nat_Sound, l4_load_ports_Sound, Drop_Sound, SetSound
   DEF snat_v6_nat, Then, NatPorts
LEMMA snat_v4_rev_nat_handle_icmp_frag_needed_Sound ==
  ASSUME NEW m, Sound(m) PROVE Sound(snat_v4_rev_nat_handle_icmp_frag_needed(m))
BY Drop_Sound, Punt_Sound, snat_v4_rewrite_headers_Sound, SetSound
   DEF snat_v4_rev_nat_handle_icmp_frag_needed
LEMMA snat_v6_rev_nat_handle_icmp_pkt_toobig_Sound ==
  ASSUME NEW m, Sound(m) PROVE Sound(snat_v6_rev_nat_handle_icmp_pkt_toobig(m))
BY snat_v4_rev_nat_handle_icmp_frag_needed_Sound DEF snat_v6_rev_nat_handle_icmp_pkt_toobig
LEMMA snat_v4_rev_nat_Sound ==
  ASSUME NEW m, Sound(m) PROVE Sound(snat_v4_rev_nat(m))
BY snat_v4_init_tuple_Sound, snat_v4_rewrite_headers_Sound, Punt_Sound,
   snat_v4_rev_nat_handle_mapping_Sound, ipv4_load_l4_ports_Sound, Drop_Sound,
   snat_v4_rev_nat_handle_icmp_frag_needed_Sound, SetSound
   DEF snat_v4_rev_nat, Then, NatPorts
LEMMA snat_v6_rev_nat_Sound ==
  ASSUME NEW m, Sound(m) PROVE Sound(snat_v6_rev_nat(m))
BY ipv6_hdrlen_Sound, snat_v6_init_tuple_Sound, snat_v6_rewrite_headers_Sound, Punt_Sound,
   snat_v6_rev_nat_handle_mapping_Sound, l4_load_ports_Sound, Drop_Sound,
   snat_v6_rev_nat_handle_icmp_pkt_toobig_Sound, SetSound
   DEF snat_v6_rev_nat, Then, NatPorts
LEMMA snat_remap_rfc8215_Sound ==
  ASSUME NEW m, Sound(m) PROVE Sound(snat_remap_rfc8215(m))
BY ipv4_to_ipv6_Sound DEF snat_remap_rfc8215

(* NodePort services (NodePort).                                           *)

LEMMA Ignore_Sound ==
  ASSUME NEW m, Sound(m) PROVE Sound(Ignore(m))
BY SetSound DEF Ignore
LEMMA xdp_set_encap_info_Sound ==
  ASSUME NEW m, Sound(m), NEW daddr, NEW seclabel, NEW opt
  PROVE  Sound(xdp_set_encap_info(m, daddr, seclabel, opt))
BY SetSound DEF xdp_set_encap_info
LEMMA nodeport_add_tunnel_encap_Sound ==
  ASSUME NEW m, Sound(m), NEW dst_ip, NEW src_id PROVE Sound(nodeport_add_tunnel_encap(m, dst_ip, src_id))
BY fib_redirect_Sound, xdp_set_encap_info_Sound, ctx_redirect_Sound, encap_with_nodeid_Sound
   DEF nodeport_add_tunnel_encap
LEMMA nodeport_add_tunnel_encap_opt_Sound ==
  ASSUME NEW m, Sound(m), NEW dst_ip, NEW src_id, NEW opt
  PROVE  Sound(nodeport_add_tunnel_encap_opt(m, dst_ip, src_id, opt))
BY fib_redirect_Sound, xdp_set_encap_info_Sound, ctx_redirect_Sound, encap_with_nodeid_opt_Sound
   DEF nodeport_add_tunnel_encap_opt
LEMMA nodeport_fib_lookup_and_redirect_Sound ==
  ASSUME NEW m, Sound(m), NEW dst PROVE Sound(nodeport_fib_lookup_and_redirect(m, dst))
BY Drop_Sound, fib_do_redirect_Sound, SetSound DEF nodeport_fib_lookup_and_redirect
LEMMA Punted_Sound ==
  ASSUME NEW m, Sound(m) PROVE Sound(Punted(m))
BY Ignore_Sound DEF Punted
LEMMA nodeport_snat_fwd_ipv4_Sound ==
  ASSUME NEW m, Sound(m) PROVE Sound(nodeport_snat_fwd_ipv4(m))
<1> DEFINE m0 == snat_v4_init_tuple([m EXCEPT !.target = NatTarget(None),
                                              !.hasl4 = ipv4_has_l4_header(m.pkt)], {})
           Done4(n) == IF n.target.egress_gateway /\ On(n, "IS_BPF_HOST")
                       THEN egress_gw_fib_lookup_and_redirect(ctx_snat_done_set(n), n.tuple.daddr)
                       ELSE ctx_snat_done_set(n)
           f == snat_fwd(m0, nodeport_has_nat_conflict_ipv4(m), nodeport_uses_dsr4(m0),
                         snat_v4_needs_masquerade, snat_v4_nat)
<1>1. Sound(m0)
  BY snat_v4_init_tuple_Sound, SetSound
<1>2. Sound(f)
  <2> HIDE DEF m0
  <2> QED BY <1>1, snat_v4_needs_masquerade_Sound, snat_v4_nat_Sound, SetSound DEF snat_fwd, Then
<1>3. ASSUME NEW n, Sound(n) PROVE Sound(Done4(n))
  BY <1>3, ctx_snat_done_set_Sound, egress_gw_fib_lookup_and_redirect_Sound
<1>4. nodeport_snat_fwd_ipv4(m) = Punted(IF f.err = "" THEN Done4(f) ELSE f)
  BY DEF nodeport_snat_fwd_ipv4, Then
<1> HIDE DEF f, Done4
<1> QED BY <1>2, <1>3, <1>4, Punted_Sound
LEMMA nodeport_snat_fwd_ipv6_Sound ==
  ASSUME NEW m, Sound(m) PROVE Sound(nodeport_snat_fwd_ipv6(m))
BY snat_v6_init_tuple_Sound, snat_v6_needs_masquerade_Sound, snat_v6_nat_Sound, Punted_Sound,
   ipv6_hdrlen_Sound, ctx_snat_done_set_Sound, SetSound
   DEF nodeport_snat_fwd_ipv6, snat_fwd, Then
LEMMA dsr_set_ipip4_Sound ==
  ASSUME NEW m, Sound(m), NEW backend_addr PROVE Sound(dsr_set_ipip4(m, backend_addr))
BY Drop_Sound, SetSound DEF dsr_set_ipip4
LEMMA dsr_set_ipip6_Sound ==
  ASSUME NEW m, Sound(m), NEW backend_addr PROVE Sound(dsr_set_ipip6(m, backend_addr))
BY Drop_Sound, SetSound DEF dsr_set_ipip6
LEMMA dsr_set_opt4_Sound ==
  ASSUME NEW m, Sound(m), NEW svc_addr, NEW svc_port PROVE Sound(dsr_set_opt4(m, svc_addr, svc_port))
BY Drop_Sound, SetSound DEF dsr_set_opt4
LEMMA dsr_set_ext6_Sound ==
  ASSUME NEW m, Sound(m), NEW svc_addr, NEW svc_port PROVE Sound(dsr_set_ext6(m, svc_addr, svc_port))
BY Drop_Sound, ipv6_hdrlen_Sound, SetSound DEF dsr_set_ext6, Then
LEMMA encap_geneve_dsr_Sound ==
  ASSUME NEW m, Sound(m), NEW endpoint, NEW src_id, NEW opt
  PROVE  Sound(encap_geneve_dsr(m, endpoint, src_id, opt))
BY Drop_Sound, nodeport_add_tunnel_encap_Sound, nodeport_add_tunnel_encap_opt_Sound DEF encap_geneve_dsr
LEMMA encap_geneve_dsr_opt4_Sound ==
  ASSUME NEW m, Sound(m), NEW svc_addr, NEW svc_port
  PROVE  Sound(encap_geneve_dsr_opt4(m, svc_addr, svc_port))
BY lb4_extract_tuple_Sound, encap_geneve_dsr_Sound, Drop_Sound DEF encap_geneve_dsr_opt4
LEMMA encap_geneve_dsr_opt6_Sound ==
  ASSUME NEW m, Sound(m), NEW svc_addr, NEW svc_port
  PROVE  Sound(encap_geneve_dsr_opt6(m, svc_addr, svc_port))
BY encap_geneve_dsr_Sound, Drop_Sound, lb6_extract_tuple_Sound DEF encap_geneve_dsr_opt6, Then
LEMMA dsr_reply_icmp4_Sound ==
  ASSUME NEW m, Sound(m), NEW svc_addr, NEW svc_port PROVE Sound(dsr_reply_icmp4(m, svc_addr, svc_port))
BY ctx_redirect_Sound, Ignore_Sound, SetSound DEF dsr_reply_icmp4
LEMMA dsr_reply_icmp6_Sound ==
  ASSUME NEW m, Sound(m), NEW svc_addr, NEW svc_port PROVE Sound(dsr_reply_icmp6(m, svc_addr, svc_port))
BY dsr_reply_icmp4_Sound DEF dsr_reply_icmp6
LEMMA tail_nodeport_ipv4_dsr_Sound ==
  ASSUME NEW m, Sound(m) PROVE Sound(tail_nodeport_ipv4_dsr(m))
BY dsr_set_ipip4_Sound, dsr_set_opt4_Sound, encap_geneve_dsr_opt4_Sound, fib_redirect_Sound,
   fib_redirect_v4_Sound, dsr_reply_icmp4_Sound
   DEF tail_nodeport_ipv4_dsr, DsrReply, Continue
LEMMA tail_nodeport_ipv6_dsr_Sound ==
  ASSUME NEW m, Sound(m) PROVE Sound(tail_nodeport_ipv6_dsr(m))
BY dsr_set_ipip6_Sound, dsr_set_ext6_Sound, encap_geneve_dsr_opt6_Sound, fib_redirect_Sound,
   dsr_reply_icmp6_Sound
   DEF tail_nodeport_ipv6_dsr, DsrReply, Continue
LEMMA find_dsr_v6_Sound ==
  ASSUME NEW m, Sound(m) PROVE Sound(find_dsr_v6(m))
BY Drop_Sound, SetSound DEF find_dsr_v6
LEMMA nodeport_extract_dsr_v4_Sound ==
  ASSUME NEW m, Sound(m) PROVE Sound(nodeport_extract_dsr_v4(m))
BY Drop_Sound, ct_update_dsr_Sound, SetSound DEF nodeport_extract_dsr_v4
LEMMA nodeport_extract_dsr_v6_Sound ==
  ASSUME NEW m, Sound(m) PROVE Sound(nodeport_extract_dsr_v6(m))
BY find_dsr_v6_Sound, ct_update_dsr_Sound, Drop_Sound, SetSound DEF nodeport_extract_dsr_v6, Then
LEMMA xlate_dsr_v4_Sound ==
  ASSUME NEW m, Sound(m), NEW t PROVE Sound(xlate_dsr_v4(m, t))
BY snat_v4_rewrite_headers_Sound, ctx_snat_done_set_Sound DEF xlate_dsr_v4
LEMMA xlate_dsr_v6_Sound ==
  ASSUME NEW m, Sound(m), NEW t PROVE Sound(xlate_dsr_v6(m, t))
BY snat_v6_rewrite_headers_Sound, ctx_snat_done_set_Sound DEF xlate_dsr_v6
LEMMA nodeport_dsr_ingress_ipv4_Sound ==
  ASSUME NEW m, Sound(m) PROVE Sound(nodeport_dsr_ingress_ipv4(m))
BY ct_lazy_lookup4_Sound, ct_create4_Sound, snat_v4_create_dsr_Sound, Drop_Sound, SetSound
   DEF nodeport_dsr_ingress_ipv4, dsr_ingress, Then
LEMMA nodeport_dsr_ingress_ipv6_Sound ==
  ASSUME NEW m, Sound(m) PROVE Sound(nodeport_dsr_ingress_ipv6(m))
BY ct_lazy_lookup6_Sound, ct_create6_Sound, snat_v6_create_dsr_Sound, Drop_Sound, SetSound
   DEF nodeport_dsr_ingress_ipv6, dsr_ingress, Then
LEMMA tail_nat_ipv46_Sound ==
  ASSUME NEW m, Sound(m) PROVE Sound(tail_nat_ipv46(m))
BY nat46_rfc8215_Sound, Drop_Sound, fib_redirect_v6_Sound DEF tail_nat_ipv46
LEMMA tail_nat_ipv64_Sound ==
  ASSUME NEW m, Sound(m) PROVE Sound(tail_nat_ipv64(m))
BY nat64_rfc8215_Sound, Drop_Sound, fib_redirect_v4_Sound DEF tail_nat_ipv64
LEMMA rev_dnat_send4_Sound ==
  ASSUME NEW m, Sound(m), NEW tunnel PROVE Sound(rev_dnat_send4(m, tunnel))
BY nodeport_add_tunnel_encap_Sound, fib_redirect_Sound, SetSound DEF rev_dnat_send4
LEMMA rev_dnat_done4_Sound ==
  ASSUME NEW m, Sound(m) PROVE Sound(rev_dnat_done4(m))
BY rev_dnat_send4_Sound, ipv4_l3_Sound, ctx_snat_done_set_Sound DEF rev_dnat_done4
LEMMA rev_dnat_reply4_Sound ==
  ASSUME NEW m, Sound(m) PROVE Sound(rev_dnat_reply4(m))
BY Ignore_Sound, rev_dnat_done4_Sound, lb4_rev_nat_Sound DEF rev_dnat_reply4
LEMMA rev_dnat_tracked4_Sound ==
  ASSUME NEW m, Sound(m), NEW egw PROVE Sound(rev_dnat_tracked4(m, egw))
BY rev_dnat_send4_Sound, ipv4_l3_Sound, Ignore_Sound, rev_dnat_reply4_Sound, ct_lazy_lookup4_Sound, SetSound
   DEF rev_dnat_tracked4
LEMMA nodeport_rev_dnat_ingress_ipv4_Sound ==
  ASSUME NEW m, Sound(m) PROVE Sound(nodeport_rev_dnat_ingress_ipv4(m))
BY rev_dnat_tracked4_Sound, lb4_extract_tuple_Sound, SetSound DEF nodeport_rev_dnat_ingress_ipv4
LEMMA nodeport_rev_dnat_ingress_ipv6_Sound ==
  ASSUME NEW m, Sound(m) PROVE Sound(nodeport_rev_dnat_ingress_ipv6(m))
BY lb6_extract_tuple_Sound, ct_lazy_lookup6_Sound, ipv6_l3_Sound, lb6_rev_nat_Sound, lb6_to_lb4_Sound,
   fib_redirect_Sound, nodeport_add_tunnel_encap_Sound, Ignore_Sound, ctx_snat_done_set_Sound, SetSound
   DEF nodeport_rev_dnat_ingress_ipv6
LEMMA Recirculate_Sound ==
  ASSUME NEW m, Sound(m), NEW program PROVE Sound(Recirculate(m, program))
BY ep_tail_call_Sound, ctx_skip_nodeport_set_Sound DEF Recirculate
LEMMA tail_nodeport_rev_dnat_ingress_ipv4_Sound ==
  ASSUME NEW m, Sound(m) PROVE Sound(tail_nodeport_rev_dnat_ingress_ipv4(m))
BY nodeport_rev_dnat_ingress_ipv4_Sound, Drop_Sound, Recirculate_Sound, edt_set_aggregate_Sound
   DEF tail_nodeport_rev_dnat_ingress_ipv4, rev_dnat_tail
LEMMA tail_nodeport_rev_dnat_ingress_ipv6_Sound ==
  ASSUME NEW m, Sound(m) PROVE Sound(tail_nodeport_rev_dnat_ingress_ipv6(m))
BY nodeport_rev_dnat_ingress_ipv6_Sound, Drop_Sound, Recirculate_Sound, edt_set_aggregate_Sound
   DEF tail_nodeport_rev_dnat_ingress_ipv6, rev_dnat_tail
LEMMA tail_nodeport_nat_egress_ipv4_Sound ==
  ASSUME NEW m, Sound(m) PROVE Sound(tail_nodeport_nat_egress_ipv4(m))
BY __snat_v4_nat_Sound, nodeport_add_tunnel_encap_Sound, fib_redirect_Sound, lb4_extract_tuple_Sound,
   ipv4_l3_Sound, ctx_snat_done_set_Sound, SetSound
   DEF tail_nodeport_nat_egress_ipv4, Then
LEMMA tail_nodeport_nat_egress_ipv6_Sound ==
  ASSUME NEW m, Sound(m) PROVE Sound(tail_nodeport_nat_egress_ipv6(m))
BY __snat_v6_nat_Sound, lb6_to_lb4_Sound, nodeport_add_tunnel_encap_Sound, fib_redirect_Sound,
   lb6_extract_tuple_Sound, ipv6_l3_Sound, ctx_snat_done_set_Sound, SetSound, ZenonT(60)
   DEF tail_nodeport_nat_egress_ipv6, Then
LEMMA nodeport_lb4_forward_Sound ==
  ASSUME NEW m, Sound(m), NEW svc, NEW key PROVE Sound(nodeport_lb4_forward(m, svc, key))
BY ct_lazy_lookup4_Sound, ct_create4_Sound, ep_tail_call_Sound, neigh_record_ip4_Sound,
   edt_set_aggregate_Sound, Drop_Sound, SetSound
   DEF nodeport_lb4_forward, nodeport_forward, Then
LEMMA nodeport_lb6_forward_Sound ==
  ASSUME NEW m, Sound(m), NEW svc, NEW key PROVE Sound(nodeport_lb6_forward(m, svc, key))
BY ct_lazy_lookup6_Sound, ct_create6_Sound, ep_tail_call_Sound, neigh_record_ip6_Sound,
   edt_set_aggregate_Sound, Drop_Sound, SetSound
   DEF nodeport_lb6_forward, nodeport_forward, Then
LEMMA nodeport_lb4_noservice_Sound ==
  ASSUME NEW m, Sound(m), NEW is_svc_proto PROVE Sound(nodeport_lb4_noservice(m, is_svc_proto))
BY nodeport_extract_dsr_v4_Sound, ep_tail_call_Sound, Ignore_Sound, nodeport_dsr_ingress_ipv4_Sound,
   lb4_to_lb6_Sound, snat_remap_rfc8215_Sound, SetSound
   DEF nodeport_lb4_noservice
LEMMA nodeport_lb6_noservice_Sound ==
  ASSUME NEW m, Sound(m), NEW is_svc_proto PROVE Sound(nodeport_lb6_noservice(m, is_svc_proto))
BY nodeport_extract_dsr_v6_Sound, neigh_record_ip6_Sound, Ignore_Sound, ep_tail_call_Sound,
   nodeport_dsr_ingress_ipv6_Sound, SetSound
   DEF nodeport_lb6_noservice
LEMMA nodeport_lb4_chosen_Sound ==
  ASSUME NEW m, Sound(m), NEW svc, NEW key PROVE Sound(nodeport_lb4_chosen(m, svc, key))
BY ep_tail_call_Sound, Ignore_Sound, Drop_Sound, nodeport_lb4_forward_Sound DEF nodeport_lb4_chosen
LEMMA nodeport_lb4_service_Sound ==
  ASSUME NEW m, Sound(m), NEW key, NEW svc PROVE Sound(nodeport_lb4_service(m, key, svc))
BY lb4_to_lb6_Sound, nodeport_lb4_noservice_Sound, Drop_Sound, ctx_redirect_to_proxy_hairpin_ipv4_Sound,
   nodeport_lb4_chosen_Sound, lb4_local_Sound, SetSound
   DEF nodeport_lb4_service
LEMMA nodeport_lb4_tuple_Sound ==
  ASSUME NEW m, Sound(m) PROVE Sound(nodeport_lb4_tuple(m))
BY Ignore_Sound, nodeport_lb4_noservice_Sound, nodeport_lb4_service_Sound, SetSound DEF nodeport_lb4_tuple
LEMMA nodeport_lb4_Sound ==
  ASSUME NEW m, Sound(m) PROVE Sound(nodeport_lb4(m))
BY nodeport_lb4_tuple_Sound, lb4_extract_tuple_Sound, SetSound DEF nodeport_lb4
LEMMA nodeport_lb6_chosen_Sound ==
  ASSUME NEW m, Sound(m), NEW svc, NEW key PROVE Sound(nodeport_lb6_chosen(m, svc, key))
BY ep_tail_call_Sound, Ignore_Sound, Drop_Sound, nodeport_lb6_forward_Sound DEF nodeport_lb6_chosen
LEMMA nodeport_lb6_service_Sound ==
  ASSUME NEW m, Sound(m), NEW key, NEW svc PROVE Sound(nodeport_lb6_service(m, key, svc))
BY nodeport_lb6_noservice_Sound, Drop_Sound, ctx_redirect_to_proxy_hairpin_ipv6_Sound,
   nodeport_lb6_chosen_Sound, lb6_local_Sound
   DEF nodeport_lb6_service
LEMMA nodeport_lb6_tuple_Sound ==
  ASSUME NEW m, Sound(m) PROVE Sound(nodeport_lb6_tuple(m))
BY Ignore_Sound, nodeport_lb6_noservice_Sound, nodeport_lb6_service_Sound, SetSound DEF nodeport_lb6_tuple
LEMMA nodeport_lb6_Sound ==
  ASSUME NEW m, Sound(m) PROVE Sound(nodeport_lb6(m))
BY nodeport_lb6_tuple_Sound, lb6_extract_tuple_Sound, SetSound DEF nodeport_lb6
LEMMA nodeport_rev_dnat_fwd_ipv4_Sound ==
  ASSUME NEW m, Sound(m) PROVE Sound(nodeport_rev_dnat_fwd_ipv4(m))
BY lb4_extract_tuple_Sound, ct_lazy_lookup4_Sound, lb4_rev_nat_entry_Sound,
   nodeport_fib_lookup_and_redirect_Sound, Ignore_Sound, ctx_snat_done_set_Sound, SetSound
   DEF nodeport_rev_dnat_fwd_ipv4, Then, rev_dnat_fwd
LEMMA nodeport_rev_dnat_fwd_ipv6_Sound ==
  ASSUME NEW m, Sound(m) PROVE Sound(nodeport_rev_dnat_fwd_ipv6(m))
BY lb6_extract_tuple_Sound, ct_lazy_lookup6_Sound, lb6_rev_nat_entry_Sound,
   nodeport_fib_lookup_and_redirect_Sound, Ignore_Sound, ctx_snat_done_set_Sound, SetSound
   DEF nodeport_rev_dnat_fwd_ipv6, rev_dnat_fwd, Then
LEMMA EndOk_Sound ==
  ASSUME NEW m, Sound(m) PROVE Sound(EndOk(m))
BY CTX_ACT_OK_Sound DEF EndOk
LEMMA tail_handle_snat_fwd_ipv4_Sound ==
  ASSUME NEW m, Sound(m) PROVE Sound(tail_handle_snat_fwd_ipv4(m))
BY EndOk_Sound, nodeport_snat_fwd_ipv4_Sound DEF tail_handle_snat_fwd_ipv4
LEMMA tail_handle_snat_fwd_ipv6_Sound ==
  ASSUME NEW m, Sound(m) PROVE Sound(tail_handle_snat_fwd_ipv6(m))
BY EndOk_Sound, nodeport_snat_fwd_ipv6_Sound DEF tail_handle_snat_fwd_ipv6
LEMMA handle_nat_fwd_ipv4_Sound ==
  ASSUME NEW m, Sound(m) PROVE Sound(handle_nat_fwd_ipv4(m))
BY ep_tail_call_Sound, nodeport_rev_dnat_fwd_ipv4_Sound DEF handle_nat_fwd_ipv4, Continue
LEMMA handle_nat_fwd_ipv6_Sound ==
  ASSUME NEW m, Sound(m) PROVE Sound(handle_nat_fwd_ipv6(m))
BY ep_tail_call_Sound, nodeport_rev_dnat_fwd_ipv6_Sound DEF handle_nat_fwd_ipv6, Continue
LEMMA tail_handle_nat_fwd_ipv4_Sound ==
  ASSUME NEW m, Sound(m) PROVE Sound(tail_handle_nat_fwd_ipv4(m))
BY EndOk_Sound, handle_nat_fwd_ipv4_Sound DEF tail_handle_nat_fwd_ipv4
LEMMA tail_handle_nat_fwd_ipv6_Sound ==
  ASSUME NEW m, Sound(m) PROVE Sound(tail_handle_nat_fwd_ipv6(m))
BY EndOk_Sound, handle_nat_fwd_ipv6_Sound DEF tail_handle_nat_fwd_ipv6
LEMMA handle_nat_fwd_Sound ==
  ASSUME NEW m, Sound(m) PROVE Sound(handle_nat_fwd(m))
BY ep_tail_call_Sound, handle_nat_fwd_ipv4_Sound, handle_nat_fwd_ipv6_Sound DEF handle_nat_fwd
LEMMA health_encap_v4_Sound ==
  ASSUME NEW m, Sound(m), NEW tunnel_ep PROVE Sound(health_encap_v4(m, tunnel_ep))
BY encap_with_nodeid_Sound DEF health_encap_v4
LEMMA health_encap_v6_Sound ==
  ASSUME NEW m, Sound(m), NEW tunnel_ep PROVE Sound(health_encap_v6(m, tunnel_ep))
BY encap_with_nodeid_Sound DEF health_encap_v6
LEMMA lb_handle_health_Sound ==
  ASSUME NEW m, Sound(m) PROVE Sound(lb_handle_health(m))
BY health_encap_v4_Sound, health_encap_v6_Sound, ctx_redirect_Sound, SetSound DEF lb_handle_health

(* The programs of a pod (Lxc).                                            *)

LEMMA bpf_clear_meta_Sound ==
  ASSUME NEW m, Sound(m) PROVE Sound(bpf_clear_meta(m))
BY SetSound DEF bpf_clear_meta
LEMMA lb4_to_ct_Sound ==
  ASSUME NEW m, Sound(m), NEW s, NEW port PROVE Sound(lb4_to_ct(m, s, port))
BY ep_tail_call_Sound, lb4_ctx_store_state_Sound DEF lb4_to_ct
LEMMA lb4_balanced_Sound ==
  ASSUME NEW m, Sound(m) PROVE Sound(lb4_balanced(m))
BY ep_tail_call_Sound, Ignore_Sound, lb4_to_ct_Sound DEF lb4_balanced
LEMMA lb4_for_service_Sound ==
  ASSUME NEW m, Sound(m) PROVE Sound(lb4_for_service(m))
BY lb4_to_ct_Sound, Ignore_Sound, lb4_balanced_Sound, lb4_local_Sound DEF lb4_for_service
LEMMA __per_packet_lb_svc_xlate_4_Sound ==
  ASSUME NEW m, Sound(m) PROVE Sound(__per_packet_lb_svc_xlate_4(m))
BY lb4_for_service_Sound, lb4_extract_tuple_Sound, SetSound DEF __per_packet_lb_svc_xlate_4
LEMMA lb6_to_ct_Sound ==
  ASSUME NEW m, Sound(m), NEW s, NEW port PROVE Sound(lb6_to_ct(m, s, port))
BY ep_tail_call_Sound, lb6_ctx_store_state_Sound DEF lb6_to_ct
LEMMA lb6_balanced_Sound ==
  ASSUME NEW m, Sound(m) PROVE Sound(lb6_balanced(m))
BY ep_tail_call_Sound, Ignore_Sound, lb6_to_ct_Sound DEF lb6_balanced
LEMMA lb6_for_service_Sound ==
  ASSUME NEW m, Sound(m) PROVE Sound(lb6_for_service(m))
BY lb6_to_ct_Sound, Ignore_Sound, lb6_balanced_Sound, lb6_local_Sound DEF lb6_for_service
LEMMA __per_packet_lb_svc_xlate_6_Sound ==
  ASSUME NEW m, Sound(m) PROVE Sound(__per_packet_lb_svc_xlate_6(m))
BY lb6_for_service_Sound, lb6_extract_tuple_Sound, SetSound DEF __per_packet_lb_svc_xlate_6
LEMMA ToBuffer_Sound ==
  ASSUME NEW m, Sound(m) PROVE Sound(ToBuffer(m))
BY SetSound DEF ToBuffer
LEMMA tail_ct_lookup4_Sound ==
  ASSUME NEW m, Sound(m), NEW dir PROVE Sound(tail_ct_lookup4(m, dir))
BY ToBuffer_Sound, ct_lookup4_Sound, SetSound DEF tail_ct_lookup4
LEMMA tail_ct_lookup6_Sound ==
  ASSUME NEW m, Sound(m), NEW dir PROVE Sound(tail_ct_lookup6(m, dir))
BY ct_lookup6_Sound, ToBuffer_Sound, ipv6_hdrlen_Sound, SetSound DEF tail_ct_lookup6, Then
LEMMA FromBuffer_Sound ==
  ASSUME NEW m, Sound(m) PROVE Sound(FromBuffer(m))
BY SetSound DEF FromBuffer
LEMMA lxc_egress_policy4_Sound ==
  ASSUME NEW m, Sound(m), NEW dst, NEW hairpin PROVE Sound(lxc_egress_policy4(m, dst, hairpin))
BY policy_can_egress4_Sound, ctx_redirect_to_proxy4_Sound, auth_lookup_Sound, Drop_Sound
   DEF lxc_egress_policy4, lxc_egress_policy
LEMMA lxc_egress_policy6_Sound ==
  ASSUME NEW m, Sound(m), NEW dst PROVE Sound(lxc_egress_policy6(m, dst))
BY policy_can_egress6_Sound, ctx_redirect_to_proxy6_Sound, auth_lookup_Sound, Drop_Sound
   DEF lxc_egress_policy6, lxc_egress_policy
LEMMA lxc_egress_ct4_Sound ==
  ASSUME NEW m, Sound(m), NEW new PROVE Sound(lxc_egress_ct4(m, new))
BY ct_create4_Sound, xlate_dsr_v4_Sound, lb4_rev_nat_Sound, policy_mark_skip_Sound, ep_tail_call_Sound,
   SetSound
   DEF lxc_egress_ct4, lxc_egress_ct
LEMMA lxc_egress_ct6_Sound ==
  ASSUME NEW m, Sound(m), NEW new PROVE Sound(lxc_egress_ct6(m, new))
BY ct_create6_Sound, xlate_dsr_v6_Sound, policy_mark_skip_Sound, ep_tail_call_Sound, SetSound
   DEF lxc_egress_ct6, lxc_egress_ct
LEMMA lxc_pass_to_stack4_Sound ==
  ASSUME NEW m, Sound(m), NEW dst PROVE Sound(lxc_pass_to_stack4(m, dst))
BY ipv4_l3_Sound, set_identity_mark_Sound, set_ipsec_encrypt_Sound, CTX_ACT_OK_Sound
   DEF lxc_pass_to_stack4, lxc_pass_to_stack
LEMMA lxc_pass_to_stack6_Sound ==
  ASSUME NEW m, Sound(m), NEW dst PROVE Sound(lxc_pass_to_stack6(m, dst))
BY ipv6_l3_Sound, set_identity_mark_Sound, set_ipsec_encrypt_Sound, CTX_ACT_OK_Sound
   DEF lxc_pass_to_stack6, lxc_pass_to_stack
LEMMA lxc_local4_Sound ==
  ASSUME NEW m, Sound(m), NEW dst, NEW hairpin PROVE Sound(lxc_local4(m, dst, hairpin))
BY ipv4_local_delivery_Sound, ipv4_l3_Sound, ep_tail_call_Sound, policy_clear_mark_Sound,
   ctx_redirect_Sound, set_identity_mark_Sound, set_ipsec_encrypt_Sound, CTX_ACT_OK_Sound, SetSound
   DEF lxc_local4, lxc_local, lxc_to_host, lxc_pass_to_stack
LEMMA lxc_egress_gateway_Sound ==
  ASSUME NEW m, Sound(m), NEW dst PROVE Sound(lxc_egress_gateway(m, dst))
BY Drop_Sound, encap_and_redirect_to_Sound DEF lxc_egress_gateway
LEMMA lxc_vtep_Sound ==
  ASSUME NEW m, Sound(m) PROVE Sound(lxc_vtep(m))
BY encap_and_redirect_Sound DEF lxc_vtep
LEMMA lxc_tunnel4_Sound ==
  ASSUME NEW m, Sound(m), NEW dst PROVE Sound(lxc_tunnel4(m, dst))
BY encap_and_redirect_lxc_Sound, lxc_pass_to_stack4_Sound DEF lxc_tunnel4
LEMMA lxc_tunnel6_Sound ==
  ASSUME NEW m, Sound(m), NEW dst PROVE Sound(lxc_tunnel6(m, dst))
BY encap_and_redirect_lxc_Sound DEF lxc_tunnel6
LEMMA lxc_forward4_Sound ==
  ASSUME NEW m, Sound(m), NEW dst, NEW hairpin PROVE Sound(lxc_forward4(m, dst, hairpin))
<1> DEFINE Sid(vrf) == srv6_lookup_policy4(m, vrf, m.pkt.daddr)
           Srv6(n) == lxc_srv6(n, srv6_lookup_vrf4(n, n.pkt.saddr, n.pkt.daddr), Sid)
           Proxy(n) == IF ~FromL7Lb(n) /\ n.proxy_port > 0
                       THEN ctx_redirect_to_proxy4(n, n.proxy_port, FALSE) ELSE n
           Local(n) == lxc_local4(n, dst, hairpin)
           Gateway(n) == lxc_egress_gateway(n, dst)
           Tunnel(n) == lxc_tunnel4(n, dst)
           Route(n) == IF On(n, "ENABLE_HOST_ROUTING") THEN fib_redirect_v4(n, FALSE, FALSE)
                       ELSE lxc_pass_to_stack4(n, dst)
           s1 == Srv6(m)
           s2 == Continue(s1, Proxy)
           s3 == Continue(s2, Local)
           s4 == Continue(s3, Gateway)
           s5 == Continue(s4, lxc_vtep)
           s6 == Continue(s5, Tunnel)
<1>1. Sound(Srv6(m))
  BY ep_tail_call_Sound, srv6_store_meta_sid_Sound DEF lxc_srv6
<1>2. ASSUME NEW n, Sound(n) PROVE Sound(Proxy(n))
  BY <1>2, ctx_redirect_to_proxy4_Sound
<1>3. ASSUME NEW n, Sound(n) PROVE Sound(Local(n))
  BY <1>3, lxc_local4_Sound
<1>4. ASSUME NEW n, Sound(n) PROVE Sound(Gateway(n))
  BY <1>4, lxc_egress_gateway_Sound
<1>5. ASSUME NEW n, Sound(n) PROVE Sound(Tunnel(n)) /\ Sound(Route(n))
  BY <1>5, lxc_tunnel4_Sound, fib_redirect_v4_Sound, lxc_pass_to_stack4_Sound
<1>6. lxc_forward4(m, dst, hairpin) = Continue(s6, Route)
  BY Zenon DEF lxc_forward4
<1> HIDE DEF Srv6, Proxy, Local, Tunnel, Route, Gateway
<1>7. Sound(s2)
  BY <1>1, <1>2 DEF Continue
<1> HIDE DEF s2
<1>8. Sound(s3)
  BY <1>3, <1>7 DEF Continue
<1> HIDE DEF s3
<1>9. Sound(s6)
  BY <1>8, <1>5, <1>4, lxc_vtep_Sound DEF Continue
<1> HIDE DEF s6
<1> QED BY <1>5, <1>6, <1>9 DEF Continue
LEMMA lxc_forward6_Sound ==
  ASSUME NEW m, Sound(m), NEW dst PROVE Sound(lxc_forward6(m, dst))
<1> DEFINE Sid(vrf) == srv6_lookup_policy6(m, vrf, m.pkt.daddr)
           Srv6(n) == lxc_srv6(n, srv6_lookup_vrf6(n, n.pkt.saddr, n.pkt.daddr), Sid)
           Proxy(n) == IF ~FromL7Lb(n) /\ n.proxy_port > 0
                       THEN ctx_redirect_to_proxy6(n, n.proxy_port, FALSE) ELSE n
           ep == lookup_ip6_endpoint(m, m.pkt.daddr)
           Deliver(n) == ipv6_local_delivery(n, n.self.sec_id, "IDENTITY", ep, FromL7Lb(n), FALSE)
           Local(n) == lxc_local(n, dst, ep, FALSE, ipv6_l3, Deliver)
           Tunnel(n) == lxc_tunnel6(n, dst)
           Route(n) == IF On(n, "ENABLE_HOST_ROUTING") THEN fib_redirect_v6(n, FALSE, FALSE)
                       ELSE lxc_pass_to_stack6(n, dst)
           s1 == Srv6(m)
           s2 == Continue(s1, Proxy)
           s3 == Continue(s2, Local)
           s6 == Continue(s3, Tunnel)
<1>1. Sound(Srv6(m))
  BY ep_tail_call_Sound, srv6_store_meta_sid_Sound DEF lxc_srv6
<1>2. ASSUME NEW n, Sound(n) PROVE Sound(Proxy(n))
  BY <1>2, ctx_redirect_to_proxy6_Sound
<1>3. ASSUME NEW n, Sound(n) PROVE Sound(Local(n))
  BY <1>3, ipv6_local_delivery_Sound, ipv6_l3_Sound, policy_clear_mark_Sound, ctx_redirect_Sound,
     set_identity_mark_Sound, set_ipsec_encrypt_Sound, CTX_ACT_OK_Sound, ep_tail_call_Sound, SetSound
     DEF lxc_local, lxc_to_host, lxc_pass_to_stack
<1>5. ASSUME NEW n, Sound(n) PROVE Sound(Tunnel(n)) /\ Sound(Route(n))
  BY <1>5, lxc_tunnel6_Sound, fib_redirect_v6_Sound, lxc_pass_to_stack6_Sound
<1>6. lxc_forward6(m, dst) = Continue(s6, Route)
  BY Zenon DEF lxc_forward6
<1> HIDE DEF Srv6, Proxy, Local, Tunnel, Route
<1>7. Sound(s2)
  BY <1>1, <1>2 DEF Continue
<1> HIDE DEF s2
<1>8. Sound(s3)
  BY <1>3, <1>7 DEF Continue
<1> HIDE DEF s3
<1>9. Sound(s6)
  BY <1>8, <1>5 DEF Continue
<1> HIDE DEF s6
<1> QED BY <1>5, <1>6, <1>9 DEF Continue
LEMMA handle_ipv4_from_lxc_Sound ==
  ASSUME NEW m, Sound(m) PROVE Sound(handle_ipv4_from_lxc(m))
BY lb4_ctx_restore_state_Sound, FromBuffer_Sound, lxc_egress_ct4_Sound, lxc_forward4_Sound,
   lxc_egress_policy4_Sound, Drop_Sound, SetSound
   DEF handle_ipv4_from_lxc, Continue
LEMMA handle_ipv6_from_lxc_Sound ==
  ASSUME NEW m, Sound(m) PROVE Sound(handle_ipv6_from_lxc(m))
BY lb6_ctx_restore_state_Sound, FromBuffer_Sound, lxc_egress_ct6_Sound, lxc_forward6_Sound,
   lxc_egress_policy6_Sound, Drop_Sound, SetSound
   DEF handle_ipv6_from_lxc, Continue
LEMMA tail_handle_ipv4_cont_Sound ==
  ASSUME NEW m, Sound(m) PROVE Sound(tail_handle_ipv4_cont(m))
BY handle_ipv4_from_lxc_Sound DEF tail_handle_ipv4_cont
LEMMA tail_handle_ipv6_cont_Sound ==
  ASSUME NEW m, Sound(m) PROVE Sound(tail_handle_ipv6_cont(m))
BY handle_ipv6_from_lxc_Sound DEF tail_handle_ipv6_cont
LEMMA tail_ipv4_ct_egress_Sound ==
  ASSUME NEW m, Sound(m) PROVE Sound(tail_ipv4_ct_egress(m))
BY tail_ct_lookup4_Sound, tail_handle_ipv4_cont_Sound, ep_tail_call_Sound DEF tail_ipv4_ct_egress, InvokeIf
LEMMA tail_ipv6_ct_egress_Sound ==
  ASSUME NEW m, Sound(m) PROVE Sound(tail_ipv6_ct_egress(m))
BY tail_ct_lookup6_Sound, tail_handle_ipv6_cont_Sound, ep_tail_call_Sound DEF tail_ipv6_ct_egress, InvokeIf
LEMMA lxc_handle_ipv4_Sound ==
  ASSUME NEW m, Sound(m) PROVE Sound(lxc_handle_ipv4(m))
BY Drop_Sound, __per_packet_lb_svc_xlate_4_Sound, tail_ipv4_ct_egress_Sound DEF lxc_handle_ipv4
LEMMA lxc_handle_ipv6_Sound ==
  ASSUME NEW m, Sound(m) PROVE Sound(lxc_handle_ipv6(m))
BY icmp6_ndp_handle_Sound, Drop_Sound, __per_packet_lb_svc_xlate_6_Sound, tail_ipv6_ct_egress_Sound
   DEF lxc_handle_ipv6
LEMMA lxc_tail_handle_ipv4_Sound ==
  ASSUME NEW m, Sound(m) PROVE Sound(lxc_tail_handle_ipv4(m))
BY lxc_handle_ipv4_Sound DEF lxc_tail_handle_ipv4
LEMMA lxc_tail_handle_ipv6_Sound ==
  ASSUME NEW m, Sound(m) PROVE Sound(lxc_tail_handle_ipv6(m))
BY lxc_handle_ipv6_Sound DEF lxc_tail_handle_ipv6
LEMMA tail_handle_arp_Sound ==
  ASSUME NEW m, Sound(m) PROVE Sound(tail_handle_arp(m))
BY CTX_ACT_OK_Sound, arp_respond_Sound DEF tail_handle_arp
LEMMA cil_from_container_Sound ==
  ASSUME NEW m, Sound(m) PROVE Sound(cil_from_container(m))
BY bpf_clear_meta_Sound, ep_tail_call_Sound, edt_set_aggregate_Sound, CTX_ACT_OK_Sound, Drop_Sound
   DEF cil_from_container
LEMMA ToProxy_Sound ==
  ASSUME NEW m, Sound(m) PROVE Sound(ToProxy(m))
BY SetSound DEF ToProxy
LEMMA lxc_ingress_policy4_Sound ==
  ASSUME NEW m, Sound(m), NEW src_label, NEW self, NEW lb
  PROVE  Sound(lxc_ingress_policy4(m, src_label, self, lb))
BY lb4_rev_nat_Sound, policy_can_ingress4_Sound, auth_lookup_Sound, ToProxy_Sound, Drop_Sound
   DEF lxc_ingress_policy4, lxc_ingress_policy
LEMMA lxc_ingress_nodeport_Sound ==
  ASSUME NEW m, Sound(m), NEW egress PROVE Sound(lxc_ingress_nodeport(m, egress))
BY ct_update_dsr_Sound, ct_update_nodeport_Sound DEF lxc_ingress_nodeport
LEMMA lxc_ingress_ct4_Sound ==
  ASSUME NEW m, Sound(m), NEW new, NEW src_label PROVE Sound(lxc_ingress_ct4(m, new, src_label))
BY ct_create4_Sound, lxc_ingress_nodeport_Sound, ToProxy_Sound, SetSound DEF lxc_ingress_ct4, lxc_ingress_ct
LEMMA ipv4_policy_Sound ==
  ASSUME NEW m0, Sound(m0), NEW src_label, NEW from_tunnel
  PROVE  Sound(ipv4_policy(m0, src_label, from_tunnel))
BY FromBuffer_Sound, policy_clear_mark_Sound, lxc_ingress_policy4_Sound, Drop_Sound, lxc_ingress_ct4_Sound,
   SetSound
   DEF ipv4_policy
LEMMA ipv6_policy_Sound ==
  ASSUME NEW m0, Sound(m0), NEW src_label PROVE Sound(ipv6_policy(m0, src_label))
<1> DEFINE m == [FromBuffer(policy_clear_mark(m0)) EXCEPT !.proxy_port = 0, !.pol = "OK"]
           RevNat(n) == lb6_rev_nat(n, n.state.rev_nat_index, FALSE)
           CanIngress(n) == policy_can_ingress6(n, src_label)
           p == lxc_ingress_policy(m, src_label, FALSE, m.state.rev_nat_index # 0, RevNat,
                                   CanIngress, lookup_ip6_remote_endpoint(m, m.pkt.saddr))
           Create(n, s) == ct_create6(n, "CT_INGRESS", s, n.proxy_port > 0, FALSE, TRUE)
           c == lxc_ingress_ct(p, ct_state, ct_has_nodeport_egress_entry6(p, p.tuple, FALSE), src_label, Create)
<1>1. Sound(m)
  BY FromBuffer_Sound, policy_clear_mark_Sound, SetSound
<1>2. Sound(p)
  <2> HIDE DEF m
  <2> QED BY <1>1, lb6_rev_nat_Sound, policy_can_ingress6_Sound, Drop_Sound, auth_lookup_Sound, ToProxy_Sound
          DEF lxc_ingress_policy
<1>3. Sound(c)
  <2> HIDE DEF p
  <2> QED BY <1>2, ct_create6_Sound, ToProxy_Sound, lxc_ingress_nodeport_Sound DEF lxc_ingress_ct
<1>4. ipv6_policy(m0, src_label)
        = IF m0.buf = None THEN Drop(m0, "DROP_INVALID_TC_BUFFER")
          ELSE IF p.err # "" \/ p.pol = "PROXY_REDIRECT" THEN p ELSE c
  BY DEF ipv6_policy, lxc_ingress_policy, lxc_ingress_ct
<1> HIDE DEF p, c
<1> QED BY <1>2, <1>3, <1>4, Drop_Sound
LEMMA tail_ipv4_policy_Sound ==
  ASSUME NEW m, Sound(m) PROVE Sound(tail_ipv4_policy(m))
<1> DEFINE c == [m EXCEPT !.cb.src_label = "UNKNOWN", !.cb.from_host = {},
                          !.cb.from_tunnel = IF On(m, "HAVE_ENCAP") THEN FALSE ELSE @]
           from_tunnel == On(m, "HAVE_ENCAP") /\ m.cb.from_tunnel
           p == ipv4_policy(c, m.cb.src_label, from_tunnel)
           done == IF p.pol = "PROXY_REDIRECT" THEN ctx_redirect_to_proxy4(p, p.proxy_port, m.cb.from_host # {})
                   ELSE IF \/ ~On(m, "ENABLE_ROUTING") /\ ~On(m, "ENABLE_NODEPORT") /\ from_tunnel
                           \/ m.cb.ifindex = 0
                   THEN CTX_ACT_OK(p)
                   ELSE ctx_redirect(p, m.cb.ifindex)
           magic == IF done.mark.magic = "TO_PROXY" THEN p.proxy_port ELSE None
           marked == [done EXCEPT !.cb.proxy_magic = magic]
<1>1. Sound(p)
  BY ipv4_policy_Sound, SetSound
<1>2. Sound(done)
  <2> HIDE DEF p, from_tunnel
  <2> QED BY <1>1, ctx_redirect_to_proxy4_Sound, CTX_ACT_OK_Sound, ctx_redirect_Sound
<1>3. Sound(marked)
  <2> HIDE DEF done, magic
  <2> QED BY <1>2, SetSound
<1>4. tail_ipv4_policy(m)
        = IF p.err # "" \/ done.err # "" THEN IF p.err # "" THEN p ELSE done ELSE marked
  BY DEF tail_ipv4_policy, lxc_policy_only
<1> HIDE DEF p, done, marked
<1> QED BY <1>1, <1>2, <1>3, <1>4
LEMMA tail_ipv6_policy_Sound ==
  ASSUME NEW m, Sound(m) PROVE Sound(tail_ipv6_policy(m))
<1> DEFINE c == [m EXCEPT !.cb.src_label = "UNKNOWN", !.cb.from_host = {},
                          !.cb.from_tunnel = IF On(m, "HAVE_ENCAP") THEN FALSE ELSE @]
           from_tunnel == On(m, "HAVE_ENCAP")
           p == ipv6_policy(c, m.cb.src_label)
           done == IF p.pol = "PROXY_REDIRECT" THEN ctx_redirect_to_proxy6(p, p.proxy_port, m.cb.from_host # {})
                   ELSE IF \/ ~On(m, "ENABLE_ROUTING") /\ ~On(m, "ENABLE_NODEPORT") /\ from_tunnel
                           \/ m.cb.ifindex = 0
                   THEN CTX_ACT_OK(p)
                   ELSE ctx_redirect(p, m.cb.ifindex)
           magic == IF done.mark.magic = "TO_PROXY" THEN p.proxy_port ELSE None
           marked == [done EXCEPT !.cb.proxy_magic = magic]
<1>1. Sound(p)
  BY ipv6_policy_Sound, SetSound
<1>2. Sound(done)
  <2> HIDE DEF p, from_tunnel
  <2> QED BY <1>1, ctx_redirect_to_proxy6_Sound, CTX_ACT_OK_Sound, ctx_redirect_Sound
<1>3. Sound(marked)
  <2> HIDE DEF done, magic
  <2> QED BY <1>2, SetSound
<1>4. tail_ipv6_policy(m)
        = IF p.err # "" \/ done.err # "" THEN IF p.err # "" THEN p ELSE done ELSE marked
  BY DEF tail_ipv6_policy, lxc_policy_only
<1> HIDE DEF p, done, marked
<1> QED BY <1>1, <1>2, <1>3, <1>4
LEMMA tail_ipv4_ct_ingress_policy_only_Sound ==
  ASSUME NEW m, Sound(m) PROVE Sound(tail_ipv4_ct_ingress_policy_only(m))
BY tail_ct_lookup4_Sound, tail_ipv4_policy_Sound, ep_tail_call_Sound
   DEF tail_ipv4_ct_ingress_policy_only, InvokeIf
LEMMA tail_ipv6_ct_ingress_policy_only_Sound ==
  ASSUME NEW m, Sound(m) PROVE Sound(tail_ipv6_ct_ingress_policy_only(m))
BY tail_ct_lookup6_Sound, tail_ipv6_policy_Sound, ep_tail_call_Sound
   DEF tail_ipv6_ct_ingress_policy_only, InvokeIf
LEMMA handle_policy_Sound ==
  ASSUME NEW m, Sound(m) PROVE Sound(handle_policy(m))
BY Drop_Sound, tail_ipv4_ct_ingress_policy_only_Sound, tail_ipv6_ct_ingress_policy_only_Sound,
   ep_tail_call_Sound
   DEF handle_policy, InvokeIf
LEMMA handle_policy_egress_Sound ==
  ASSUME NEW m, Sound(m) PROVE Sound(handle_policy_egress(m))
BY edt_set_aggregate_Sound, Drop_Sound, ep_tail_call_Sound, SetSound DEF handle_policy_egress
LEMMA tail_ipv4_to_endpoint_Sound ==
  ASSUME NEW m, Sound(m) PROVE Sound(tail_ipv4_to_endpoint(m))
BY CTX_ACT_OK_Sound, ipv4_policy_Sound, ctx_redirect_to_proxy_hairpin_ipv4_Sound, SetSound
   DEF tail_ipv4_to_endpoint, lxc_to_endpoint
LEMMA tail_ipv6_to_endpoint_Sound ==
  ASSUME NEW m, Sound(m) PROVE Sound(tail_ipv6_to_endpoint(m))
BY CTX_ACT_OK_Sound, ipv6_policy_Sound, ctx_redirect_to_proxy_hairpin_ipv6_Sound, SetSound
   DEF tail_ipv6_to_endpoint, lxc_to_endpoint
LEMMA tail_ipv4_ct_ingress_Sound ==
  ASSUME NEW m, Sound(m) PROVE Sound(tail_ipv4_ct_ingress(m))
BY ep_tail_call_Sound, tail_ct_lookup4_Sound DEF tail_ipv4_ct_ingress, Then
LEMMA tail_ipv6_ct_ingress_Sound ==
  ASSUME NEW m, Sound(m) PROVE Sound(tail_ipv6_ct_ingress(m))
BY ep_tail_call_Sound, tail_ct_lookup6_Sound DEF tail_ipv6_ct_ingress, Then
LEMMA cil_to_container_Sound ==
  ASSUME NEW m, Sound(m) PROVE Sound(cil_to_container(m))
BY inherit_identity_from_host_Sound, bpf_clear_meta_Sound, ep_tail_call_Sound, CTX_ACT_OK_Sound, Drop_Sound,
   SetSound
   DEF cil_to_container

(* The programs of the host and its devices (Host).                        *)

LEMMA HostLookup_Sound ==
  ASSUME NEW m, Sound(m) PROVE Sound(HostLookup(m))
BY SetSound DEF HostLookup
LEMMA ipv4_host_policy_egress_lookup_Sound ==
  ASSUME NEW m, Sound(m) PROVE Sound(ipv4_host_policy_egress_lookup(m))
BY ct_lookup4_Sound, HostLookup_Sound DEF ipv4_host_policy_egress_lookup
LEMMA ipv6_host_policy_egress_lookup_Sound ==
  ASSUME NEW m, Sound(m) PROVE Sound(ipv6_host_policy_egress_lookup(m))
BY ct_lookup6_Sound, ipv6_hdrlen_Sound, HostLookup_Sound DEF ipv6_host_policy_egress_lookup, Then
LEMMA ipv4_host_policy_ingress_lookup_Sound ==
  ASSUME NEW m, Sound(m) PROVE Sound(ipv4_host_policy_ingress_lookup(m))
BY ct_lookup4_Sound, HostLookup_Sound DEF ipv4_host_policy_ingress_lookup
LEMMA ipv6_host_policy_ingress_lookup_Sound ==
  ASSUME NEW m, Sound(m) PROVE Sound(ipv6_host_policy_ingress_lookup(m))
BY ct_lookup6_Sound, ipv6_hdrlen_Sound, HostLookup_Sound DEF ipv6_host_policy_ingress_lookup, Then
LEMMA host_authorise_Sound ==
  ASSUME NEW m, Sound(m), NEW remote, NEW tunnel PROVE Sound(host_authorise(m, remote, tunnel))
BY auth_lookup_Sound DEF host_authorise
LEMMA ipv4_whitelist_snated_egress_connections_Sound ==
  ASSUME NEW m, Sound(m) PROVE Sound(ipv4_whitelist_snated_egress_connections(m))
BY ct_create4_Sound DEF ipv4_whitelist_snated_egress_connections
LEMMA ipv6_whitelist_snated_egress_connections_Sound ==
  ASSUME NEW m, Sound(m) PROVE Sound(ipv6_whitelist_snated_egress_connections(m))
BY ct_create6_Sound DEF ipv6_whitelist_snated_egress_connections
LEMMA __ipv4_host_policy_egress_Sound ==
  ASSUME NEW m, Sound(m), NEW is_host_id PROVE Sound(__ipv4_host_policy_egress(m, is_host_id))
BY policy_can_egress4_Sound, ct_create4_Sound, ipv4_whitelist_snated_egress_connections_Sound,
   host_authorise_Sound, Drop_Sound, SetSound
   DEF __ipv4_host_policy_egress, host_policy, host_policy_verdict
LEMMA __ipv6_host_policy_egress_Sound ==
  ASSUME NEW m, Sound(m), NEW is_host_id PROVE Sound(__ipv6_host_policy_egress(m, is_host_id))
BY policy_can_egress6_Sound, ct_create6_Sound, ipv6_whitelist_snated_egress_connections_Sound,
   host_authorise_Sound, Drop_Sound, SetSound
   DEF __ipv6_host_policy_egress, host_policy, host_policy_verdict
LEMMA __ipv4_host_policy_ingress_Sound ==
  ASSUME NEW m, Sound(m), NEW src0 PROVE Sound(__ipv4_host_policy_ingress(m, src0))
BY policy_can_ingress4_Sound, ct_create4_Sound, host_authorise_Sound, Drop_Sound, SetSound
   DEF __ipv4_host_policy_ingress, host_policy, host_policy_verdict
LEMMA __ipv6_host_policy_ingress_Sound ==
  ASSUME NEW m, Sound(m), NEW src0 PROVE Sound(__ipv6_host_policy_ingress(m, src0))
BY policy_can_ingress6_Sound, ct_create6_Sound, host_authorise_Sound, Drop_Sound, SetSound
   DEF __ipv6_host_policy_ingress, host_policy, host_policy_verdict
LEMMA ipv4_host_policy_egress_Sound ==
  ASSUME NEW m, Sound(m), NEW src_id, NEW ipcache_srcid
  PROVE  Sound(ipv4_host_policy_egress(m, src_id, ipcache_srcid))
BY __ipv4_host_policy_egress_Sound, ipv4_host_policy_egress_lookup_Sound DEF ipv4_host_policy_egress, Then
LEMMA ipv6_host_policy_egress_Sound ==
  ASSUME NEW m, Sound(m), NEW src_id, NEW ipcache_srcid
  PROVE  Sound(ipv6_host_policy_egress(m, src_id, ipcache_srcid))
BY __ipv6_host_policy_egress_Sound, ipv6_host_policy_egress_lookup_Sound DEF ipv6_host_policy_egress, Then
LEMMA ipv4_host_policy_ingress_Sound ==
  ASSUME NEW m, Sound(m) PROVE Sound(ipv4_host_policy_ingress(m))
BY __ipv4_host_policy_ingress_Sound, ipv4_host_policy_ingress_lookup_Sound
   DEF ipv4_host_policy_ingress, Then
LEMMA ipv6_host_policy_ingress_Sound ==
  ASSUME NEW m, Sound(m) PROVE Sound(ipv6_host_policy_ingress(m))
BY __ipv6_host_policy_ingress_Sound, ipv6_host_policy_ingress_lookup_Sound
   DEF ipv6_host_policy_ingress, Then
LEMMA HostPolicy4_Sound ==
  ASSUME NEW m, Sound(m) PROVE Sound(HostPolicy4(m))
BY ipv4_host_policy_ingress_Sound, SetSound DEF HostPolicy4
LEMMA HostPolicy6_Sound ==
  ASSUME NEW m, Sound(m) PROVE Sound(HostPolicy6(m))
BY ipv6_host_policy_ingress_Sound, SetSound DEF HostPolicy6
LEMMA tail_nodeport_nat_ingress_ipv4_Sound ==
  ASSUME NEW m, Sound(m) PROVE Sound(tail_nodeport_nat_ingress_ipv4(m))
BY snat_v4_rev_nat_Sound, HostPolicy4_Sound, nodeport_rev_dnat_ingress_ipv4_Sound,
   ctx_skip_host_fw_set_Sound, ep_tail_call_Sound, ctx_snat_done_set_Sound, Recirculate_Sound, Ignore_Sound,
   edt_set_aggregate_Sound, SetSound
   DEF tail_nodeport_nat_ingress_ipv4, nat_ingress, Then
LEMMA tail_nodeport_nat_ingress_ipv6_Sound ==
  ASSUME NEW m, Sound(m) PROVE Sound(tail_nodeport_nat_ingress_ipv6(m))
BY snat_v6_rev_nat_Sound, HostPolicy6_Sound, nodeport_rev_dnat_ingress_ipv6_Sound,
   ctx_skip_host_fw_set_Sound, ep_tail_call_Sound, ctx_snat_done_set_Sound, Recirculate_Sound, Ignore_Sound,
   edt_set_aggregate_Sound, SetSound
   DEF tail_nodeport_nat_ingress_ipv6, nat_ingress, Then
LEMMA host_balanced4_Sound ==
  ASSUME NEW m, Sound(m), NEW label, NEW ipcache_srcid, NEW from_host
  PROVE  Sound(host_balanced4(m, label, ipcache_srcid, from_host))
BY ep_tail_call_Sound, ipv4_host_policy_egress_lookup_Sound, ipv4_host_policy_ingress_lookup_Sound,
   ctx_skip_host_fw_clear_Sound, SetSound
   DEF host_balanced4, host_firewall_lookup
LEMMA host_handle_ipv4_Sound ==
  ASSUME NEW m, Sound(m), NEW ipcache_srcid, NEW from_host
  PROVE  Sound(host_handle_ipv4(m, ipcache_srcid, from_host))
BY Drop_Sound, host_balanced4_Sound, nodeport_lb4_Sound DEF host_handle_ipv4
LEMMA host_balanced6_Sound ==
  ASSUME NEW m, Sound(m), NEW ipcache_srcid, NEW from_host
  PROVE  Sound(host_balanced6(m, ipcache_srcid, from_host))
BY ipv6_host_policy_egress_lookup_Sound, ipv6_host_policy_ingress_lookup_Sound,
   ctx_skip_host_fw_clear_Sound, SetSound
   DEF host_balanced6, host_firewall_lookup
LEMMA host_handle_ipv6_Sound ==
  ASSUME NEW m, Sound(m), NEW ipcache_srcid, NEW from_host
  PROVE  Sound(host_handle_ipv6(m, ipcache_srcid, from_host))
BY ipv6_hdrlen_Sound, Drop_Sound, host_balanced6_Sound, nodeport_lb6_Sound, SetSound DEF host_handle_ipv6
LEMMA host_forward_Sound ==
  ASSUME NEW m, Sound(m), NEW secctx, NEW info, NEW world PROVE Sound(host_forward(m, secctx, info, world))
BY encap_and_redirect_with_nodeid_Sound, encap_and_redirect_netdev_Sound, Drop_Sound,
   set_ipsec_encrypt_Sound, CTX_ACT_OK_Sound
   DEF host_forward
LEMMA host_vtep_Sound ==
  ASSUME NEW m, Sound(m), NEW secctx PROVE Sound(host_vtep(m, secctx))
BY encap_and_redirect_Sound DEF host_vtep
LEMMA handle_ipv4_cont_Sound ==
  ASSUME NEW m, Sound(m), NEW secctx, NEW from_host PROVE Sound(handle_ipv4_cont(m, secctx, from_host))
BY __ipv4_host_policy_ingress_Sound, ipv4_local_delivery_Sound, host_forward_Sound, host_vtep_Sound,
   __ipv4_host_policy_egress_Sound, CTX_ACT_OK_Sound, Drop_Sound, FromBuffer_Sound, SetSound
   DEF handle_ipv4_cont, Continue, host_deliver, host_firewall_verdict
LEMMA handle_ipv6_cont_Sound ==
  ASSUME NEW m, Sound(m), NEW secctx, NEW from_host PROVE Sound(handle_ipv6_cont(m, secctx, from_host))
BY __ipv6_host_policy_ingress_Sound, ipv6_local_delivery_Sound, host_forward_Sound, ep_tail_call_Sound,
   __ipv6_host_policy_egress_Sound, CTX_ACT_OK_Sound, Drop_Sound, FromBuffer_Sound, SetSound
   DEF handle_ipv6_cont, host_deliver, Continue, host_firewall_verdict
LEMMA host_tail_handle_ipv4_cont_Sound ==
  ASSUME NEW m, Sound(m), NEW from_host PROVE Sound(host_tail_handle_ipv4_cont(m, from_host))
BY handle_ipv4_cont_Sound, SetSound DEF host_tail_handle_ipv4_cont
LEMMA host_tail_handle_ipv6_cont_Sound ==
  ASSUME NEW m, Sound(m), NEW from_host PROVE Sound(host_tail_handle_ipv6_cont(m, from_host))
BY handle_ipv6_cont_Sound, SetSound DEF host_tail_handle_ipv6_cont
LEMMA tail_handle_ipv4_cont_from_host_Sound ==
  ASSUME NEW m, Sound(m) PROVE Sound(tail_handle_ipv4_cont_from_host(m))
BY host_tail_handle_ipv4_cont_Sound DEF tail_handle_ipv4_cont_from_host
LEMMA tail_handle_ipv4_cont_from_netdev_Sound ==
  ASSUME NEW m, Sound(m) PROVE Sound(tail_handle_ipv4_cont_from_netdev(m))
BY host_tail_handle_ipv4_cont_Sound DEF tail_handle_ipv4_cont_from_netdev
LEMMA tail_handle_ipv6_cont_from_host_Sound ==
  ASSUME NEW m, Sound(m) PROVE Sound(tail_handle_ipv6_cont_from_host(m))
BY host_tail_handle_ipv6_cont_Sound DEF tail_handle_ipv6_cont_from_host
LEMMA tail_handle_ipv6_cont_from_netdev_Sound ==
  ASSUME NEW m, Sound(m) PROVE Sound(tail_handle_ipv6_cont_from_netdev(m))
BY host_tail_handle_ipv6_cont_Sound DEF tail_handle_ipv6_cont_from_netdev
LEMMA host_continue4_Sound ==
  ASSUME NEW m, Sound(m), NEW label, NEW from_host PROVE Sound(host_continue4(m, label, from_host))
BY ep_tail_call_Sound, host_tail_handle_ipv4_cont_Sound, SetSound DEF host_continue4
LEMMA host_tail_handle_ipv4_Sound ==
  ASSUME NEW m, Sound(m), NEW ipcache_srcid, NEW from_host
  PROVE  Sound(host_tail_handle_ipv4(m, ipcache_srcid, from_host))
BY host_continue4_Sound, host_handle_ipv4_Sound, SetSound DEF host_tail_handle_ipv4
LEMMA host_continue6_Sound ==
  ASSUME NEW m, Sound(m), NEW label, NEW from_host PROVE Sound(host_continue6(m, label, from_host))
BY ep_tail_call_Sound, host_tail_handle_ipv6_cont_Sound, SetSound DEF host_continue6
LEMMA host_tail_handle_ipv6_Sound ==
  ASSUME NEW m, Sound(m), NEW ipcache_srcid, NEW from_host
  PROVE  Sound(host_tail_handle_ipv6(m, ipcache_srcid, from_host))
BY host_continue6_Sound, host_handle_ipv6_Sound, SetSound DEF host_tail_handle_ipv6
LEMMA tail_handle_ipv4_from_host_Sound ==
  ASSUME NEW m, Sound(m) PROVE Sound(tail_handle_ipv4_from_host(m))
BY host_tail_handle_ipv4_Sound, SetSound DEF tail_handle_ipv4_from_host
LEMMA tail_handle_ipv6_from_host_Sound ==
  ASSUME NEW m, Sound(m) PROVE Sound(tail_handle_ipv6_from_host(m))
BY host_tail_handle_ipv6_Sound, SetSound DEF tail_handle_ipv6_from_host
LEMMA tail_handle_ipv4_from_netdev_Sound ==
  ASSUME NEW m, Sound(m) PROVE Sound(tail_handle_ipv4_from_netdev(m))
BY host_tail_handle_ipv4_Sound DEF tail_handle_ipv4_from_netdev
LEMMA tail_handle_ipv6_from_netdev_Sound ==
  ASSUME NEW m, Sound(m) PROVE Sound(tail_handle_ipv6_from_netdev(m))
BY host_tail_handle_ipv6_Sound DEF tail_handle_ipv6_from_netdev
LEMMA do_netdev_encrypt_encap_Sound ==
  ASSUME NEW m, Sound(m), NEW src_id PROVE Sound(do_netdev_encrypt_encap(m, src_id))
BY bpf_clear_meta_Sound, Drop_Sound, encap_and_redirect_with_nodeid_Sound, SetSound
   DEF do_netdev_encrypt_encap
LEMMA handle_l2_announcement_Sound ==
  ASSUME NEW m, Sound(m) PROVE Sound(handle_l2_announcement(m))
BY CTX_ACT_OK_Sound, arp_respond_Sound DEF handle_l2_announcement
LEMMA ToEgressPolicy_Sound ==
  ASSUME NEW m, Sound(m) PROVE Sound(ToEgressPolicy(m))
BY ep_tail_call_Sound, SetSound DEF ToEgressPolicy
LEMMA do_netdev_Sound ==
  ASSUME NEW m, Sound(m), NEW from_host PROVE Sound(do_netdev(m, from_host))
BY do_decrypt_Sound, inherit_identity_from_host_Sound, bpf_clear_meta_Sound, ToEgressPolicy_Sound,
   do_netdev_encrypt_encap_Sound, CTX_ACT_OK_Sound, handle_l2_announcement_Sound, ep_tail_call_Sound,
   Drop_Sound, SetSound
   DEF do_netdev
LEMMA handle_netdev_Sound ==
  ASSUME NEW m, Sound(m), NEW from_host PROVE Sound(handle_netdev(m, from_host))
BY Drop_Sound, CTX_ACT_OK_Sound, do_netdev_Sound DEF handle_netdev
LEMMA cil_from_netdev_Sound ==
  ASSUME NEW m, Sound(m) PROVE Sound(cil_from_netdev(m))
BY ctx_skip_nodeport_clear_Sound, ctx_skip_nodeport_set_Sound, ctx_snat_done_set_Sound,
   decapsulate_overlay_Sound, CTX_ACT_OK_Sound, Drop_Sound, handle_netdev_Sound
   DEF cil_from_netdev
LEMMA cil_from_host_Sound ==
  ASSUME NEW m, Sound(m) PROVE Sound(cil_from_host(m))
BY handle_netdev_Sound, edt_set_aggregate_Sound DEF cil_from_host
LEMMA handle_to_netdev_ipv4_Sound ==
  ASSUME NEW m, Sound(m) PROVE Sound(handle_to_netdev_ipv4(m))
BY ipv4_host_policy_egress_Sound DEF handle_to_netdev_ipv4
LEMMA handle_to_netdev_ipv6_Sound ==
  ASSUME NEW m, Sound(m) PROVE Sound(handle_to_netdev_ipv6(m))
BY ipv6_hdrlen_Sound, Drop_Sound, ipv6_host_policy_egress_Sound, SetSound DEF handle_to_netdev_ipv6
LEMMA cil_to_netdev_Sound ==
  ASSUME NEW m, Sound(m) PROVE Sound(cil_to_netdev(m))
<1> DEFINE fw == IF On(m, "ENABLE_HOST_FIREWALL") /\ ~ctx_snat_done(m)
                 THEN ByFamily(policy_clear_mark(m), handle_to_netdev_ipv4, handle_to_netdev_ipv6) ELSE m
           Edt(n) == IF On(n, "ENABLE_BANDWIDTH_MANAGER") THEN edt_sched_departure(n) ELSE n
           Encrypt(n) == LET w == wg_maybe_redirect_to_encrypt(n) IN
                         IF ~On(n, "ENABLE_WIREGUARD") THEN n
                         ELSE IF w.verdict = "REDIRECT" THEN w
                         ELSE IF On(n, "ENCRYPTION_STRICT_MODE") /\ ~strict_allow(n)
                         THEN Drop(n, "DROP_UNENCRYPTED_TRAFFIC") ELSE n
           Health(n) == IF On(n, "ENABLE_HEALTH_CHECK") THEN lb_handle_health(n) ELSE n
           NatFwd(n) == IF On(n, "ENABLE_NODEPORT") /\ ~ctx_snat_done(n) /\ Handles(n, n.pkt.fam)
                        THEN handle_nat_fwd(n) ELSE n
           s2 == Continue(Continue(fw, Edt), Encrypt)
           s4 == Continue(Continue(s2, Health), NatFwd)
<1>1. Sound(fw)
  BY policy_clear_mark_Sound, handle_to_netdev_ipv4_Sound, handle_to_netdev_ipv6_Sound, Drop_Sound
     DEF ByFamily
<1>2. ASSUME NEW n, Sound(n) PROVE Sound(Edt(n)) /\ Sound(Encrypt(n)) /\ Sound(Health(n)) /\ Sound(NatFwd(n))
  BY <1>2, edt_sched_departure_Sound, wg_maybe_redirect_to_encrypt_Sound, Drop_Sound, lb_handle_health_Sound,
     handle_nat_fwd_Sound
<1>3. cil_to_netdev(m)
        = IF m.pkt.vlan # 0
          THEN IF allow_vlan(m) THEN CTX_ACT_OK(m) ELSE Drop(m, "DROP_VLAN_FILTERED")
          ELSE IF L7Egress(m) THEN ToEgressPolicy(m) ELSE EndOk(s4)
  BY Zenon DEF cil_to_netdev
<1> HIDE DEF fw, Edt, Encrypt, Health, NatFwd
<1>4. Sound(s2)
  BY <1>1, <1>2 DEF Continue
<1> HIDE DEF s2
<1>5. Sound(s4)
  BY <1>2, <1>4 DEF Continue
<1> HIDE DEF s4
<1> QED BY <1>3, <1>5, CTX_ACT_OK_Sound, Drop_Sound, ToEgressPolicy_Sound, EndOk_Sound
LEMMA cil_to_host_Sound ==
  ASSUME NEW m, Sound(m) PROVE Sound(cil_to_host(m))
BY ctx_redirect_to_proxy_first_Sound, policy_clear_mark_Sound, ipv4_host_policy_ingress_Sound,
   ipv6_host_policy_ingress_Sound, EndOk_Sound, Drop_Sound, SetSound
   DEF cil_to_host, ByFamily, Continue
LEMMA tail_ipv4_host_policy_ingress_Sound ==
  ASSUME NEW m, Sound(m) PROVE Sound(tail_ipv4_host_policy_ingress(m))
BY EndOk_Sound, ipv4_host_policy_ingress_Sound, SetSound DEF tail_ipv4_host_policy_ingress
LEMMA tail_ipv6_host_policy_ingress_Sound ==
  ASSUME NEW m, Sound(m) PROVE Sound(tail_ipv6_host_policy_ingress(m))
BY EndOk_Sound, ipv6_host_policy_ingress_Sound, SetSound DEF tail_ipv6_host_policy_ingress
LEMMA to_host_from_lxc_Sound ==
  ASSUME NEW m, Sound(m) PROVE Sound(to_host_from_lxc(m))
BY tail_ipv4_host_policy_ingress_Sound, tail_ipv6_host_policy_ingress_Sound, EndOk_Sound,
   ep_tail_call_Sound, Drop_Sound
   DEF to_host_from_lxc, InvokeIf, ByFamily
LEMMA from_host_to_lxc_Sound ==
  ASSUME NEW m, Sound(m) PROVE Sound(from_host_to_lxc(m))
BY ipv4_host_policy_egress_Sound, ipv6_host_policy_egress_Sound, Drop_Sound DEF from_host_to_lxc, ByFamily
LEMMA handle_lxc_traffic_Sound ==
  ASSUME NEW m, Sound(m) PROVE Sound(handle_lxc_traffic(m))
BY ep_tail_call_Sound, from_host_to_lxc_Sound, to_host_from_lxc_Sound, SetSound DEF handle_lxc_traffic, Then

(* The tunnel device and XDP (Overlay).                                    *)

LEMMA TunnelIdentity_Sound ==
  ASSUME NEW m, Sound(m), NEW info, NEW world PROVE Sound(TunnelIdentity(m, info, world))
BY SetSound DEF TunnelIdentity
LEMMA Decrypted_Sound ==
  ASSUME NEW m, Sound(m) PROVE Sound(Decrypted(m))
BY SetSound DEF Decrypted
LEMMA StackDecrypts_Sound ==
  ASSUME NEW m, Sound(m) PROVE Sound(StackDecrypts(m))
BY CTX_ACT_OK_Sound, SetSound DEF StackDecrypts
LEMMA ipv4_host_delivery_Sound ==
  ASSUME NEW m, Sound(m) PROVE Sound(ipv4_host_delivery(m))
BY ctx_redirect_Sound, ipv4_l3_Sound, CTX_ACT_OK_Sound DEF ipv4_host_delivery, Then
LEMMA ipv6_host_delivery_Sound ==
  ASSUME NEW m, Sound(m) PROVE Sound(ipv6_host_delivery(m))
BY ctx_redirect_Sound, ipv6_l3_Sound, CTX_ACT_OK_Sound DEF ipv6_host_delivery, Continue
LEMMA inter_cluster_deliver_Sound ==
  ASSUME NEW m, Sound(m), NEW src_id PROVE Sound(inter_cluster_deliver(m, src_id))
BY Ignore_Sound, Drop_Sound, ipv4_host_delivery_Sound, ipv4_local_delivery_Sound DEF inter_cluster_deliver
LEMMA handle_inter_cluster_revsnat_Sound ==
  ASSUME NEW m, Sound(m), NEW src_id PROVE Sound(handle_inter_cluster_revsnat(m, src_id))
BY inter_cluster_deliver_Sound, snat_v4_rev_nat_Sound, SetSound DEF handle_inter_cluster_revsnat
LEMMA tail_handle_inter_cluster_revsnat_Sound ==
  ASSUME NEW m, Sound(m) PROVE Sound(tail_handle_inter_cluster_revsnat(m))
BY handle_inter_cluster_revsnat_Sound, SetSound DEF tail_handle_inter_cluster_revsnat
LEMMA overlay_egress_gateway_Sound ==
  ASSUME NEW m, Sound(m) PROVE Sound(overlay_egress_gateway(m))
BY egress_gw_fib_lookup_and_redirect_Sound, ipv4_l3_Sound, SetSound DEF overlay_egress_gateway, Then
LEMMA overlay_deliver4_Sound ==
  ASSUME NEW m, Sound(m) PROVE Sound(overlay_deliver4(m))
BY ipv4_host_delivery_Sound, ipv4_local_delivery_Sound DEF overlay_deliver4
LEMMA overlay_labelled4_Sound ==
  ASSUME NEW m, Sound(m) PROVE Sound(overlay_labelled4(m))
BY StackDecrypts_Sound, overlay_egress_gateway_Sound, Decrypted_Sound, overlay_deliver4_Sound
   DEF overlay_labelled4, Continue
LEMMA overlay_balanced4_Sound ==
  ASSUME NEW m, Sound(m) PROVE Sound(overlay_balanced4(m))
BY Drop_Sound, ep_tail_call_Sound, overlay_labelled4_Sound, TunnelIdentity_Sound, SetSound
   DEF overlay_balanced4
LEMMA overlay_misread4_Sound ==
  ASSUME NEW m, Sound(m) PROVE Sound(overlay_misread4(m))
BY overlay_balanced4_Sound, SetSound DEF overlay_misread4
LEMMA overlay_handle_ipv4_Sound ==
  ASSUME NEW m, Sound(m) PROVE Sound(overlay_handle_ipv4(m))
BY nodeport_lb4_Sound, Drop_Sound, overlay_misread4_Sound, overlay_balanced4_Sound, SetSound
   DEF overlay_handle_ipv4, Continue
LEMMA overlay_deliver6_Sound ==
  ASSUME NEW m, Sound(m) PROVE Sound(overlay_deliver6(m))
BY ipv6_host_delivery_Sound, ipv6_local_delivery_Sound DEF overlay_deliver6
LEMMA overlay_labelled6_Sound ==
  ASSUME NEW m, Sound(m) PROVE Sound(overlay_labelled6(m))
BY StackDecrypts_Sound, overlay_deliver6_Sound, Decrypted_Sound DEF overlay_labelled6
LEMMA overlay_balanced6_Sound ==
  ASSUME NEW m, Sound(m) PROVE Sound(overlay_balanced6(m))
BY overlay_labelled6_Sound, TunnelIdentity_Sound DEF overlay_balanced6
LEMMA overlay_handle_ipv6_Sound ==
  ASSUME NEW m, Sound(m) PROVE Sound(overlay_handle_ipv6(m))
BY nodeport_lb6_Sound, overlay_balanced6_Sound, SetSound DEF overlay_handle_ipv6, Continue
LEMMA overlay_tail_handle_ipv4_Sound ==
  ASSUME NEW m, Sound(m) PROVE Sound(overlay_tail_handle_ipv4(m))
BY overlay_handle_ipv4_Sound, SetSound DEF overlay_tail_handle_ipv4
LEMMA overlay_tail_handle_ipv6_Sound ==
  ASSUME NEW m, Sound(m) PROVE Sound(overlay_tail_handle_ipv6(m))
BY overlay_handle_ipv6_Sound, SetSound DEF overlay_tail_handle_ipv6
LEMMA overlay_tail_handle_arp_Sound ==
  ASSUME NEW m, Sound(m) PROVE Sound(overlay_tail_handle_arp(m))
BY Drop_Sound, CTX_ACT_OK_Sound, encap_and_redirect_Sound, arp_respond_Sound DEF overlay_tail_handle_arp
LEMMA cil_from_overlay_Sound ==
  ASSUME NEW m, Sound(m) PROVE Sound(cil_from_overlay(m))
BY ctx_skip_nodeport_clear_Sound, bpf_clear_meta_Sound, CTX_ACT_OK_Sound, Drop_Sound, ep_tail_call_Sound,
   SetSound
   DEF cil_from_overlay
LEMMA cil_to_overlay_Sound ==
  ASSUME NEW m, Sound(m) PROVE Sound(cil_to_overlay(m))
BY edt_sched_departure_Sound, handle_nat_fwd_Sound, EndOk_Sound DEF cil_to_overlay, Continue
LEMMA ctx_move_xfer_Sound ==
  ASSUME NEW m, Sound(m) PROVE Sound(ctx_move_xfer(m))
BY SetSound DEF ctx_move_xfer
LEMMA bpf_xdp_exit_Sound ==
  ASSUME NEW m, Sound(m) PROVE Sound(bpf_xdp_exit(m))
BY ctx_move_xfer_Sound DEF bpf_xdp_exit
LEMMA lb_done_Sound ==
  ASSUME NEW m, Sound(m), NEW before, NEW wire PROVE Sound(lb_done(m, before, wire))
BY ep_tail_call_Sound, bpf_xdp_exit_Sound, EndOk_Sound, SetSound DEF lb_done
LEMMA tail_lb_ipv4_Sound ==
  ASSUME NEW m, Sound(m) PROVE Sound(tail_lb_ipv4(m))
BY bpf_xdp_exit_Sound, CTX_ACT_OK_Sound, lb_done_Sound, nodeport_lb4_Sound, SetSound DEF tail_lb_ipv4
LEMMA tail_lb_ipv6_Sound ==
  ASSUME NEW m, Sound(m) PROVE Sound(tail_lb_ipv6(m))
BY bpf_xdp_exit_Sound, CTX_ACT_OK_Sound, EndOk_Sound, nodeport_lb6_Sound, SetSound DEF tail_lb_ipv6
LEMMA check_v4_lb_Sound ==
  ASSUME NEW m, Sound(m) PROVE Sound(check_v4_lb(m))
BY ep_tail_call_Sound, CTX_ACT_OK_Sound DEF check_v4_lb
LEMMA check_v6_lb_Sound ==
  ASSUME NEW m, Sound(m) PROVE Sound(check_v6_lb(m))
BY ep_tail_call_Sound, CTX_ACT_OK_Sound DEF check_v6_lb
LEMMA check_v4_Sound ==
  ASSUME NEW m, Sound(m) PROVE Sound(check_v4(m))
BY Drop_Sound, check_v4_lb_Sound DEF check_v4
LEMMA check_v6_Sound ==
  ASSUME NEW m, Sound(m) PROVE Sound(check_v6(m))
BY Drop_Sound, check_v6_lb_Sound DEF check_v6
LEMMA check_filters_Sound ==
  ASSUME NEW m, Sound(m) PROVE Sound(check_filters(m))
BY ctx_skip_nodeport_clear_Sound, CTX_ACT_OK_Sound, bpf_xdp_exit_Sound, check_v4_Sound, check_v6_Sound,
   SetSound
   DEF check_filters
LEMMA cil_xdp_entry_Sound ==
  ASSUME NEW m, Sound(m) PROVE Sound(cil_xdp_entry(m))
BY check_filters_Sound DEF cil_xdp_entry

(* All programs (Node).                                                    *)

LEMMA EntryProgram_Sound ==
  ASSUME NEW m, Sound(m) PROVE Sound(EntryProgram(m))
BY cil_from_container_Sound, cil_to_container_Sound, cil_from_netdev_Sound, cil_to_netdev_Sound,
   cil_from_host_Sound, cil_to_host_Sound, cil_from_overlay_Sound, cil_to_overlay_Sound, cil_xdp_entry_Sound
   DEF EntryProgram
LEMMA Ipv4Slot_Sound ==
  ASSUME NEW m, Sound(m) PROVE Sound(Ipv4Slot(m))
BY lxc_tail_handle_ipv4_Sound, tail_handle_ipv4_from_netdev_Sound, overlay_tail_handle_ipv4_Sound,
   tail_lb_ipv4_Sound
   DEF Ipv4Slot
LEMMA Ipv6Slot_Sound ==
  ASSUME NEW m, Sound(m) PROVE Sound(Ipv6Slot(m))
BY lxc_tail_handle_ipv6_Sound, tail_handle_ipv6_from_netdev_Sound, overlay_tail_handle_ipv6_Sound,
   tail_lb_ipv6_Sound
   DEF Ipv6Slot
LEMMA LxcProgram_Sound ==
  ASSUME NEW m, Sound(m), NEW p PROVE Sound(LxcProgram(m, p))
BY tail_ipv4_ct_egress_Sound, tail_ipv6_ct_egress_Sound, tail_handle_ipv4_cont_Sound,
   tail_handle_ipv6_cont_Sound, tail_handle_arp_Sound, handle_policy_Sound, handle_policy_egress_Sound,
   tail_ipv4_ct_ingress_policy_only_Sound, tail_ipv6_ct_ingress_policy_only_Sound, tail_ipv4_policy_Sound,
   tail_ipv6_policy_Sound, tail_ipv4_ct_ingress_Sound, tail_ipv6_ct_ingress_Sound,
   tail_ipv4_to_endpoint_Sound, tail_ipv6_to_endpoint_Sound
   DEF LxcProgram
LEMMA NodePortProgram_Sound ==
  ASSUME NEW m, Sound(m), NEW p PROVE Sound(NodePortProgram(m, p))
BY tail_no_service_ipv4_Sound, tail_no_service_ipv6_Sound, tail_nat_ipv46_Sound, tail_nat_ipv64_Sound,
   tail_nodeport_ipv4_dsr_Sound, tail_nodeport_ipv6_dsr_Sound, tail_nodeport_nat_egress_ipv4_Sound,
   tail_nodeport_nat_egress_ipv6_Sound, tail_nodeport_nat_ingress_ipv4_Sound,
   tail_nodeport_nat_ingress_ipv6_Sound, tail_nodeport_rev_dnat_ingress_ipv4_Sound,
   tail_nodeport_rev_dnat_ingress_ipv6_Sound, tail_handle_snat_fwd_ipv4_Sound,
   tail_handle_snat_fwd_ipv6_Sound, tail_handle_nat_fwd_ipv4_Sound, tail_handle_nat_fwd_ipv6_Sound
   DEF NodePortProgram
LEMMA HostProgram_Sound ==
  ASSUME NEW m, Sound(m), NEW p PROVE Sound(HostProgram(m, p))
BY tail_handle_ipv4_from_host_Sound, tail_handle_ipv6_from_host_Sound,
   tail_handle_ipv4_cont_from_host_Sound, tail_handle_ipv6_cont_from_host_Sound,
   tail_handle_ipv4_cont_from_netdev_Sound, tail_handle_ipv6_cont_from_netdev_Sound,
   tail_ipv4_host_policy_ingress_Sound, tail_ipv6_host_policy_ingress_Sound, handle_lxc_traffic_Sound,
   tail_handle_inter_cluster_revsnat_Sound, overlay_tail_handle_arp_Sound,
   tail_icmp6_send_time_exceeded_Sound, tail_icmp6_handle_ns_Sound, tail_srv6_encap_Sound,
   tail_srv6_decap_Sound, Drop_Sound
   DEF HostProgram
LEMMA TailProgram_Sound ==
  ASSUME NEW m, Sound(m), NEW p PROVE Sound(TailProgram(m, p))
BY Ipv4Slot_Sound, Ipv6Slot_Sound, LxcProgram_Sound, NodePortProgram_Sound, HostProgram_Sound
   DEF TailProgram

-----------------------------------------------------------------------------
(* The node.                                                               *)

\* What every step of the node keeps.
NodeInv ==
  /\ now \in Nat
  /\ "ct" \in DOMAIN maps
  /\ CtSound(maps.ct)

LEMMA MachineSound == ASSUME NodeInv, NEW r PROVE Sound(Machine(r))
<1> DEFINE m == Machine(r)
<1>1. "ct" \in DOMAIN m /\ m["ct"] = maps["ct"] /\ "now" \in DOMAIN m /\ m["now"] = now
  BY DEF Machine
<1> HIDE DEF m
<1>2. Sound(m)
  BY <1>1 DEF Sound, NodeInv
<1> QED BY <1>2 DEF m

\* Whichever program a run is at, it leaves the map sound.
LEMMA ExecuteSound == ASSUME NodeInv, NEW r PROVE Sound(Execute(r))
<1> DEFINE s == [Switch(r) EXCEPT !.next = "", !.calls = @ + 1]
<1>1. Sound(Machine(s)) /\ Sound(Machine(r))
  BY MachineSound
<1>2. Execute(r) = IF r.next = "" THEN EntryProgram(Machine(r)) ELSE TailProgram(Machine(s), r.next)
  BY DEF Execute
<1> HIDE DEF s
<1> QED BY <1>1, <1>2, EntryProgram_Sound, TailProgram_Sound

LEMMA InitNode == Init => NodeInv
<1> SUFFICES ASSUME Init PROVE NodeInv
  OBVIOUS
<1>1. "ct" \in DOMAIN Maps0 /\ Maps0["ct"] = <<>>
  BY DEF Maps0, CtMaps
<1>2. CtSound(<<>>)
  BY DEF CtSound
<1> QED BY <1>1, <1>2 DEF Init, NodeInv

LEMMA StepNode == ASSUME NodeInv, NEW c \in Cpus, Step(c) PROVE NodeInv'
<1>1. PICK r \in IF run[c] = None THEN Arriving ELSE IF Done(run[c]) THEN Handed(run[c]) ELSE {run[c]} :
        Leaves(c, Execute(r), r.next)
  BY DEF Step
<1> DEFINE m == Execute(r)
<1>2. Sound(m)
  BY ExecuteSound
<1>3. maps' = [f \in DOMAIN maps |-> m[f]] /\ now' = now
  BY <1>1 DEF Leaves, Step
<1> HIDE DEF m
<1>4. "ct" \in DOMAIN maps' /\ maps'["ct"] = m["ct"]
  BY <1>3 DEF NodeInv
<1>5. CtSound(maps.ct)'
  BY <1>2, <1>3, <1>4 DEF Sound, CtSound, EntrySound
<1> QED BY <1>3, <1>4, <1>5 DEF NodeInv

\* Time passes: what had to go by then has to go no later.
LEMMA TickNode == ASSUME NodeInv, Tick PROVE NodeInv'
<1>1. now' = now + 1 /\ now \in Nat /\ maps' = maps
  BY DEF Tick, NodeInv
<1>2. ASSUME NEW tcp, NEW e, EntrySound(tcp, e) PROVE EntrySound(tcp, e)'
  BY <1>1, <1>2, Lifetimes DEF EntrySound
<1>3. CtSound(maps.ct)'
  BY <1>1, <1>2 DEF NodeInv, CtSound
<1> QED BY <1>1, <1>3 DEF NodeInv

LEMMA CollectNode == ASSUME NodeInv, Collect PROVE NodeInv'
<1>1. PICK k \in DOMAIN maps.ct : maps' = [maps EXCEPT !.ct = MapDelete(@, k)]
  BY DEF Collect
<1>2. now' = now
  BY DEF Collect
<1>3. maps'["ct"] = MapDelete(maps["ct"], k) /\ DOMAIN maps' = DOMAIN maps
  BY <1>1 DEF NodeInv
<1>4. CtSound(maps.ct)'
  BY <1>2, <1>3 DEF NodeInv, CtSound, EntrySound, MapDelete
<1> QED BY <1>2, <1>3, <1>4 DEF NodeInv

LEMMA NextNode == NodeInv /\ [Next]_vars => NodeInv'
<1> SUFFICES ASSUME NodeInv, [Next]_vars PROVE NodeInv'
  OBVIOUS
<1>1. ASSUME NEW c \in Cpus, Leave(c) PROVE NodeInv'
  BY <1>1 DEF Leave, NodeInv, CtSound, EntrySound
<1>2. CASE Agent
  BY <1>2 DEF Agent, NodeInv, CtSound, EntrySound
<1>3. CASE UNCHANGED vars
  BY <1>3 DEF vars, NodeInv, CtSound, EntrySound
<1> QED BY <1>1, <1>2, <1>3, StepNode, TickNode, CollectNode DEF Next

\* An entry of a connection that was never answered, or that both sides have
\* closed, is on its way out: it has no more than its short timeout left,
\* whatever packets refresh it (conntrack.h ct_update_timeout, ct_lookup_tuple),
\* for every set of CPUs, build, arrival, table and change of the tables,
\* however the programs interleave.
THEOREM NodeDyingEntriesDie == Spec => []DyingEntriesDie
<1>1. Init => NodeInv
  BY InitNode
<1>2. NodeInv /\ [Next]_vars => NodeInv'
  BY NextNode
<1>3. NodeInv => DyingEntriesDie
  BY DEF NodeInv, CtSound, EntrySound, DyingEntriesDie
<1> QED BY <1>1, <1>2, <1>3, PTL DEF Spec
================================================================================
