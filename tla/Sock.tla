-------------------------------- MODULE Sock --------------------------------
(***************************************************************************)
(* Load balancing at the socket (examples/cilium-lxc/bpf/bpf_sock.c): the  *)
(* programs that run on connect, bind, sendmsg, recvmsg and getpeername    *)
(* and rewrite the address an application gave to that of a backend, and   *)
(* back.  Fields of m used here, beside the service maps of LoadBalancer:  *)
(*   call    the system call: family, protocol, address (user_ip4 or       *)
(*           user_ip6, src_ip for post_bind), port, cookie of the socket,  *)
(*           network namespace, health (the socket has the mark of health  *)
(*           checks)                                                       *)
(*   revsk   LB4_REVERSE_NAT_SK_MAP and LB6_REVERSE_NAT_SK_MAP             *)
(*   health  LB4_HEALTH_MAP and LB6_HEALTH_MAP                             *)
(*   socks   the open sockets sk_lookup_tcp and sk_lookup_udp can find     *)
(*   res     the error of the translation, "" for none                     *)
(* The v4 address in a v6 one is V4InV6[a].                                *)
(***************************************************************************)
EXTENDS Policy

CONSTANTS
  V4InV6,            \* function from v4 addresses to the v6 ones they map to
  Loopbacks,         \* 127.0.0.0/8 and ::1
  Loopback(_),       \* 127.0.0.1 or ::1, by family
  Wildcard(_),       \* the zero address, by family
  HOST_NETNS_COOKIE, NODEPORT_PORT_MIN, NODEPORT_PORT_MAX,
  SockCalls, SockServices, SockBackends, SockIpcache, SockOpts,
  MaxSockSteps

VARIABLES
  sk,                \* the maps: [services, backends, aff, affmatch, revsk, health, socks, now]
  sent,              \* by socket and backend, where the application sent to last
  slast,             \* the call that returned last, and what it returned
  sleft              \* what is left of MaxSockSteps
svars == <<sk, sent, slast, sleft>>

-----------------------------------------------------------------------------
(* What kind of service it is (lib/lb.h).                                  *)

svc_is_external_ip(svc) == "EXTERNAL_IP" \in svc.flags
svc_is_hostport(svc) == "HOSTPORT" \in svc.flags
svc_is_loopback(svc) == "LOOPBACK" \in svc.flags
svc_is_loadbalancer(svc) == "LOADBALANCER" \in svc.flags
svc_is_localredirect(svc) == "LOCALREDIRECT" \in svc.flags
NoBackends(m, svc) == svc.count = 0 /\ ~svc_is_l7loadbalancer(m, svc)

lb4_affinity_backend_id_by_netns(m, svc) == lb4_affinity_backend_id(m, svc, TRUE, m.netns)
lb6_affinity_backend_id_by_netns(m, svc) == lb6_affinity_backend_id(m, svc, TRUE, m.netns)
lb4_update_affinity_by_netns(m, svc, id) == lb4_update_affinity(m, svc, TRUE, m.netns, id)
lb6_update_affinity_by_netns(m, svc, id) == lb6_update_affinity(m, svc, TRUE, m.netns, id)

is_v4_in_v6(addr) == \E a \in DOMAIN V4InV6 : V4InV6[a] = addr
build_v4_in_v6(addr) == V4InV6[addr]
V4Of(addr) == CHOOSE a \in DOMAIN V4InV6 : V4InV6[a] = addr

-----------------------------------------------------------------------------
(* Parts both families share.                                              *)

is_v4_loopback(addr) == addr \in Loopbacks
is_v6_loopback(addr) == addr \in Loopbacks

\* Without HAVE_NETNS_COOKIE every task counts as one of the host.
ctx_in_hostns(m) ==
  On(m, "HAVE_NETNS_COOKIE") => m.call.netns = HOST_NETNS_COOKIE \/ On(m, "ENABLE_MKE")
WithCookie(m) == [m EXCEPT !.netns = IF On(m, "HAVE_NETNS_COOKIE") THEN m.call.netns ELSE 0]

sock_is_health_check(m) == On(m, "ENABLE_HEALTH_CHECK") /\ m.call.health
sock_select_slot(m) == IF m.call.proto = "TCP" THEN m.rnd ELSE m.call.cookie
sock_proto_enabled(proto) == proto \in {"TCP", "UDP", "UDPLITE"}

SockErr(m, err) == [m EXCEPT !.res = err]
SockKey(addr, port) == [address |-> addr, dport |-> port, scope |-> "EXT"]
RevKey(m, addr, port) == [cookie |-> m.call.cookie, address |-> addr, port |-> port]

SkipXlate(m, svc, address, loopback) ==
  /\ svc_is_external_ip(svc) \/ (svc_is_hostport(svc) /\ ~loopback)
  /\ lookup_ip4_remote_endpoint(m, address) = None
     \/ lookup_ip4_remote_endpoint(m, address).sec_identity # "HOST"
sock4_skip_xlate(m, svc, address) ==
  lb4_to_lb6_service(m, svc) \/ SkipXlate(m, svc, address, is_v4_loopback(address))
sock6_skip_xlate(m, svc, address) ==
  lb6_to_lb4_service(m, svc) \/ SkipXlate(m, svc, address, is_v6_loopback(address))

\* A service on all addresses of the nodes.
WildcardLookup(m, key, include_remote_hosts, inv_match, hostns, loopback, zero, Lookup(_)) ==
  LET out  == key.dport < NODEPORT_PORT_MIN \/ key.dport > NODEPORT_PORT_MAX
      info == lookup_ip4_remote_endpoint(m, key.address)
      ours == /\ info # None
              /\ \/ info.sec_identity = "HOST"
                 \/ include_remote_hosts /\ identity_is_remote_node(info.sec_identity)
  IN  IF out # inv_match THEN None
      ELSE IF (hostns /\ loopback) \/ ours THEN Lookup([key EXCEPT !.address = zero])
      ELSE None
sock4_wildcard_lookup(m, key, include_remote_hosts, inv_match, hostns) ==
  LET Lookup(k) == lb4_lookup_service(m, k, TRUE, FALSE)
  IN  WildcardLookup(m, key, include_remote_hosts, inv_match, hostns,
                     is_v4_loopback(key.address), Wildcard(4), Lookup)
sock6_wildcard_lookup(m, key, include_remote_hosts, inv_match, hostns) ==
  LET Lookup(k) == lb6_lookup_service(m, k, TRUE, FALSE)
  IN  WildcardLookup(m, key, include_remote_hosts, inv_match, hostns,
                     is_v6_loopback(key.address), Wildcard(6), Lookup)

sock4_wildcard_lookup_full(m, key, hostns) ==
  LET np == sock4_wildcard_lookup(m, key, TRUE, FALSE, hostns)
      hp == sock4_wildcard_lookup(m, key, FALSE, TRUE, hostns)
  IN  IF ~On(m, "ENABLE_NODEPORT") THEN None
      ELSE IF np # None /\ svc_is_nodeport(m, np) THEN np
      ELSE IF hp # None /\ svc_is_hostport(hp) /\ (svc_is_loopback(hp) => is_v4_loopback(key.address))
      THEN hp ELSE None
sock6_wildcard_lookup_full(m, key, hostns) ==
  LET np == sock6_wildcard_lookup(m, key, TRUE, FALSE, hostns)
      hp == sock6_wildcard_lookup(m, key, FALSE, TRUE, hostns)
  IN  IF ~On(m, "ENABLE_NODEPORT") THEN None
      ELSE IF np # None /\ svc_is_nodeport(m, np) THEN np
      ELSE IF hp # None /\ svc_is_hostport(hp) /\ (svc_is_loopback(hp) => is_v6_loopback(key.address))
      THEN hp ELSE None

FindService4(m, key) ==
  IF lb4_lookup_service(m, key, TRUE, FALSE) # None THEN lb4_lookup_service(m, key, TRUE, FALSE)
  ELSE sock4_wildcard_lookup_full(m, key, ctx_in_hostns(m))
FindService6(m, key) ==
  IF lb6_lookup_service(m, key, TRUE, FALSE) # None THEN lb6_lookup_service(m, key, TRUE, FALSE)
  ELSE sock6_wildcard_lookup_full(m, key, ctx_in_hostns(m))

\* Mutant: an entry that exists is kept although it names another service.
sock4_update_revnat_once(m, be, addr, port, rev_nat_id) ==
  LET key == RevKey(m, be.address, be.port)
  IN  IF Has(m.revsk, key) THEN m
      ELSE [m EXCEPT !.revsk = MapUpdate(@, key, [address |-> addr, port |-> port,
                                                  rev_nat_index |-> rev_nat_id])]
sock4_update_revnat(m, be, addr, port, rev_nat_id) ==
  LET key == RevKey(m, be.address, be.port)
      val == [address |-> addr, port |-> port, rev_nat_index |-> rev_nat_id]
  IN  IF Has(m.revsk, key) /\ m.revsk[key] = val THEN m
      ELSE IF m.full THEN SockErr(m, "ENOMEM")
      ELSE [m EXCEPT !.revsk = MapUpdate(@, key, val)]
sock6_update_revnat(m, be, addr, port, rev_nat_id) ==
  LET key == RevKey(m, be.address, be.port)
      val == [address |-> addr, port |-> port, rev_nat_index |-> rev_nat_id]
  IN  IF Has(m.revsk, key) /\ m.revsk[key] = val THEN m
      ELSE IF m.full THEN SockErr(m, "ENOMEM")
      ELSE [m EXCEPT !.revsk = MapUpdate(@, key, val)]

\* A local redirect to a socket of the caller's own namespace would loop.
sock4_skip_xlate_if_same_netns(m, be) ==
  /\ On(m, "HAVE_SOCKET_LOOKUP")
  /\ m.call.proto \in {"TCP", "UDP"}
  /\ [netns |-> m.call.netns, proto |-> m.call.proto, address |-> be.address, port |-> be.port]
       \in m.socks

\* The backend the affinity of the namespace names while it exists, or the
\* one in the slot.
PickBackend(m, svc, Affine(_, _), Slot(_, _)) ==
  LET a == IF svc_is_affinity(m, svc) THEN Affine(m, svc) ELSE [m EXCEPT !.backend = 0]
      known == a.backend # 0 /\ Has(a.backends, a.backend)
      b == IF known THEN a
           ELSE [a EXCEPT !.backend = Slot(svc, (sock_select_slot(m) % svc.count) + 1)]
  IN  IF Has(b.backends, b.backend) THEN [b EXCEPT !.fresh = ~known]
      ELSE SockErr(b, "EHOSTUNREACH")

Rewrite(m, be) == IF m.res = "" THEN [m EXCEPT !.addr = be.address, !.port = be.port] ELSE m

sock4_fwd_to_backend(m, svc, addr, port) ==
  LET b  == PickBackend(m, svc, lb4_affinity_backend_id_by_netns, lb4_lookup_backend_slot)
      be == b.backends[b.backend]
      a  == IF svc_is_affinity(m, svc) /\ b.fresh
            THEN lb4_update_affinity_by_netns(b, svc, b.backend) ELSE b
  IN  IF b.res # "" THEN b
      ELSE IF svc_is_localredirect(svc) /\ sock4_skip_xlate_if_same_netns(m, be)
      THEN SockErr(b, "ENXIO")
      ELSE Rewrite(sock4_update_revnat(a, be, addr, port, svc.rev_nat_index), be)
sock6_fwd_to_backend(m, svc, addr, port) ==
  LET b  == PickBackend(m, svc, lb6_affinity_backend_id_by_netns, lb6_lookup_backend_slot)
      be == b.backends[b.backend]
      a  == IF svc_is_affinity(m, svc) /\ b.fresh
            THEN lb6_update_affinity_by_netns(b, svc, b.backend) ELSE b
  IN  IF b.res # "" THEN b
      ELSE Rewrite(sock6_update_revnat(a, be, addr, port, svc.rev_nat_index), be)

L7Backend(m, svc, family) == [address |-> Loopback(family), port |-> svc.l7_lb_proxy_port]
L7Here(m) == On(m, "HAVE_NETNS_COOKIE") /\ ctx_in_hostns(m)

sock4_xlate_service(m, svc) ==
  LET l7  == L7Backend(m, svc, 4)
  IN  IF svc = None THEN SockErr(m, "ENXIO")
      ELSE IF NoBackends(m, svc) THEN SockErr(m, "EHOSTUNREACH")
      ELSE IF sock4_skip_xlate(m, svc, m.addr) THEN SockErr(m, "EPERM")
      ELSE IF svc_is_l7loadbalancer(m, svc)
      THEN IF L7Here(m) THEN Rewrite(sock4_update_revnat(m, l7, m.addr, m.port, svc.rev_nat_index), l7)
           ELSE m
      ELSE sock4_fwd_to_backend(m, svc, m.addr, m.port)
sock4_xlate_fwd(m0, udp_only) ==
  LET m == WithCookie(m0)
  IN  IF On(m, "ENABLE_SOCKET_LB_HOST_ONLY") /\ ~ctx_in_hostns(m) THEN SockErr(m, "ENXIO")
      ELSE IF ~udp_only /\ ~sock_proto_enabled(m.call.proto) THEN SockErr(m, "ENOTSUP")
      ELSE sock4_xlate_service(m, FindService4(m, SockKey(m.addr, m.port)))

\* A v6 socket with a v4 address: translated as v4, then wrapped again.
WrapV4(m, addr) == [m EXCEPT !.addr = IF m.res # "" THEN addr ELSE build_v4_in_v6(@)]
sock6_xlate_v4_in_v6(m, udp_only) ==
  IF ~On(m, "ENABLE_IPV4") \/ ~is_v4_in_v6(m.addr) THEN SockErr(m, "ENXIO")
  ELSE WrapV4(sock4_xlate_fwd([m EXCEPT !.addr = V4Of(m.addr)], udp_only), m.addr)

sock6_xlate_fwd(m0, udp_only) ==
  LET m   == WithCookie(m0)
      svc == FindService6(m, SockKey(m.addr, m.port))
      l7  == L7Backend(m, svc, 6)
  IN  IF ~On(m, "ENABLE_IPV6") THEN sock6_xlate_v4_in_v6(m, udp_only)
      ELSE IF On(m, "ENABLE_SOCKET_LB_HOST_ONLY") /\ ~ctx_in_hostns(m) THEN SockErr(m, "ENXIO")
      ELSE IF ~udp_only /\ ~sock_proto_enabled(m.call.proto) THEN SockErr(m, "ENOTSUP")
      ELSE IF svc = None THEN sock6_xlate_v4_in_v6(m, udp_only)
      ELSE IF NoBackends(m, svc) THEN SockErr(m, "EHOSTUNREACH")
      ELSE IF sock6_skip_xlate(m, svc, m.addr) THEN SockErr(m, "EPERM")
      ELSE IF svc_is_l7loadbalancer(m, svc)
      THEN IF L7Here(m) THEN Rewrite(sock6_update_revnat(m, l7, m.addr, m.port, svc.rev_nat_index), l7)
           ELSE m
      ELSE sock6_fwd_to_backend(m, svc, m.addr, m.port)

-----------------------------------------------------------------------------
(* The way back.                                                           *)

\* An entry of a service that is gone, or is another one by now, is deleted.
XlateRev(m, Find(_, _)) ==
  LET key == RevKey(m, m.addr, m.port)
      val == m.revsk[key]
      svc == Find(m, SockKey(val.address, val.port))
  IN  IF ~Has(m.revsk, key) THEN SockErr(m, "ENXIO")
      ELSE IF svc = None THEN SockErr([m EXCEPT !.revsk = MapDelete(@, key)], "ENOENT")
      ELSE IF svc.rev_nat_index # val.rev_nat_index \/ NoBackends(m, svc)
      THEN SockErr([m EXCEPT !.revsk = MapDelete(@, key)], "ENOENT")
      ELSE [m EXCEPT !.addr = val.address, !.port = val.port]
sock4_xlate_rev(m) == XlateRev(m, FindService4)
sock6_xlate_rev_v4_in_v6(m) ==
  IF ~On(m, "ENABLE_IPV4") \/ ~is_v4_in_v6(m.addr) THEN SockErr(m, "ENXIO")
  ELSE WrapV4(sock4_xlate_rev([m EXCEPT !.addr = V4Of(m.addr)]), m.addr)
sock6_xlate_rev(m) ==
  IF On(m, "ENABLE_IPV6") /\ Has(m.revsk, RevKey(m, m.addr, m.port)) THEN XlateRev(m, FindService6)
  ELSE sock6_xlate_rev_v4_in_v6(m)

-----------------------------------------------------------------------------
(* Health checks: the address a checker binds to says what it checks.      *)

HealthFwd(m) ==
  IF lb_skip_l4_dnat(m) THEN m
  ELSE IF Has(m.health, m.call.cookie) THEN [m EXCEPT !.port = m.health[m.call.cookie].port]
  ELSE SockErr(m, "ECONNREFUSED")
sock4_health_fwd(m) == HealthFwd(m)
sock6_health_fwd(m) ==
  IF is_v4_in_v6(m.addr) THEN sock4_health_fwd(m)
  ELSE IF On(m, "ENABLE_IPV6") \/ lb_skip_l4_dnat(m) THEN HealthFwd(m)
  ELSE SockErr(m, "ECONNREFUSED")

AutoBind(m, zero) == [m EXCEPT !.addr = zero, !.port = 0]
PreBind(m, zero) ==
  IF m.full THEN SockErr(m, "ENOBUFS")
  ELSE AutoBind([m EXCEPT !.health = MapUpdate(@, m.call.cookie,
                   [address |-> m.addr, port |-> m.port, proto |-> m.call.proto])], zero)
sock4_pre_bind(m) == PreBind(m, Wildcard(4))
sock6_pre_bind_v4_in_v6(m) ==
  LET r == sock4_pre_bind([m EXCEPT !.addr = V4Of(m.addr)])
  IN  IF ~On(m, "ENABLE_IPV4") THEN m
      ELSE IF r.res # "" THEN [r EXCEPT !.addr = m.addr]
      ELSE [r EXCEPT !.addr = build_v4_in_v6(r.addr)]
sock6_pre_bind(m) ==
  IF is_v4_in_v6(m.addr) THEN sock6_pre_bind_v4_in_v6(m)
  ELSE IF On(m, "ENABLE_IPV6") THEN PreBind(m, Wildcard(6)) ELSE m

-----------------------------------------------------------------------------
(* A service's address cannot be bound to in the host's namespace.         *)

Reserved(m, svc) == svc_is_nodeport(m, svc) \/ svc_is_external_ip(svc) \/ svc_is_loadbalancer(svc)
PostBind(m, svc) == IF svc # None /\ Reserved(m, svc) THEN SockErr(m, "EADDRINUSE") ELSE m
BindChecked(m) == sock_proto_enabled(m.call.proto) /\ ctx_in_hostns(m)
sock4_post_bind(m) ==
  LET key == SockKey(m.addr, m.port)
      svc == lb4_lookup_service(m, key, TRUE, FALSE)
  IN  IF ~BindChecked(m) THEN m
      ELSE PostBind(m, IF svc # None THEN svc ELSE sock4_wildcard_lookup(m, key, FALSE, FALSE, TRUE))
sock6_post_bind_v4_in_v6(m) ==
  IF ~On(m, "ENABLE_IPV4") \/ ~is_v4_in_v6(m.addr) THEN m
  ELSE [sock4_post_bind([m EXCEPT !.addr = V4Of(m.addr)]) EXCEPT !.addr = m.addr]
sock6_post_bind(m) ==
  LET key == SockKey(m.addr, m.port)
      svc == lb6_lookup_service(m, key, TRUE, FALSE)
      any == sock6_wildcard_lookup(m, key, FALSE, FALSE, TRUE)
  IN  IF ~BindChecked(m) THEN m
      ELSE IF svc = None /\ any = None THEN sock6_post_bind_v4_in_v6(m)
      ELSE PostBind(m, IF svc # None THEN svc ELSE any)

-----------------------------------------------------------------------------
(* The programs.  Only some errors reach the application.                  *)

Refuse(m, errs) == [m EXCEPT !.verdict = IF m.res \in errs THEN "REJECT" ELSE "PROCEED"]
FwdErrors == {"EHOSTUNREACH", "ENOMEM"}
cil_sock4_connect(m) ==
  IF sock_is_health_check(m) THEN Refuse(sock4_health_fwd(m), {"ECONNREFUSED"})
  ELSE Refuse(sock4_xlate_fwd(m, FALSE), FwdErrors)
cil_sock6_connect(m) ==
  IF sock_is_health_check(m) THEN Refuse(sock6_health_fwd(m), {"ECONNREFUSED"})
  ELSE Refuse(sock6_xlate_fwd(m, FALSE), FwdErrors)
cil_sock4_sendmsg(m) == Refuse(sock4_xlate_fwd(m, TRUE), FwdErrors)
cil_sock6_sendmsg(m) == Refuse(sock6_xlate_fwd(m, TRUE), FwdErrors)
cil_sock4_recvmsg(m) == Refuse(sock4_xlate_rev(m), {})
cil_sock6_recvmsg(m) == Refuse(sock6_xlate_rev(m), {})
cil_sock4_getpeername(m) == Refuse(sock4_xlate_rev(m), {})
cil_sock6_getpeername(m) == Refuse(sock6_xlate_rev(m), {})
cil_sock4_post_bind(m) == Refuse(sock4_post_bind(m), {"EADDRINUSE"})
cil_sock6_post_bind(m) == Refuse(sock6_post_bind(m), {"EADDRINUSE"})
cil_sock4_pre_bind(m) ==
  IF BindChecked(m) /\ sock_is_health_check(m) THEN Refuse(sock4_pre_bind(m), {"ENOBUFS"})
  ELSE Refuse(m, {})
cil_sock6_pre_bind(m) ==
  IF BindChecked(m) /\ sock_is_health_check(m) THEN Refuse(sock6_pre_bind(m), {"ENOBUFS"})
  ELSE Refuse(m, {})

-----------------------------------------------------------------------------
(* The steps.  A call is a record [op, v6, proto, addr, port, cookie,      *)
(* netns, health]; the maps are those of one node.                         *)

SockRun(c, rnd, full) ==
  [opts |-> SockOpts, call |-> c, addr |-> c.addr, port |-> c.port, netns |-> 0, rnd |-> rnd,
   full |-> full, res |-> "", verdict |-> "", backend |-> 0, fresh |-> FALSE,
   backends |-> SockBackends, ipcache |-> SockIpcache,
   services |-> sk.services, aff |-> sk.aff, affmatch |-> sk.affmatch, revsk |-> sk.revsk,
   health |-> sk.health, socks |-> sk.socks, now |-> sk.now]

Program(m) ==
  CASE m.call.op = "connect" -> IF m.call.v6 THEN cil_sock6_connect(m) ELSE cil_sock4_connect(m)
    [] m.call.op = "sendmsg" -> IF m.call.v6 THEN cil_sock6_sendmsg(m) ELSE cil_sock4_sendmsg(m)
    [] m.call.op = "recvmsg" -> IF m.call.v6 THEN cil_sock6_recvmsg(m) ELSE cil_sock4_recvmsg(m)
    [] m.call.op = "getpeername" ->
         IF m.call.v6 THEN cil_sock6_getpeername(m) ELSE cil_sock4_getpeername(m)
    [] m.call.op = "post_bind" -> IF m.call.v6 THEN cil_sock6_post_bind(m) ELSE cil_sock4_post_bind(m)
    [] OTHER -> IF m.call.v6 THEN cil_sock6_pre_bind(m) ELSE cil_sock4_pre_bind(m)

SockStep == sleft > 0 /\ sleft' = sleft - 1

\* A bind that is accepted makes the socket one that can be found.
SockReturns(c, r) ==
  LET bound == [netns |-> c.netns, proto |-> c.proto, address |-> r.addr, port |-> r.port]
      moved == r.res = "" /\ <<r.addr, r.port>> # <<c.addr, c.port>>
      key == [cookie |-> c.cookie, address |-> r.addr, port |-> r.port]
  IN  /\ SockStep
      /\ sk' = [sk EXCEPT !.aff = r.aff, !.revsk = r.revsk, !.health = r.health,
                          !.socks = IF c.op = "post_bind" /\ r.verdict = "PROCEED"
                                    THEN @ \cup {bound} ELSE @]
      /\ sent' = IF c.op \in {"connect", "sendmsg"} /\ moved /\ ~sock_is_health_check(r)
                 THEN MapUpdate(sent, key, [to |-> <<c.addr, c.port>>, live |-> TRUE]) ELSE sent
      /\ slast' = [op |-> c.op, cookie |-> c.cookie, from |-> <<c.addr, c.port>>,
                   to |-> <<r.addr, r.port>>, verdict |-> r.verdict]
SockCall(c, rnd, full) == SockReturns(c, Program(SockRun(c, rnd, full)))

\* The agent changes the services.
SockAgent(services) ==
  /\ SockStep
  /\ services # sk.services
  /\ sk' = [sk EXCEPT !.services = services]
  /\ sent' = [k \in DOMAIN sent |-> [sent[k] EXCEPT !.live = FALSE]]
  /\ UNCHANGED slast

\* The kernel makes room in the reverse NAT map, which is an LRU map.
SockEvict(k) ==
  /\ SockStep
  /\ sk' = [sk EXCEPT !.revsk = MapDelete(@, k)]
  /\ sent' = [x \in DOMAIN sent |-> [sent[x] EXCEPT !.live = @ /\ x.cookie # k.cookie]]
  /\ UNCHANGED slast

SockTick ==
  /\ SockStep
  /\ sk' = [sk EXCEPT !.now = @ + 1]
  /\ UNCHANGED <<sent, slast>>

SockNext ==
  \/ \E c \in SockCalls :
       \E rnd \in (IF c.proto = "TCP" THEN 0..1 ELSE {0}),
          full \in (IF c.op \in {"sendmsg", "pre_bind"} THEN BOOLEAN ELSE {FALSE}) :
         SockCall(c, rnd, full)
  \/ \E s \in SockServices : SockAgent(s)
  \/ \E k \in DOMAIN sk.revsk : SockEvict(k)
  \/ SockTick

-----------------------------------------------------------------------------
(* The application sees the address it used: the source of a datagram, or  *)
(* the peer of a connection, is changed only to the service address by     *)
(* which this socket last reached that backend, and is changed to it as    *)
(* long as the services stay as they were and the entry is not evicted     *)
(* (__sock4_xlate_rev, __sock6_xlate_rev and the v4-in-v6 paths).          *)
PeerIsService ==
  [][LET key == [cookie |-> slast'.cookie, address |-> slast'.from[1], port |-> slast'.from[2]]
     IN  slast' # slast /\ slast'.op \in {"recvmsg", "getpeername"} =>
           /\ slast'.to # slast'.from => Has(sent, key) /\ slast'.to = sent[key].to
           /\ Has(sent, key) /\ sent[key].live => slast'.to = sent[key].to]_svars
=============================================================================
