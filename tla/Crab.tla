------------------------------- MODULE Crab -------------------------------
(***************************************************************************)
(* The Crab load balancer (examples/crab/lb_kern.c) with the assertions    *)
(* its verified copy carries (examples/crab_assert/lb_kern.c).  Only the   *)
(* SYN of a connection meets the balancer: it picks a server in turn, with *)
(* a counter of 32 bits that every CPU keeps for itself, rewrites the      *)
(* destination and leaves the address the client asked for in a TCP        *)
(* option, so that the server can answer by itself.                        *)
(*                                                                         *)
(* The fields of the packet that the program touches are the cells of mem, *)
(* at the place they have once the headers have been moved to make room    *)
(* for the option; a packet may arrive where there is no room in front of  *)
(* it.  Its IP header has no options, as in the driver (ihl 5): with some, *)
(* the TCP header would not be where handle_syn puts it.  Checksums are    *)
(* left out.                                                               *)
(***************************************************************************)
EXTENDS AssertSpec

CONSTANTS
  CrabCpus,         \* the CPUs that run the program
  num_targets,      \* servers the driver registers
  MAX_TARGET_COUNT, \* entries of targets_map (64)
  RR_LIMIT,         \* values of the counter in cpu_rr_idx (2^32)
  Vips,             \* addresses clients ask for
  ipaddrs           \* the address of each server

ASSUME CrabCpusNotEmpty == CrabCpus # {}
ASSUME TargetCount ==
  /\ num_targets \in Nat \ {0} /\ MAX_TARGET_COUNT \in Nat /\ num_targets <= MAX_TARGET_COUNT
ASSUME CounterRange == RR_LIMIT \in Nat \ {0}
ASSUME TargetAddresses ==
  /\ ipaddrs \in [0..num_targets - 1 -> Nat \ {0}]
  /\ \A i, j \in 0..num_targets - 1 : ipaddrs[i] = ipaddrs[j] => i = j

VARIABLES
  targets_count,    \* map targets_count, one entry
  targets_map,      \* array of addresses, 0 until one is written
  macs_map,         \* hash map from address to MAC
  cpu_rr_idx,       \* the counter of each CPU
  crabRun,          \* the run that ended last: CPU, packet, memory, verdict, failed asserts
  crabLoad          \* SYNs each CPU gave to each server since its counter was last 0

crabVars == <<targets_count, targets_map, macs_map, cpu_rr_idx, crabRun, crabLoad>>
-----------------------------------------------------------------------------
Targets == 0..num_targets - 1
REDIR_OPT_SIZE == 8
TotalLen == 40
ClientMac == -1
BalancerMac == -2
\* The MAC the driver gives to server i.
dst_mac(i) == i

\* Frames by how far they parse, the flags of the ones that are TCP, and
\* whether their head can be moved.
CrabPackets ==
  [l2 : {"short", "other"}, l4 : {""}, ack : {FALSE}, syn : {FALSE}, daddr : Vips, room : {TRUE}]
  \cup [l2 : {"ip"}, l4 : {"short", "udp", "broken"}, ack : {FALSE}, syn : {FALSE}, daddr : Vips, room : {TRUE}]
  \cup [l2 : {"ip"}, l4 : {"tcp"}, ack : BOOLEAN, syn : BOOLEAN, daddr : Vips, room : BOOLEAN]

\* The cells as the packet arrives: the source MAC is the client's.
Arrives(p) ==
  [data |-> 0, data_end |-> TotalLen, h_source |-> ClientMac, h_dest |-> BalancerMac,
   tot_len |-> TotalLen, daddr |-> p.daddr, doff |-> 5, ropt |-> 0]

\* Mutant: a counter past the last server is clamped, not reduced.
get_target_idx_clamped(c) == IF cpu_rr_idx[c] < targets_count THEN cpu_rr_idx[c] ELSE 0
\* The counter is incremented after it is read, and wraps.
get_target_idx_rr(c) == cpu_rr_idx[c] % targets_count
NextIdx(c) == (cpu_rr_idx[c] + 1) % RR_LIMIT

\* An index past the array has no entry.
get_target(c) ==
  LET key == get_target_idx_rr(c) IN
  IF key < MAX_TARGET_COUNT THEN [found |-> TRUE, daddr |-> targets_map[key]]
  ELSE [found |-> FALSE, daddr |-> 0]

\* Registers what the assertions of the run say, and the run's memory.
Const(x, range) == [x EXCEPT !.asserts = _add_constant(@, x.mem, range)]
EndEq(x, cell, value) == [x EXCEPT !.asserts = BPF_ASSERT_END_EQ(@, cell, value)]
Aborted(x) == [x EXCEPT !.action = "XDP_ABORTED"]

\* Mutant: the MAC of some server, not of the one the packet is sent to.
update_macs_first(x) ==
  LET b == [x EXCEPT !.mem.h_source = x.mem.h_dest, !.mem.h_dest = dst_mac(0)] IN
  Const(EndEq(b, "h_source", x.mem.h_dest), {"h_source", "h_dest"})

update_macs(x) ==
  LET a == EndEq(x, "h_source", x.mem.h_dest)
      b == Const([a EXCEPT !.mem.h_source = a.mem.h_dest], {"h_source"})
  IN IF b.mem.daddr \notin DOMAIN macs_map THEN Aborted(b)
     ELSE Const([b EXCEPT !.mem.h_dest = macs_map[b.mem.daddr]], {"h_dest"})

\* The assertions at the head of handle_syn.
SynAsserts(x) ==
  LET r == [x EXCEPT !.asserts = _set_expected_return(@, "XDP_TX")]
      d == EndEq(r, "data", x.mem.data - REDIR_OPT_SIZE)
      e == Const(d, {"data_end"})
      s == EndEq(e, "h_source", x.mem.h_dest)
      l == EndEq(s, "tot_len", x.mem.tot_len + REDIR_OPT_SIZE)
  IN EndEq(l, "ropt", x.mem.daddr)

\* A SYN: room for the option, the new destination, then the option itself.
\* Without room the run ends before a server is chosen.
handle_syn(c, x, room) ==
  LET entry == SynAsserts(x)
      old_daddr == x.mem.daddr
      moved == [entry EXCEPT !.mem.data = @ - REDIR_OPT_SIZE, !.mem.tot_len = @ + REDIR_OPT_SIZE]
      t == get_target(c)
      aimed == Const([Const(moved, {"tot_len"}) EXCEPT !.mem.daddr = t.daddr], {"daddr"})
      macs == update_macs(aimed)
      ip == Const(Const(macs, {"h_source", "h_dest"}), {"tot_len", "daddr"})
      opt == Const([ip EXCEPT !.mem.doff = @ + REDIR_OPT_SIZE \div 4, !.mem.ropt = old_daddr],
                   {"ropt"})
  IN IF ~room THEN Aborted(entry)
     ELSE IF ~t.found THEN Aborted(Const(moved, {"tot_len"}))
     ELSE IF macs.action = "XDP_ABORTED" THEN macs
     ELSE [Const(opt, {"doff"}) EXCEPT !.action = "XDP_TX"]

\* The run before handle_syn: what the frame is decides.
Parsed(p) ==
  LET a == _add_leads_to(NoAsserts, p.l2 # "ip", "XDP_PASS")
      b == _add_leads_to(a, p.l2 = "ip" /\ p.l4 \notin {"tcp", "broken"}, "XDP_PASS")
  IN [mem |-> Arrives(p), asserts |-> b,
      action |-> IF p.l2 = "ip" /\ p.l4 = "broken" THEN "XDP_ABORTED" ELSE "XDP_PASS"]

IsSyn(p) == p.l2 = "ip" /\ p.l4 = "tcp" /\ ~p.ack /\ p.syn

\* xdp_prog_simple, to its BPF_RETURN.
xdp_prog_simple(c, p) ==
  LET x == IF IsSyn(p) THEN handle_syn(c, Parsed(p), p.room) ELSE Parsed(p) IN
  [cpu |-> c, pkt |-> p, mem |-> x.mem, action |-> x.action,
   failed |-> _run_unrestricted_asserts(x.asserts, x.mem, x.action)]
-----------------------------------------------------------------------------
NoCrabRun == [cpu |-> CHOOSE c \in CrabCpus : TRUE, pkt |-> [l2 |-> "none"], mem |-> [data |-> 0],
              action |-> "", failed |-> {}]

CrabInit ==
  /\ targets_count = 0
  /\ targets_map = [i \in 0..MAX_TARGET_COUNT - 1 |-> 0]
  /\ macs_map = [a \in {} |-> 0]
  /\ cpu_rr_idx = [c \in CrabCpus |-> 0]
  /\ crabRun = NoCrabRun
  /\ crabLoad = [c \in CrabCpus |-> [i \in Targets |-> 0]]

\* The driver registers the servers before the program runs.
set_up_maps ==
  /\ targets_count = 0
  /\ targets_count' = num_targets
  /\ targets_map' = [i \in 0..MAX_TARGET_COUNT - 1 |->
                       IF i \in Targets THEN ipaddrs[i] ELSE targets_map[i]]
  /\ macs_map' = [a \in {ipaddrs[i] : i \in Targets} |-> dst_mac(CHOOSE i \in Targets : ipaddrs[i] = a)]
  /\ UNCHANGED <<cpu_rr_idx, crabRun, crabLoad>>

\* A SYN that a server is chosen for.
IsPlaced(p) == IsSyn(p) /\ p.room

\* Any other packet leaves the maps alone.
CrabOther(c, p) ==
  /\ targets_count # 0
  /\ ~IsPlaced(p)
  /\ crabRun' = xdp_prog_simple(c, p)
  /\ UNCHANGED <<targets_count, targets_map, macs_map, cpu_rr_idx, crabLoad>>

CrabSyn(c, p) ==
  /\ targets_count # 0
  /\ IsPlaced(p)
  /\ crabRun' = xdp_prog_simple(c, p)
  /\ cpu_rr_idx' = [cpu_rr_idx EXCEPT ![c] = NextIdx(c)]
  /\ crabLoad' = [crabLoad EXCEPT ![c] =
       LET i == get_target_idx_rr(c) IN
       IF NextIdx(c) = 0 THEN [j \in Targets |-> 0]
       ELSE [crabLoad[c] EXCEPT ![i] = crabLoad[c][i] + 1]]
  /\ UNCHANGED <<targets_count, targets_map, macs_map>>

CrabNext ==
  \/ set_up_maps
  \/ \E c \in CrabCpus, p \in CrabPackets : CrabOther(c, p) \/ CrabSyn(c, p)

CrabSpec == CrabInit /\ [][CrabNext]_crabVars
-----------------------------------------------------------------------------
\* Every assertion that crab_assert registers holds when the program returns,
\* and its tables are large enough for them: a SYN is sent on, with the
\* rewritten headers, and nothing that a step established is changed later in
\* the run.  The one run that fails is that of a SYN whose head cannot be
\* moved: it is aborted, against BPF_ASSERT_RETURN(XDP_TX).
AssertionsHold ==
  crabRun.failed # {} =>
    IsSyn(crabRun.pkt) /\ ~crabRun.pkt.room /\ crabRun.action = "XDP_ABORTED"

\* A SYN that is sent on carries the address the client asked for in its
\* option, and goes to a registered server under the MAC of that very server.
SynReachesTarget ==
  crabRun.action = "XDP_TX" =>
    /\ crabRun.mem.ropt = crabRun.pkt.daddr
    /\ \E i \in Targets : crabRun.mem.daddr = ipaddrs[i] /\ crabRun.mem.h_dest = dst_mac(i)

\* Until the counter of a CPU wraps, no server is given two SYNs more than
\* another one by that CPU.
RoundRobinIsFair ==
  \A c \in CrabCpus : \A i, j \in Targets : crabLoad[c][i] <= crabLoad[c][j] + 1

\* Both: the SYNs go to the servers they are meant for, and to each in turn.
SynsReachServersInTurn == SynReachesTarget /\ RoundRobinIsFair
=============================================================================
