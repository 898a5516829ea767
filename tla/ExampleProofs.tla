--------------------------- MODULE ExampleProofs ---------------------------
(***************************************************************************)
(* Proofs about the example programs that keep state, for any number of    *)
(* CPUs, packets, servers and map entries.                                 *)
(***************************************************************************)
EXTENDS AssertExample, Firewall, FwNat, Bmc, FiniteSetTheorems, TLAPS

-----------------------------------------------------------------------------
(* The firewall chained with a NAT.  The inductive invariant adds to the   *)
(* two properties that a run between the two updates has its forward       *)
(* entry, and that there is one inner address only.                        *)
NatInv ==
  /\ natRun \in [NatCpus -> NatRuns \cup {NatIdle}]
  /\ \A o \in DOMAIN outer2inner : outer2inner[o] = getNextAvailableIPAddress
  /\ \A c \in NatCpus : natRun[c].pc = "reverse" => natRun[c].saddr \in DOMAIN outer2inner
  /\ ReverseLeadsBack
  /\ MappingIsKept

\* Every step keeps it, whatever the other CPUs and the operator do.
LEMMA NatStep == ASSUME NatInv, [FwNatNext]_natVars PROVE NatInv'
<1> USE DEF NatInv, NatRuns, NatIdle, ReverseLeadsBack, MappingIsKept
<1>1. ASSUME NEW o \in Outer, ChangeWhitelist(o) PROVE NatInv'
  BY <1>1 DEF ChangeWhitelist
<1>2. ASSUME NEW c \in NatCpus, NEW o \in Outer, xdp_fw(c, o) PROVE NatInv'
  BY <1>2 DEF xdp_fw
<1>3. ASSUME NEW c \in NatCpus, NatLookup(c) PROVE NatInv'
  BY <1>3 DEF NatLookup
<1>4. ASSUME NEW c \in NatCpus, NatUpdate(c) PROVE NatInv'
  BY <1>4 DEF NatUpdate, Put, getNextAvailableIPAddress
<1>5. ASSUME NEW c \in NatCpus, NatReverse(c) PROVE NatInv'
  BY <1>5 DEF NatReverse, Put, getNextAvailableIPAddress
<1>6. CASE UNCHANGED natVars
  BY <1>6 DEF natVars
<1> QED BY <1>1, <1>2, <1>3, <1>4, <1>5, <1>6 DEF FwNatNext

\* xdp_nat writes the forward entry before the reverse one and never takes
\* one back: the way back leads to an address that has the mapping, and a
\* source that left under an inner address has that mapping for good.
THEOREM NatMappingsAgree == FwNatSpec => []MappingsAgree
<1>1. FwNatInit => NatInv
  BY DEF FwNatInit, NatInv, NatIdle, NatRuns, ReverseLeadsBack, MappingIsKept
<1>2. NatInv /\ [FwNatNext]_natVars => NatInv'
  BY NatStep
<1>3. NatInv => MappingsAgree
  BY DEF NatInv, MappingsAgree
<1> QED BY <1>1, <1>2, <1>3, PTL DEF FwNatSpec
-----------------------------------------------------------------------------
(* The stateful firewall.  The table holds the keys of opened flows only,  *)
(* and a run that found its flow still has it: nobody takes one away.      *)
FwInv ==
  /\ fwRun \in [FwCpus -> FwRuns \cup {FwIdle}]
  /\ opened \subseteq FwPackets /\ admitted \subseteq FwPackets
  /\ IsFiniteSet(flow_ctx_table)
  /\ \A k \in flow_ctx_table : \E o \in opened : k = biflow(o)
  /\ \A c \in FwCpus : fwRun[c].pc = "found" => biflow(fwRun[c].key) \in flow_ctx_table
  /\ \A k \in admitted : biflow(k) \in flow_ctx_table
  /\ \A o \in opened : biflow(o) \in flow_ctx_table \/ Cardinality(flow_ctx_table) >= FwMaxFlows

\* The key of a packet, field by field.
LEMMA BiflowFields ==
  ASSUME NEW k \in FwKeys
  PROVE  LET b == biflow(k) IN
         /\ b \in [ip_proto : Protos, ip_src : FwAddrs, ip_dst : FwAddrs, l4_src : FwPorts, l4_dst : FwPorts]
         /\ b.ip_proto = k.ip_proto
         /\ k.ip_src > k.ip_dst => b.ip_src = k.ip_dst /\ b.ip_dst = k.ip_src
         /\ ~(k.ip_src > k.ip_dst) => b.ip_src = k.ip_src /\ b.ip_dst = k.ip_dst
         /\ k.l4_src > k.l4_dst => b.l4_src = k.l4_dst /\ b.l4_dst = k.l4_src
         /\ ~(k.l4_src > k.l4_dst) => b.l4_src = k.l4_src /\ b.l4_dst = k.l4_dst
BY DEF FwKeys, biflow

\* Two packets with one key are of one protocol, between the same addresses
\* and over the same ports.
LEMMA BiflowPairs ==
  ASSUME NEW a \in FwKeys, NEW b \in FwKeys, biflow(a) = biflow(b)
  PROVE  /\ a.ip_proto = b.ip_proto
         /\ {a.ip_src, a.ip_dst} = {b.ip_src, b.ip_dst}
         /\ {a.l4_src, a.l4_dst} = {b.l4_src, b.l4_dst}
<1>1. /\ a.ip_src \in Nat /\ a.ip_dst \in Nat /\ a.l4_src \in Nat /\ a.l4_dst \in Nat
      /\ b.ip_src \in Nat /\ b.ip_dst \in Nat /\ b.l4_src \in Nat /\ b.l4_dst \in Nat
  BY FwNumbers DEF FwKeys
<1>2. a.ip_proto = b.ip_proto
  BY BiflowFields
<1>3. {a.ip_src, a.ip_dst} = {b.ip_src, b.ip_dst}
  BY BiflowFields, <1>1
<1>4. {a.l4_src, a.l4_dst} = {b.l4_src, b.l4_dst}
  BY BiflowFields, <1>1
<1> QED BY <1>2, <1>3, <1>4

\* A packet and its answer have one key.
LEMMA BiflowReply == ASSUME NEW k \in FwKeys PROVE biflow(Reply(k)) = biflow(k)
<1> DEFINE r == Reply(k)
<1>1. /\ r \in FwKeys /\ r.ip_proto = k.ip_proto /\ r.ip_src = k.ip_dst /\ r.ip_dst = k.ip_src
      /\ r.l4_src = k.l4_dst /\ r.l4_dst = k.l4_src
  BY DEF Reply, FwKeys
<1>2. k.ip_src \in Nat /\ k.ip_dst \in Nat /\ k.l4_src \in Nat /\ k.l4_dst \in Nat
  BY FwNumbers DEF FwKeys
<1> HIDE DEF r
<1>3. /\ biflow(r).ip_proto = biflow(k).ip_proto
      /\ biflow(r).ip_src = biflow(k).ip_src /\ biflow(r).ip_dst = biflow(k).ip_dst
      /\ biflow(r).l4_src = biflow(k).l4_src /\ biflow(r).l4_dst = biflow(k).l4_dst
  BY <1>1, <1>2, BiflowFields
<1> QED BY <1>1, <1>3, BiflowFields DEF r

\* Every step keeps it.
LEMMA FwStep == ASSUME FwInv, [FwNext]_fwVars PROVE FwInv'
<1>1. ASSUME NEW c \in FwCpus, NEW port \in FwIfaces, NEW k \in FwPackets, FwLookup(c, port, k)
      PROVE  FwInv'
  BY <1>1 DEF FwInv, FwLookup, FwRuns, FwIdle
<1>2. ASSUME NEW c \in FwCpus, FwInbound(c) PROVE FwInv'
  BY <1>2 DEF FwInv, FwInbound, FwRuns, FwIdle
<1>3. ASSUME NEW c \in FwCpus, FwOutbound(c) PROVE FwInv'
  <2>1. fwRun[c] \in FwRuns /\ fwRun[c].key \in FwPackets
    BY <1>3 DEF FwInv, FwOutbound, FwRuns, FwIdle
  <2> DEFINE key == fwRun[c].key
  <2>2. opened' = opened \cup {key} /\ UNCHANGED admitted /\ fwRun' = [fwRun EXCEPT ![c] = FwIdle]
    BY <1>3 DEF FwOutbound
  <2>3. CASE flow_ctx_table' = flow_ctx_table
             /\ (biflow(key) \in flow_ctx_table \/ Cardinality(flow_ctx_table) >= FwMaxFlows)
    BY <2>1, <2>2, <2>3 DEF FwInv, FwRuns, FwIdle
  <2>4. CASE flow_ctx_table' = flow_ctx_table \cup {biflow(key)}
    <3> DEFINE b == biflow(key)
    <3>1. /\ IsFiniteSet(flow_ctx_table')
          /\ Cardinality(flow_ctx_table') >= Cardinality(flow_ctx_table)
      <4>1. IsFiniteSet(flow_ctx_table) /\ Cardinality(flow_ctx_table) \in Nat
        BY FS_CardinalityType DEF FwInv
      <4>2. flow_ctx_table' = flow_ctx_table \cup {b}
        BY <2>4
      <4> HIDE DEF b
      <4>3. /\ IsFiniteSet(flow_ctx_table \cup {b})
            /\ Cardinality(flow_ctx_table \cup {b}) =
                 IF b \in flow_ctx_table THEN Cardinality(flow_ctx_table) ELSE Cardinality(flow_ctx_table) + 1
        BY <4>1, FS_AddElement
      <4>4. Cardinality(flow_ctx_table \cup {b}) >= Cardinality(flow_ctx_table)
        BY <4>1, <4>3
      <4> QED BY ONLY <4>2, <4>3, <4>4, Zenon
    <3>2. Cardinality(flow_ctx_table') \in Nat /\ Cardinality(flow_ctx_table) \in Nat
      BY <3>1, FS_CardinalityType DEF FwInv
    <3>3. \A o \in opened' : biflow(o) \in flow_ctx_table' \/ Cardinality(flow_ctx_table') >= FwMaxFlows
      BY <2>2, <2>4, <3>1, <3>2, FwCapacity DEF FwInv
    <3>4. \A k \in flow_ctx_table' : \E o \in opened' : k = biflow(o)
      BY <2>2, <2>4 DEF FwInv
    <3>5. /\ \A d \in FwCpus : fwRun'[d].pc = "found" => biflow(fwRun'[d].key) \in flow_ctx_table'
          /\ \A k \in admitted' : biflow(k) \in flow_ctx_table'
          /\ fwRun' \in [FwCpus -> FwRuns \cup {FwIdle}]
          /\ opened' \subseteq FwPackets /\ admitted' \subseteq FwPackets
      BY <2>1, <2>2, <2>4 DEF FwInv, FwIdle
    <3> QED BY <3>1, <3>3, <3>4, <3>5 DEF FwInv
  <2>5. Cardinality(flow_ctx_table) \in Nat
    BY FS_CardinalityType DEF FwInv
  <2> QED BY <1>3, <2>1, <2>3, <2>4, <2>5, FwCapacity DEF FwOutbound, FwInv, FwRuns
<1>4. CASE UNCHANGED fwVars
  BY <1>4 DEF FwInv, fwVars
<1> QED BY <1>1, <1>2, <1>3, <1>4 DEF FwNext

\* It holds before the first packet.
LEMMA FwInvInit == FwInit => FwInv
BY FS_EmptySet DEF FwInit, FwInv, FwIdle, FwRuns

\* What a packet from outside finds was put there for a packet from inside.
LEMMA FwInvAdmitted == FwInv => AdmittedWasOpened
<1> SUFFICES ASSUME FwInv, NEW k \in admitted
             PROVE  \E o \in opened :
                      /\ o.ip_proto = k.ip_proto
                      /\ {o.ip_src, o.ip_dst} = {k.ip_src, k.ip_dst}
                      /\ {o.l4_src, o.l4_dst} = {k.l4_src, k.l4_dst}
  BY DEF AdmittedWasOpened
<1>1. PICK o \in opened : biflow(k) = biflow(o)
  BY DEF FwInv
<1>2. k \in FwKeys /\ o \in FwKeys
  BY FwPacketKeys DEF FwInv
<1> QED BY <1>1, <1>2, BiflowPairs

\* The answer to a packet that went out has the key its flow was opened under.
LEMMA FwInvReply == FwInv => ReplyIsAdmitted
BY BiflowReply, FwPacketKeys DEF FwInv, ReplyIsAdmitted

\* However the lookups and updates of several CPUs interleave, and whenever
\* the table fills up, a flow lets in the answers to what opened it, and
\* nothing else.
THEOREM FwFlowsStayOpen == FwSpec => []FlowsStayOpen
<1>1. FwInv => FlowsStayOpen
  BY FwInvAdmitted, FwInvReply DEF FlowsStayOpen
<1>2. FwInv /\ [FwNext]_fwVars => FwInv'
  BY FwStep
<1> QED BY <1>1, <1>2, FwInvInit, PTL DEF FwSpec
-----------------------------------------------------------------------------
(* The memcached cache.  A slot is made valid by a CPU that has copied a   *)
(* reply to it, and the CPUs in between leave it another one or the same;  *)
(* none empties it.                                                        *)
Table == 0..BMC_CACHE_ENTRY_COUNT - 1
Entries == [valid : BOOLEAN, hash : Nat, data : Replies \cup {NoReply}]
\* What is known of an entry of slot i.
Fits(e, i) ==
  /\ e \in Entries
  /\ e.data # NoReply => Slot(HashOf[e.data.key]) = i
  /\ e.valid => e.data # NoReply /\ Slot(e.hash) = i
\* What is known of a run: the slot it is about to mark has been filled.
Copied(run) ==
  /\ run \in [pc : {"copy", "publish"}, reply : Replies] \cup {BmcIdle}
  /\ run.pc = "publish" => map_kcache[Slot(HashOf[run.reply.key])].data # NoReply
BmcInv ==
  /\ DOMAIN map_kcache = Table /\ map_kcache = [i \in Table |-> map_kcache[i]]
  /\ \A i \in Table : Fits(map_kcache[i], i)
  /\ DOMAIN bmcRun = BmcCpus /\ bmcRun = [c \in BmcCpus |-> bmcRun[c]]
  /\ \A c \in BmcCpus : Copied(bmcRun[c])

\* The slot of a hash is one of the table.
LEMMA SlotInTable == ASSUME NEW h \in Nat PROVE Slot(h) \in Table
BY BmcSlots DEF Slot, Table

\* A step that writes one slot, does not empty it, and ends or moves on one
\* run keeps the invariant.
LEMMA SlotWritten ==
  ASSUME BmcInv, NEW i \in Table, NEW e, Fits(e, i), map_kcache[i].data # NoReply => e.data # NoReply,
         map_kcache' = [map_kcache EXCEPT ![i] = e],
         NEW c \in BmcCpus, NEW u, bmcRun' = [bmcRun EXCEPT ![c] = u], Copied(u)'
  PROVE  BmcInv'
<1>1. /\ DOMAIN map_kcache' = Table /\ map_kcache' = [j \in Table |-> map_kcache'[j]]
      /\ DOMAIN bmcRun' = BmcCpus /\ bmcRun' = [d \in BmcCpus |-> bmcRun'[d]]
  BY DEF BmcInv
<1>2. \A j \in Table : Fits(map_kcache'[j], j) BY DEF BmcInv
<1>3. ASSUME NEW d \in BmcCpus PROVE Copied(bmcRun[d])'
  <2>1. CASE d = c
    <3>1. bmcRun'[d] = u BY <2>1 DEF BmcInv
    <3> QED BY <3>1 DEF Copied
  <2>2. CASE d # c
    <3>1. bmcRun'[d] = bmcRun[d] /\ Copied(bmcRun[d]) BY <2>2 DEF BmcInv
    <3>2. \A j \in Table : map_kcache[j].data # NoReply => map_kcache'[j].data # NoReply BY DEF BmcInv
    <3>3. CASE bmcRun[d].pc = "publish"
      <4>1. HashOf[bmcRun[d].reply.key] \in Nat BY <3>1, <3>3, BmcKeys DEF Copied, BmcIdle, Replies
      <4> QED BY <3>1, <3>2, <4>1, SlotInTable DEF Copied
    <3>4. CASE bmcRun[d].pc # "publish" BY <3>1, <3>4 DEF Copied
    <3> QED BY <3>3, <3>4
  <2> QED BY <2>1, <2>2
<1> QED BY <1>1, <1>2, <1>3 DEF BmcInv

\* Every step keeps it.
LEMMA BmcStep == ASSUME BmcInv, [BmcNext]_bmcVars PROVE BmcInv'
<1>0. ASSUME UNCHANGED <<map_kcache, bmcRun>> PROVE BmcInv'
  BY <1>0 DEF BmcInv, Copied
<1>1. ASSUME NEW c \in BmcCpus, bmc_rx_filter_main(c) PROVE BmcInv'
  BY <1>0, <1>1 DEF bmc_rx_filter_main
<1>2. ASSUME NEW c \in BmcCpus, NEW k \in BKeys, bmc_hash_keys_main(c, k) PROVE BmcInv'
  BY <1>0, <1>2 DEF bmc_hash_keys_main
<1>3. ASSUME NEW c \in BmcCpus, NEW room \in BOOLEAN, bmc_write_reply_main(c, room) PROVE BmcInv'
  BY <1>0, <1>3 DEF bmc_write_reply_main
<1>4. ASSUME NEW c \in BmcCpus, NEW k \in BKeys, bmc_invalidate_cache_main(c, k) PROVE BmcInv'
  <2> DEFINE i == Slot(HashOf[k])
             e == [map_kcache[i] EXCEPT !.valid = FALSE]
  <2>1. map_kcache' = [map_kcache EXCEPT ![i] = e] /\ bmcRun' = bmcRun
    BY <1>4 DEF bmc_invalidate_cache_main
  <2>2. i \in Table BY SlotInTable, BmcKeys
  <2> HIDE DEF i
  <2>3. Fits(map_kcache[i], i) BY <2>2 DEF BmcInv
  <2>4. Fits(e, i) /\ e.data = map_kcache[i].data BY <2>3 DEF Fits, Entries
  <2> HIDE DEF e
  <2>5. bmcRun' = [bmcRun EXCEPT ![c] = bmcRun[c]] BY <2>1 DEF BmcInv
  <2>6. \A j \in Table : map_kcache'[j].data = map_kcache[j].data BY <2>1, <2>4 DEF BmcInv
  <2>7. Copied(bmcRun[c]) BY DEF BmcInv
  <2>8. Copied(bmcRun[c])'
    <3>1. CASE bmcRun[c].pc = "publish"
      <4>1. HashOf[bmcRun[c].reply.key] \in Nat BY <2>7, <3>1, BmcKeys DEF Copied, BmcIdle, Replies
      <4> QED BY <2>1, <2>6, <2>7, <4>1, SlotInTable DEF Copied
    <3>2. CASE bmcRun[c].pc # "publish" BY <2>1, <2>7, <3>2 DEF Copied
    <3> QED BY <3>1, <3>2
  <2> DEFINE u == bmcRun[c]
  <2>9. Copied(u)' /\ u' = u BY <2>1, <2>8
  <2>10. bmcRun' = [bmcRun EXCEPT ![c] = u] BY <2>5
  <2>11. \A v : v = u => Copied(v)' BY <2>9 DEF Copied
  <2> HIDE DEF u
  <2> QED BY <2>1, <2>2, <2>4, <2>10, <2>11, SlotWritten
<1>5. ASSUME NEW c \in BmcCpus, NEW r \in Replies, bmc_tx_filter_main(c, r) PROVE BmcInv'
  BY <1>5 DEF bmc_tx_filter_main, BmcInv, Copied
<1>6. ASSUME NEW c \in BmcCpus, CopyReply(c) PROVE BmcInv'
  <2>0. bmcRun[c] \in [pc : {"copy", "publish"}, reply : Replies]
    BY <1>6 DEF BmcInv, Copied, CopyReply, BmcIdle
  <2> DEFINE r == bmcRun[c].reply
             i == Slot(HashOf[r.key])
             e == [map_kcache[i] EXCEPT !.data = r]
  <2>10. PICK u : u = [bmcRun[c] EXCEPT !.pc = "publish"] OBVIOUS
  <2>1. r \in Replies /\ HashOf[r.key] \in Nat BY <2>0, BmcKeys DEF Replies
  <2>2. i \in Table /\ r # NoReply BY <2>1, SlotInTable, BmcNoReply DEF Replies
  <2>3. map_kcache' = [map_kcache EXCEPT ![i] = e] /\ bmcRun' = [bmcRun EXCEPT ![c] = u]
    BY <1>6, <2>10 DEF CopyReply
  <2>4. u \in [pc : {"copy", "publish"}, reply : Replies] /\ u.reply = r BY <2>0, <2>10
  <2>5. i = Slot(HashOf[r.key]) OBVIOUS
  <2> HIDE DEF i, r
  <2>6. Fits(map_kcache[i], i) BY <2>2 DEF BmcInv
  <2>7. Fits(e, i) /\ e.data = r BY <2>1, <2>2, <2>5, <2>6 DEF Fits, Entries
  <2> HIDE DEF e
  <2>8. map_kcache'[i].data # NoReply BY <2>2, <2>3, <2>7 DEF BmcInv
  <2>9. Copied(u)' BY <2>4, <2>5, <2>8 DEF Copied
  <2> QED BY <2>2, <2>3, <2>7, <2>9, SlotWritten
<1>7. ASSUME NEW c \in BmcCpus, PublishEntry(c) PROVE BmcInv'
  <2>0. bmcRun[c] \in [pc : {"copy", "publish"}, reply : Replies] /\ Copied(bmcRun[c])
    BY <1>7 DEF BmcInv, Copied, PublishEntry, BmcIdle
  <2> DEFINE r == bmcRun[c].reply
             h == HashOf[r.key]
             i == Slot(h)
             e == IF r.whole THEN [map_kcache[i] EXCEPT !.valid = TRUE, !.hash = h] ELSE map_kcache[i]
  <2>1. r \in Replies /\ h \in Nat BY <2>0, BmcKeys DEF Replies
  <2>2. i \in Table BY <2>1, SlotInTable
  <2>3. map_kcache' = [map_kcache EXCEPT ![i] = e] /\ bmcRun' = [bmcRun EXCEPT ![c] = BmcIdle]
    BY <1>7, <2>2 DEF PublishEntry, BmcInv
  <2>4. map_kcache[i].data # NoReply BY <1>7, <2>0 DEF PublishEntry, Copied
  <2>5. i = Slot(h) OBVIOUS
  <2> HIDE DEF i, h
  <2>6. Fits(map_kcache[i], i) BY <2>2 DEF BmcInv
  <2>7. Fits(e, i) /\ e.data # NoReply
    <3>1. CASE r.whole BY <2>1, <2>4, <2>5, <2>6, <3>1 DEF Fits, Entries
    <3>2. CASE ~r.whole BY <2>4, <2>6, <3>2
    <3> QED BY <3>1, <3>2
  <2> HIDE DEF e
  <2>8. Copied(BmcIdle)' BY DEF Copied, BmcIdle
  <2> QED BY <2>2, <2>3, <2>7, <2>8, SlotWritten
<1>8. CASE UNCHANGED bmcVars
  BY <1>0, <1>8 DEF bmcVars
<1> QED BY <1>1, <1>2, <1>3, <1>4, <1>5, <1>6, <1>7, <1>8 DEF BmcNext

\* A CPU that marks a slot as valid has copied a reply to it, and whatever
\* the others do in between leaves a reply of that slot there.
THEOREM BmcValidEntriesAreFilled == BmcSpec => []ValidEntriesAreFilled
<1>1. BmcInit => BmcInv
  BY DEF BmcInit, BmcInv, Table, Entries, Fits, Copied, BmcIdle
<1>2. BmcInv /\ [BmcNext]_bmcVars => BmcInv'
  BY BmcStep
<1>3. BmcInv => ValidEntriesAreFilled
  BY DEF BmcInv, Fits, ValidEntriesAreFilled
<1> QED BY <1>1, <1>2, <1>3, PTL DEF BmcSpec
-----------------------------------------------------------------------------
(* Crab.  The counter of a CPU is so many whole rounds over the servers    *)
(* and so many servers of the next: that says what each server was given,  *)
(* and which one is next.                                                  *)
Cells == {"data", "data_end", "h_source", "h_dest", "tot_len", "daddr", "doff", "ropt"}
\* A run in progress: its memory, its assertions and its verdict.
IsRun(x) ==
  /\ x = [f \in {"mem", "asserts", "action"} |-> x[f]]
  /\ x.mem = [f \in Cells |-> x.mem[f]]

\* q whole rounds and r servers of the next.
CrabShare(c, q, r) ==
  /\ cpu_rr_idx[c] = num_targets * q + r
  /\ \A i \in Targets : crabLoad[c][i] = q + (IF i < r THEN 1 ELSE 0)

CrabInv ==
  /\ targets_count \in {0, num_targets}
  /\ targets_map \in [0..MAX_TARGET_COUNT - 1 -> Nat]
  /\ targets_count # 0 =>
       /\ \A i \in Targets : targets_map[i] = ipaddrs[i]
       /\ DOMAIN macs_map = {ipaddrs[i] : i \in Targets}
       /\ \A i \in Targets : macs_map[ipaddrs[i]] = dst_mac(i)
  /\ cpu_rr_idx \in [CrabCpus -> 0..RR_LIMIT - 1]
  /\ crabLoad \in [CrabCpus -> [Targets -> Nat]]
  /\ \A c \in CrabCpus : \E q \in Nat, r \in Targets : CrabShare(c, q, r)
  /\ SynReachesTarget

\* Registering an assertion changes neither memory nor verdict.
LEMMA ConstKeeps ==
  ASSUME NEW x, IsRun(x), NEW range
  PROVE  IsRun(Const(x, range)) /\ Const(x, range).mem = x.mem /\ Const(x, range).action = x.action
<1> DEFINE v == _add_constant(x.asserts, x.mem, range)
<1>1. Const(x, range) = [x EXCEPT !.asserts = v] BY DEF Const
<1> HIDE DEF v
<1> QED BY <1>1 DEF IsRun, Cells

\* The same for an assertion on a cell at the end.
LEMMA EndEqKeeps ==
  ASSUME NEW x, IsRun(x), NEW cell, NEW value
  PROVE  /\ IsRun(EndEq(x, cell, value)) /\ EndEq(x, cell, value).mem = x.mem
         /\ EndEq(x, cell, value).action = x.action
<1> DEFINE v == BPF_ASSERT_END_EQ(x.asserts, cell, value)
<1>1. EndEq(x, cell, value) = [x EXCEPT !.asserts = v] BY DEF EndEq
<1> HIDE DEF v
<1> QED BY <1>1 DEF IsRun, Cells

\* The assertions at the head of handle_syn.
LEMMA SynAssertsKeep ==
  ASSUME NEW x, IsRun(x)
  PROVE  IsRun(SynAsserts(x)) /\ SynAsserts(x).mem = x.mem /\ SynAsserts(x).action = x.action
<1> DEFINE v == _set_expected_return(x.asserts, "XDP_TX")
           r == [x EXCEPT !.asserts = v]
           d == EndEq(r, "data", x.mem.data - REDIR_OPT_SIZE)
           e == Const(d, {"data_end"})
           s == EndEq(e, "h_source", x.mem.h_dest)
           l == EndEq(s, "tot_len", x.mem.tot_len + REDIR_OPT_SIZE)
<1>1. SynAsserts(x) = EndEq(l, "ropt", x.mem.daddr) BY DEF SynAsserts
<1> HIDE DEF v
<1>2. IsRun(r) /\ r.mem = x.mem /\ r.action = x.action BY DEF IsRun, Cells
<1> HIDE DEF r
<1>3. IsRun(d) /\ d.mem = x.mem /\ d.action = x.action BY <1>2, EndEqKeeps
<1> HIDE DEF d
<1>4. IsRun(e) /\ e.mem = x.mem /\ e.action = x.action BY <1>3, ConstKeeps
<1> HIDE DEF e
<1>5. IsRun(s) /\ s.mem = x.mem /\ s.action = x.action BY <1>4, EndEqKeeps
<1> HIDE DEF s
<1>6. IsRun(l) /\ l.mem = x.mem /\ l.action = x.action BY <1>5, EndEqKeeps
<1> HIDE DEF l
<1> QED BY <1>1, <1>6, EndEqKeeps

\* The frame goes to the MAC of the address it is sent to.
LEMMA MacsFollowAddress ==
  ASSUME NEW x, IsRun(x), x.action # "XDP_ABORTED", update_macs(x).action # "XDP_ABORTED"
  PROVE  /\ IsRun(update_macs(x)) /\ update_macs(x).mem.daddr = x.mem.daddr
         /\ x.mem.daddr \in DOMAIN macs_map /\ update_macs(x).mem.h_dest = macs_map[x.mem.daddr]
<1> DEFINE a == EndEq(x, "h_source", x.mem.h_dest)
           m == [a EXCEPT !.mem.h_source = a.mem.h_dest]
           b == Const(m, {"h_source"})
           n == [b EXCEPT !.mem.h_dest = macs_map[b.mem.daddr]]
<1>1. update_macs(x) = IF b.mem.daddr \notin DOMAIN macs_map THEN Aborted(b) ELSE Const(n, {"h_dest"})
  BY DEF update_macs
<1>2. IsRun(a) /\ a.mem = x.mem BY EndEqKeeps
<1> HIDE DEF a
<1>3. IsRun(m) /\ m.mem.daddr = x.mem.daddr BY <1>2 DEF IsRun, Cells
<1> HIDE DEF m
<1>4. IsRun(b) /\ b.mem.daddr = x.mem.daddr BY <1>3, ConstKeeps
<1> HIDE DEF b
<1>5. IsRun(n) /\ n.mem.daddr = x.mem.daddr /\ n.mem.h_dest = macs_map[x.mem.daddr]
  BY <1>4 DEF IsRun, Cells
<1> HIDE DEF n
<1>6. Aborted(b).action = "XDP_ABORTED" BY <1>4 DEF IsRun, Aborted
<1>7. b.mem.daddr \in DOMAIN macs_map /\ update_macs(x) = Const(n, {"h_dest"}) BY <1>1, <1>6
<1> QED BY <1>4, <1>5, <1>7, ConstKeeps

\* What handle_syn leaves in the packet it sends.
LEMMA SynSent ==
  ASSUME NEW c, NEW x, IsRun(x), x.action # "XDP_TX", x.action # "XDP_ABORTED",
         handle_syn(c, x, TRUE).action = "XDP_TX"
  PROVE  /\ handle_syn(c, x, TRUE).mem.ropt = x.mem.daddr
         /\ get_target(c).found
         /\ handle_syn(c, x, TRUE).mem.daddr = get_target(c).daddr
         /\ get_target(c).daddr \in DOMAIN macs_map
         /\ handle_syn(c, x, TRUE).mem.h_dest = macs_map[get_target(c).daddr]
<1> DEFINE entry == SynAsserts(x)
           moved == [entry EXCEPT !.mem.data = @ - REDIR_OPT_SIZE, !.mem.tot_len = @ + REDIR_OPT_SIZE]
           t == get_target(c)
           cm == Const(moved, {"tot_len"})
           am == [cm EXCEPT !.mem.daddr = t.daddr]
           aimed == Const(am, {"daddr"})
           macs == update_macs(aimed)
           ip0 == Const(macs, {"h_source", "h_dest"})
           ip == Const(ip0, {"tot_len", "daddr"})
           om == [ip EXCEPT !.mem.doff = @ + REDIR_OPT_SIZE \div 4, !.mem.ropt = x.mem.daddr]
           opt == Const(om, {"ropt"})
           od == Const(opt, {"doff"})
           sent == [od EXCEPT !.action = "XDP_TX"]
<1>1. handle_syn(c, x, TRUE) = IF ~t.found THEN Aborted(cm)
                         ELSE IF macs.action = "XDP_ABORTED" THEN macs ELSE sent
  BY DEF handle_syn
<1> HIDE DEF t
<1>2. IsRun(entry) /\ entry.action = x.action BY SynAssertsKeep
<1> HIDE DEF entry
<1>3. IsRun(moved) /\ moved.action = x.action BY <1>2 DEF IsRun, Cells
<1> HIDE DEF moved
<1>4. IsRun(cm) /\ cm.action = x.action BY <1>3, ConstKeeps
<1> HIDE DEF cm
<1>5. IsRun(am) /\ am.action = x.action /\ am.mem.daddr = t.daddr BY <1>4 DEF IsRun, Cells
<1> HIDE DEF am
<1>6. IsRun(aimed) /\ aimed.action = x.action /\ aimed.mem.daddr = t.daddr BY <1>5, ConstKeeps
<1> HIDE DEF aimed
<1>7. Aborted(cm).action = "XDP_ABORTED" BY <1>4 DEF IsRun, Aborted
<1>8. t.found /\ macs.action # "XDP_ABORTED" /\ handle_syn(c, x, TRUE) = sent BY <1>1, <1>7
<1>9. /\ IsRun(macs) /\ macs.mem.daddr = t.daddr /\ t.daddr \in DOMAIN macs_map
      /\ macs.mem.h_dest = macs_map[t.daddr]
  BY <1>6, <1>8, MacsFollowAddress
<1> HIDE DEF macs
<1>10. IsRun(ip0) /\ ip0.mem = macs.mem BY <1>9, ConstKeeps
<1> HIDE DEF ip0
<1>11. IsRun(ip) /\ ip.mem = macs.mem BY <1>10, ConstKeeps
<1> HIDE DEF ip
<1>12. /\ IsRun(om) /\ om.mem.daddr = macs.mem.daddr /\ om.mem.h_dest = macs.mem.h_dest
       /\ om.mem.ropt = x.mem.daddr
  BY <1>11 DEF IsRun, Cells
<1> HIDE DEF om
<1>13. IsRun(opt) /\ opt.mem = om.mem BY <1>12, ConstKeeps
<1> HIDE DEF opt
<1>14. IsRun(od) /\ od.mem = om.mem BY <1>13, ConstKeeps
<1> HIDE DEF od
<1>15. sent.mem = om.mem BY <1>14 DEF IsRun
<1> HIDE DEF sent
<1> QED BY <1>8, <1>9, <1>12, <1>15 DEF t

\* The remainder of a number from its quotient.
LEMMA Remainder ==
  ASSUME NEW n \in Nat \ {0}, NEW q \in Nat, NEW r \in 0..n - 1
  PROVE  (n * q + r) % n = r
OBVIOUS

\* Every server has an entry of targets_map.
LEMMA CrabTypes == targets_count # 0 /\ CrabInv => Targets \subseteq 0..MAX_TARGET_COUNT - 1
BY TargetCount DEF CrabInv, Targets

\* The run before handle_syn has the cells of the packet as it arrived.
LEMMA ParsedIsRun ==
  ASSUME NEW p \in CrabPackets
  PROVE  /\ IsRun(Parsed(p)) /\ Parsed(p).mem.daddr = p.daddr
         /\ Parsed(p).action \in {"XDP_PASS", "XDP_ABORTED"}
         /\ IsSyn(p) => Parsed(p).action = "XDP_PASS"
<1> DEFINE v == _add_leads_to(_add_leads_to(NoAsserts, p.l2 # "ip", "XDP_PASS"),
                              p.l2 = "ip" /\ p.l4 \notin {"tcp", "broken"}, "XDP_PASS")
           act == IF p.l2 = "ip" /\ p.l4 = "broken" THEN "XDP_ABORTED" ELSE "XDP_PASS"
<1>1. Parsed(p) = [mem |-> Arrives(p), asserts |-> v, action |-> act]
  BY DEF Parsed
<1> HIDE DEF v
<1>2. act \in {"XDP_PASS", "XDP_ABORTED"} /\ (IsSyn(p) => act = "XDP_PASS") BY DEF IsSyn
<1> HIDE DEF act
<1> QED BY <1>1, <1>2 DEF IsRun, Cells, Arrives

\* The index that is next has an entry, a registered server.
LEMMA TargetKnown ==
  ASSUME CrabInv, targets_count # 0, NEW c \in CrabCpus
  PROVE  \E r \in Targets : get_target(c).found /\ get_target(c).daddr = ipaddrs[r]
<1>1. PICK q \in Nat, r \in Targets : CrabShare(c, q, r) BY DEF CrabInv
<1>2. get_target_idx_rr(c) = r
  <2>1. targets_count = num_targets /\ num_targets \in Nat \ {0} BY TargetCount DEF CrabInv
  <2>2. cpu_rr_idx[c] = num_targets * q + r BY <1>1 DEF CrabShare
  <2> QED BY <2>1, <2>2, Remainder DEF get_target_idx_rr, Targets
<1>3. targets_map[r] = ipaddrs[r] /\ r \in 0..MAX_TARGET_COUNT - 1 BY CrabTypes DEF CrabInv
<1>4. get_target(c).found /\ get_target(c).daddr = ipaddrs[r] BY <1>2, <1>3, TargetCount DEF get_target
<1> QED BY <1>4

\* The run of a packet.
LEMMA RunReaches ==
  ASSUME CrabInv, targets_count # 0, NEW c \in CrabCpus, NEW p \in CrabPackets,
         crabRun' = xdp_prog_simple(c, p)
  PROVE  SynReachesTarget'
<1> DEFINE x == IF IsSyn(p) THEN handle_syn(c, Parsed(p), p.room) ELSE Parsed(p)
           f == _run_unrestricted_asserts(x.asserts, x.mem, x.action)
<1>1. crabRun' = [cpu |-> c, pkt |-> p, mem |-> x.mem, action |-> x.action, failed |-> f]
  BY DEF xdp_prog_simple
<1> HIDE DEF f, x
<1>2. crabRun'.action = x.action /\ crabRun'.mem = x.mem /\ crabRun'.pkt = p BY <1>1
<1> SUFFICES ASSUME x.action = "XDP_TX"
             PROVE  /\ x.mem.ropt = p.daddr
                    /\ \E i \in Targets : x.mem.daddr = ipaddrs[i] /\ x.mem.h_dest = dst_mac(i)
  BY <1>2 DEF SynReachesTarget, Targets, dst_mac
<1>6. IsSyn(p) /\ p.room
  <2>1. IsSyn(p) BY ParsedIsRun DEF x
  <2>2. CASE ~p.room
    <3>1. x = Aborted(SynAsserts(Parsed(p))) BY <2>1, <2>2 DEF x, handle_syn
    <3>2. x.action = "XDP_ABORTED" BY <3>1, ParsedIsRun, SynAssertsKeep DEF IsRun, Aborted
    <3> QED BY <3>2
  <2> QED BY <2>1, <2>2
<1>3. x = handle_syn(c, Parsed(p), TRUE)
  <2>1. p.room = TRUE BY <1>6 DEF CrabPackets
  <2> QED BY <1>6, <2>1 DEF x
<1>4. /\ x.mem.ropt = p.daddr /\ get_target(c).found
      /\ x.mem.daddr = get_target(c).daddr
      /\ x.mem.h_dest = macs_map[get_target(c).daddr]
  BY <1>3, <1>6, ParsedIsRun, SynSent
<1>5. PICK r \in Targets : get_target(c).found /\ get_target(c).daddr = ipaddrs[r] BY TargetKnown
<1>8. macs_map[ipaddrs[r]] = dst_mac(r) BY DEF CrabInv
<1> QED BY <1>4, <1>5, <1>8

\* Every step keeps the invariant.
LEMMA CrabStep == ASSUME CrabInv, [CrabNext]_crabVars PROVE CrabInv'
<1>1. CASE set_up_maps
  <2> USE <1>1 DEF set_up_maps
  <2>1. targets_count' = num_targets OBVIOUS
  <2>2. /\ targets_map' \in [0..MAX_TARGET_COUNT - 1 -> Nat]
        /\ \A i \in Targets : targets_map'[i] = ipaddrs[i]
    <3>1. \A i \in Targets : i \in 0..MAX_TARGET_COUNT - 1 /\ ipaddrs[i] \in Nat
      BY TargetCount, TargetAddresses DEF Targets
    <3>2. targets_map \in [0..MAX_TARGET_COUNT - 1 -> Nat]
      BY DEF CrabInv
    <3> QED BY <3>1, <3>2
  <2>3. DOMAIN macs_map' = {ipaddrs[i] : i \in Targets} OBVIOUS
  <2>4. \A i \in Targets : macs_map'[ipaddrs[i]] = dst_mac(i)
    BY TargetAddresses DEF Targets, dst_mac
  <2>5. \A c \in CrabCpus : \E q \in Nat, r \in Targets : CrabShare(c, q, r)'
    BY DEF CrabInv, CrabShare, Targets
  <2>6. SynReachesTarget' BY DEF CrabInv, SynReachesTarget, Targets, dst_mac
  <2> QED BY <2>1, <2>2, <2>3, <2>4, <2>5, <2>6 DEF CrabInv, Targets, dst_mac
<1>2. ASSUME NEW c \in CrabCpus, NEW p \in CrabPackets, CrabOther(c, p) PROVE CrabInv'
  <2>1. SynReachesTarget' BY <1>2, RunReaches DEF CrabOther
  <2> QED BY <1>2, <2>1 DEF CrabOther, CrabInv, CrabShare, Targets, dst_mac
<1>3. ASSUME NEW c \in CrabCpus, NEW p \in CrabPackets, CrabSyn(c, p) PROVE CrabInv'
  <2>1. SynReachesTarget' BY <1>3, RunReaches DEF CrabSyn
  <2>2. PICK q \in Nat, r \in Targets : CrabShare(c, q, r) BY DEF CrabInv
  <2>3. targets_count = num_targets /\ num_targets \in Nat \ {0}
    BY <1>3, TargetCount DEF CrabInv, CrabSyn
  <2>4. cpu_rr_idx[c] = num_targets * q + r /\ cpu_rr_idx[c] \in 0..RR_LIMIT - 1
    BY <2>2 DEF CrabShare, CrabInv
  <2>5. get_target_idx_rr(c) = r
    BY <2>3, <2>4, Remainder DEF get_target_idx_rr, Targets
  <2>6. NextIdx(c) \in 0..RR_LIMIT - 1 BY <2>4, CounterRange DEF NextIdx
  <2>7. NextIdx(c) = cpu_rr_idx[c] + 1 \/ NextIdx(c) = 0 BY <2>4, CounterRange DEF NextIdx
  <2> DEFINE load == IF NextIdx(c) = 0 THEN [j \in Targets |-> 0]
                     ELSE [crabLoad[c] EXCEPT ![r] = crabLoad[c][r] + 1]
  <2>8. crabLoad' = [crabLoad EXCEPT ![c] = load] /\ cpu_rr_idx' = [cpu_rr_idx EXCEPT ![c] = NextIdx(c)]
    BY <1>3, <2>5 DEF CrabSyn
  <2>9. load \in [Targets -> Nat] BY DEF CrabInv
  <2>10. \E q2 \in Nat, r2 \in Targets :
           /\ NextIdx(c) = num_targets * q2 + r2
           /\ \A i \in Targets : load[i] = q2 + (IF i < r2 THEN 1 ELSE 0)
    <3>1. CASE NextIdx(c) = 0
      <4>1. 0 \in Targets /\ NextIdx(c) = num_targets * 0 + 0 BY <3>1, <2>3 DEF Targets
      <4>2. \A i \in Targets : load[i] = 0 + (IF i < 0 THEN 1 ELSE 0) BY <3>1 DEF Targets
      <4> QED BY <4>1, <4>2
    <3>2. CASE NextIdx(c) # 0 /\ r + 1 < num_targets
      <4>1. r + 1 \in Targets /\ NextIdx(c) = num_targets * q + (r + 1)
        BY <3>2, <2>3, <2>4, <2>7 DEF Targets
      <4>2. \A i \in Targets : load[i] = q + (IF i < r + 1 THEN 1 ELSE 0)
        BY <3>2, <2>2, <2>3 DEF Targets, CrabShare, CrabInv
      <4> QED BY <4>1, <4>2
    <3>3. CASE NextIdx(c) # 0 /\ r + 1 = num_targets
      <4>1. 0 \in Targets /\ NextIdx(c) = num_targets * (q + 1) + 0
        BY <3>3, <2>3, <2>4, <2>7 DEF Targets
      <4>2. \A i \in Targets : load[i] = (q + 1) + (IF i < 0 THEN 1 ELSE 0)
        BY <3>3, <2>2, <2>3 DEF Targets, CrabShare, CrabInv
      <4> QED BY <4>1, <4>2
    <3> QED BY <3>1, <3>2, <3>3, <2>3 DEF Targets
  <2> HIDE DEF load
  <2>11. cpu_rr_idx' \in [CrabCpus -> 0..RR_LIMIT - 1] /\ crabLoad' \in [CrabCpus -> [Targets -> Nat]]
    BY <2>6, <2>8, <2>9 DEF CrabInv
  <2>12. \A d \in CrabCpus : \E q2 \in Nat, r2 \in Targets : CrabShare(d, q2, r2)'
    <3> SUFFICES ASSUME NEW d \in CrabCpus PROVE \E q2 \in Nat, r2 \in Targets : CrabShare(d, q2, r2)'
      OBVIOUS
    <3>1. CASE d = c
      <4>1. cpu_rr_idx'[d] = NextIdx(c) /\ crabLoad'[d] = load BY <3>1, <2>8 DEF CrabInv
      <4> QED BY <4>1, <2>10 DEF CrabShare, Targets
    <3>2. CASE d # c
      <4>1. cpu_rr_idx'[d] = cpu_rr_idx[d] /\ crabLoad'[d] = crabLoad[d] BY <3>2, <2>8 DEF CrabInv
      <4> QED BY <4>1 DEF CrabShare, CrabInv, Targets
    <3> QED BY <3>1, <3>2
  <2> QED BY <1>3, <2>1, <2>11, <2>12 DEF CrabSyn, CrabInv, Targets, dst_mac
<1>4. CASE UNCHANGED crabVars
  BY <1>4 DEF crabVars, CrabInv, CrabShare, SynReachesTarget, Targets, dst_mac
<1> QED BY <1>1, <1>2, <1>3, <1>4 DEF CrabNext

\* It holds to begin with.
LEMMA CrabStart == CrabInit => CrabInv
<1> SUFFICES ASSUME CrabInit PROVE CrabInv OBVIOUS
<1> USE DEF CrabInit
<1>1. cpu_rr_idx \in [CrabCpus -> 0..RR_LIMIT - 1] /\ crabLoad \in [CrabCpus -> [Targets -> Nat]]
  BY CounterRange
<1>2. \A c \in CrabCpus : CrabShare(c, 0, 0) BY TargetCount DEF CrabShare, Targets
<1>3. 0 \in Targets BY TargetCount DEF Targets
<1>4. SynReachesTarget BY DEF SynReachesTarget, NoCrabRun
<1>5. targets_map \in [0..MAX_TARGET_COUNT - 1 -> Nat] OBVIOUS
<1> QED BY <1>1, <1>2, <1>3, <1>4, <1>5 DEF CrabInv

\* Every SYN that is sent on carries the client's address, goes to a server
\* under its own MAC, and no server gets two more than another from one CPU.
THEOREM CrabSynsReachServersInTurn == CrabSpec => []SynsReachServersInTurn
<1>1. CrabInit => CrabInv
  BY CrabStart
<1>2. CrabInv /\ [CrabNext]_crabVars => CrabInv'
  BY CrabStep
<1>3. CrabInv => SynsReachServersInTurn
  <2> SUFFICES ASSUME CrabInv, NEW c \in CrabCpus, NEW i \in Targets, NEW j \in Targets
               PROVE  crabLoad[c][i] <= crabLoad[c][j] + 1
    BY DEF SynsReachServersInTurn, RoundRobinIsFair, CrabInv
  <2>1. PICK q \in Nat, r \in Targets : CrabShare(c, q, r) BY DEF CrabInv
  <2> QED BY <2>1 DEF CrabShare, Targets
<1> QED BY <1>1, <1>2, <1>3, PTL DEF CrabSpec
-----------------------------------------------------------------------------
(* The assertions of Crab.  F is the memory the run ends with: while it    *)
(* runs, every constant it has registered has the contents of F, and every *)
(* cell it has promised a value has that value in F.                       *)
Kept(F) == {[range |-> r, value |-> Contents(F, r)] : r \in SUBSET Cells}
Promised(F) == {[cell |-> cell, value |-> F[cell], eq |-> TRUE] : cell \in Cells}
Sound(a, n, m, F) ==
  /\ a \in [expected_return : {"", "XDP_TX"}, expected_not_returns : {{}}, constants : Seq(Kept(F)),
            leads_to : {<< >>}, if_actions : {<< >>}, ifs : Seq(Promised(F)), failed : {{}}]
  /\ Len(a.constants) <= n /\ Len(a.ifs) <= m

\* A constant that is final when it is registered.
LEMMA ConstSound ==
  ASSUME NEW F, NEW n \in 0..9, NEW m \in 0..9, NEW x, IsRun(x), Sound(x.asserts, n, m, F),
         NEW range \in SUBSET Cells, \A cell \in range : x.mem[cell] = F[cell]
  PROVE  Sound(Const(x, range).asserts, n + 1, m, F)
<1> DEFINE a == x.asserts
           e == [range |-> range, value |-> Contents(x.mem, range)]
<1>1. Contents(x.mem, range) = Contents(F, range) BY DEF Contents
<1>2. e \in Kept(F) BY <1>1 DEF Kept
<1> HIDE DEF e
<1>3. a.constants \in Seq(Kept(F)) /\ Len(a.constants) <= n BY DEF Sound
<1>8. Len(a.constants) \in Nat BY <1>3
<1>4. _add_constant(a, x.mem, range) = [a EXCEPT !.constants = Append(@, e)]
  BY <1>3, <1>8 DEF _add_constant, MAX_CONSTANTS, e
<1>5. Const(x, range).asserts = [a EXCEPT !.constants = Append(@, e)]
  BY <1>4 DEF Const, IsRun
<1>6. Append(a.constants, e) \in Seq(Kept(F)) /\ Len(Append(a.constants, e)) <= n + 1
  BY <1>2, <1>3
<1> DEFINE s == Append(a.constants, e)
<1> HIDE DEF s
<1>7. Const(x, range).asserts = [a EXCEPT !.constants = s] /\ s \in Seq(Kept(F)) /\ Len(s) <= n + 1
  BY <1>5, <1>6 DEF s
<1>9. Const(x, range).asserts.constants = s BY <1>7 DEF Sound
<1> QED BY <1>7, <1>9 DEF Sound

\* A promise that the end of the run keeps.
LEMMA EndEqSound ==
  ASSUME NEW F, NEW n \in 0..9, NEW m \in 0..9, NEW x, IsRun(x), Sound(x.asserts, n, m, F),
         NEW cell \in Cells
  PROVE  Sound(EndEq(x, cell, F[cell]).asserts, n, m + 1, F)
<1> DEFINE a == x.asserts
           e == [cell |-> cell, value |-> F[cell], eq |-> TRUE]
<1>2. e \in Promised(F) BY DEF Promised
<1> HIDE DEF e
<1>3. a.ifs \in Seq(Promised(F)) /\ Len(a.ifs) <= m BY DEF Sound
<1>8. Len(a.ifs) \in Nat BY <1>3
<1>4. BPF_ASSERT_END_EQ(a, cell, F[cell]) = [a EXCEPT !.ifs = Append(@, e)]
  BY <1>3, <1>8 DEF BPF_ASSERT_END_EQ, _add_if, MAX_IFS, e
<1>5. EndEq(x, cell, F[cell]).asserts = [a EXCEPT !.ifs = Append(@, e)]
  BY <1>4 DEF EndEq, IsRun
<1>6. Append(a.ifs, e) \in Seq(Promised(F)) /\ Len(Append(a.ifs, e)) <= m + 1
  BY <1>2, <1>3
<1> DEFINE s == Append(a.ifs, e)
<1> HIDE DEF s
<1>7. EndEq(x, cell, F[cell]).asserts = [a EXCEPT !.ifs = s] /\ s \in Seq(Promised(F)) /\ Len(s) <= m + 1
  BY <1>5, <1>6 DEF s
<1>9. EndEq(x, cell, F[cell]).asserts.ifs = s BY <1>7 DEF Sound
<1> QED BY <1>7, <1>9 DEF Sound

\* What BPF_RETURN has to find: that is all it looks for.
LEMMA NothingFails ==
  ASSUME NEW a, NEW mem, NEW act,
         a.failed = {}, a.expected_return \in {"", act}, act \notin a.expected_not_returns,
         \A j \in DOMAIN a.constants : Contents(mem, a.constants[j].range) = a.constants[j].value,
         \A j \in DOMAIN a.leads_to : a.leads_to[j] = act,
         \A j \in DOMAIN a.if_actions : a.if_actions[j].return_value = act =>
           (mem[a.if_actions[j].cell] = a.if_actions[j].value) = a.if_actions[j].eq,
         \A j \in DOMAIN a.ifs : (mem[a.ifs[j].cell] = a.ifs[j].value) = a.ifs[j].eq
  PROVE  _run_unrestricted_asserts(a, mem, act) = {}
BY DEF _run_unrestricted_asserts

\* A run that ends with the memory F and the verdict it expects fails nothing.
LEMMA SoundHolds ==
  ASSUME NEW F, NEW a, NEW n, NEW m, Sound(a, n, m, F)
  PROVE  _run_unrestricted_asserts(a, F, "XDP_TX") = {}
<1>1. \A j \in DOMAIN a.constants : Contents(F, a.constants[j].range) = a.constants[j].value
  <2> SUFFICES ASSUME NEW j \in DOMAIN a.constants
               PROVE  Contents(F, a.constants[j].range) = a.constants[j].value
    OBVIOUS
  <2>0. a.constants \in Seq(Kept(F)) BY DEF Sound
  <2>1. a.constants[j] \in Kept(F) BY <2>0
  <2>2. PICK r \in SUBSET Cells : a.constants[j] = [range |-> r, value |-> Contents(F, r)]
    BY <2>1 DEF Kept
  <2> QED BY <2>2
<1>2. \A j \in DOMAIN a.ifs : F[a.ifs[j].cell] = a.ifs[j].value /\ a.ifs[j].eq = TRUE
  <2> SUFFICES ASSUME NEW j \in DOMAIN a.ifs PROVE F[a.ifs[j].cell] = a.ifs[j].value /\ a.ifs[j].eq = TRUE
    OBVIOUS
  <2>0. a.ifs \in Seq(Promised(F)) BY DEF Sound
  <2>1. a.ifs[j] \in Promised(F) BY <2>0
  <2> QED BY <2>1 DEF Promised
<1>3. a.failed = {} /\ a.expected_return \in {"", "XDP_TX"} /\ a.expected_not_returns = {}
  BY DEF Sound
<1>4. a.leads_to = << >> /\ a.if_actions = << >> BY DEF Sound
<1>5. DOMAIN a.leads_to = {} /\ DOMAIN a.if_actions = {} BY <1>4
<1> QED BY <1>1, <1>2, <1>3, <1>5, NothingFails

\* Between two registrations of a run: its memory, and that it is sound.
At(x, M, n, m, F) == IsRun(x) /\ x.mem = M /\ x.action = "XDP_PASS" /\ Sound(x.asserts, n, m, F)

\* An assertion that a value is a constant, made at this point of the run.
LEMMA ConstAt ==
  ASSUME NEW F, NEW n \in 0..9, NEW m \in 0..9, NEW x, NEW M, At(x, M, n, m, F),
         NEW range \in SUBSET Cells, \A cell \in range : M[cell] = F[cell]
  PROVE  At(Const(x, range), M, n + 1, m, F)
BY ConstSound, ConstKeeps DEF At

\* An assertion on two values at the end, made at this point of the run.
LEMMA EndEqAt ==
  ASSUME NEW F, NEW n \in 0..9, NEW m \in 0..9, NEW x, NEW M, At(x, M, n, m, F), NEW cell \in Cells
  PROVE  At(EndEq(x, cell, F[cell]), M, n, m + 1, F)
BY EndEqSound, EndEqKeeps DEF At

\* Memory that is written between two registrations.
LEMMA WriteAt ==
  ASSUME NEW F, NEW n, NEW m, NEW x, NEW M, At(x, M, n, m, F), NEW N, N = [f \in Cells |-> N[f]]
  PROVE  At([x EXCEPT !.mem = N], N, n, m, F)
BY DEF At, IsRun

\* The head of handle_syn promises what the run ends with.
LEMMA SynAssertsAt ==
  ASSUME NEW x, NEW M, IsRun(x), x.mem = M, x.action = "XDP_PASS", x.asserts = NoAsserts, NEW F,
         F["data"] = M.data - REDIR_OPT_SIZE, F["data_end"] = M.data_end, F["h_source"] = M.h_dest,
         F["tot_len"] = M.tot_len + REDIR_OPT_SIZE, F["ropt"] = M.daddr
  PROVE  At(SynAsserts(x), M, 1, 4, F)
<1> DEFINE v == _set_expected_return(x.asserts, "XDP_TX")
           r == [x EXCEPT !.asserts = v]
           d == EndEq(r, "data", F["data"])
           e == Const(d, {"data_end"})
           s == EndEq(e, "h_source", F["h_source"])
           l == EndEq(s, "tot_len", F["tot_len"])
<1>1. SynAsserts(x) = EndEq(l, "ropt", F["ropt"]) BY DEF SynAsserts
<1>0. NoAsserts.expected_not_returns = {} BY DEF NoAsserts
<1>2. v = [NoAsserts EXCEPT !.expected_return = "XDP_TX"] BY <1>0 DEF _set_expected_return
<1>3. Sound(v, 0, 0, F)
  <2>1. << >> \in Seq(Kept(F)) /\ << >> \in Seq(Promised(F)) /\ Len(<< >>) = 0 OBVIOUS
  <2> DEFINE S == Seq(Kept(F))
             T == Seq(Promised(F))
  <2> HIDE DEF S, T
  <2>2. << >> \in S /\ << >> \in T BY <2>1 DEF S, T
  <2>3. v \in [expected_return : {"", "XDP_TX"}, expected_not_returns : {{}}, constants : S,
               leads_to : {<< >>}, if_actions : {<< >>}, ifs : T, failed : {{}}]
        /\ v.constants = << >> /\ v.ifs = << >>
    BY <1>2, <2>2 DEF NoAsserts
  <2>5. Len(v.constants) = 0 /\ Len(v.ifs) = 0 BY <2>1, <2>3, Zenon
  <2>4. Len(v.constants) <= 0 /\ Len(v.ifs) <= 0 BY <2>5
  <2> QED BY <2>3, <2>4 DEF Sound, S, T
<1> HIDE DEF v
<1>4. At(r, M, 0, 0, F) BY <1>3 DEF At, IsRun
<1> HIDE DEF r
<1>5. At(d, M, 0, 1, F)
  <2>1. At(d, M, 0, 0 + 1, F) BY <1>4, EndEqAt DEF Cells
  <2> QED BY <2>1
<1> HIDE DEF d
<1>6. At(e, M, 1, 1, F)
  <2>1. At(e, M, 0 + 1, 1, F) BY <1>5, ConstAt DEF Cells
  <2> QED BY <2>1
<1> HIDE DEF e
<1>7. At(s, M, 1, 2, F)
  <2>1. At(s, M, 1, 1 + 1, F) BY <1>6, EndEqAt DEF Cells
  <2> QED BY <2>1
<1> HIDE DEF s
<1>8. At(l, M, 1, 3, F)
  <2>1. At(l, M, 1, 2 + 1, F) BY <1>7, EndEqAt DEF Cells
  <2> QED BY <2>1
<1> HIDE DEF l
<1>9. At(EndEq(l, "ropt", F["ropt"]), M, 1, 3 + 1, F) BY <1>8, EndEqAt DEF Cells
<1> QED BY <1>1, <1>9

\* update_macs writes both MACs and registers them.
LEMMA MacsAt ==
  ASSUME NEW F, NEW x, NEW M, M = [f \in Cells |-> M[f]], At(x, M, 3, 4, F), M.daddr \in DOMAIN macs_map,
         F["h_source"] = M.h_dest, F["h_dest"] = macs_map[M.daddr]
  PROVE  At(update_macs(x), [M EXCEPT !.h_source = F["h_source"], !.h_dest = F["h_dest"]], 5, 5, F)
<1> DEFINE a == EndEq(x, "h_source", F["h_source"])
           M1 == [M EXCEPT !.h_source = F["h_source"]]
           w == [a EXCEPT !.mem = M1]
           b == Const(w, {"h_source"})
           M2 == [M EXCEPT !.h_source = F["h_source"], !.h_dest = F["h_dest"]]
           n == [b EXCEPT !.mem = M2]
<1>1. At(a, M, 3, 5, F)
  <2>1. At(a, M, 3, 4 + 1, F) BY EndEqAt DEF Cells
  <2> QED BY <2>1
<1>2. M1 = [f \in Cells |-> M1[f]] /\ M2 = [f \in Cells |-> M2[f]] /\ M1.h_source = F["h_source"]
      /\ M2.h_dest = F["h_dest"] /\ M1.daddr = M.daddr /\ M2 = [M1 EXCEPT !.h_dest = F["h_dest"]]
  BY DEF Cells
<1>0. /\ a = EndEq(x, "h_source", x.mem.h_dest)
      /\ [a EXCEPT !.mem.h_source = a.mem.h_dest] = w
  BY <1>1 DEF At, IsRun
<1>3. At(w, M1, 3, 5, F) BY <1>1, <1>2, WriteAt
<1> HIDE DEF w
<1>4. At(b, M1, 4, 5, F)
  <2>1. At(b, M1, 3 + 1, 5, F)
    <3>1. \A cell \in {"h_source"} : M1[cell] = F[cell] BY <1>2
    <3> HIDE DEF M1
    <3> QED BY <1>3, <3>1, ConstAt DEF Cells
  <2> QED BY <2>1
<1>5. update_macs(x) = IF b.mem.daddr \notin DOMAIN macs_map THEN Aborted(b)
                       ELSE Const([b EXCEPT !.mem.h_dest = macs_map[b.mem.daddr]], {"h_dest"})
  BY <1>0 DEF update_macs, b
<1> HIDE DEF b, M1, M2
<1>6. b.mem = M1 /\ b.mem.daddr = M.daddr BY <1>4, <1>2 DEF At
<1>7. [b EXCEPT !.mem.h_dest = macs_map[b.mem.daddr]] = n BY <1>2, <1>4, <1>6 DEF At, IsRun
<1>8. At(n, M2, 4, 5, F) BY <1>2, <1>4, WriteAt
<1> HIDE DEF n
<1>9. At(Const(n, {"h_dest"}), M2, 4 + 1, 5, F)
  <2>1. \A cell \in {"h_dest"} : M2[cell] = F[cell] BY <1>2
  <2> QED BY <1>8, <2>1, ConstAt DEF Cells
<1>10. update_macs(x) = Const(n, {"h_dest"}) BY <1>5, <1>6, <1>7
<1>11. At(update_macs(x), M2, 5, 5, F) BY <1>9, <1>10
<1> QED BY <1>11 DEF M2

\* A SYN that finds a server and its MAC is sent, and the run is sound about
\* the memory it ends with.
LEMMA SynAt ==
  ASSUME NEW c, NEW x, IsRun(x), x.action = "XDP_PASS", x.asserts = NoAsserts,
         x.mem.data \in Int, x.mem.tot_len \in Int, x.mem.doff \in Int,
         get_target(c).found, get_target(c).daddr \in DOMAIN macs_map
  PROVE  /\ handle_syn(c, x, TRUE).action = "XDP_TX"
         /\ Sound(handle_syn(c, x, TRUE).asserts, 9, 5, handle_syn(c, x, TRUE).mem)
<1> DEFINE t == get_target(c)
           M0 == x.mem
           F == [data |-> M0.data - REDIR_OPT_SIZE, data_end |-> M0.data_end, h_source |-> M0.h_dest,
                 h_dest |-> macs_map[t.daddr], tot_len |-> M0.tot_len + REDIR_OPT_SIZE,
                 daddr |-> t.daddr, doff |-> M0.doff + REDIR_OPT_SIZE \div 4, ropt |-> M0.daddr]
           entry == SynAsserts(x)
           M1 == [M0 EXCEPT !.data = F["data"], !.tot_len = F["tot_len"]]
           moved == [entry EXCEPT !.mem.data = @ - REDIR_OPT_SIZE, !.mem.tot_len = @ + REDIR_OPT_SIZE]
           cm == Const(moved, {"tot_len"})
           M2 == [M1 EXCEPT !.daddr = t.daddr]
           am == [cm EXCEPT !.mem.daddr = t.daddr]
           aimed == Const(am, {"daddr"})
           macs == update_macs(aimed)
           M3 == [M2 EXCEPT !.h_source = F["h_source"], !.h_dest = F["h_dest"]]
           ip0 == Const(macs, {"h_source", "h_dest"})
           ip == Const(ip0, {"tot_len", "daddr"})
           om == [ip EXCEPT !.mem.doff = @ + REDIR_OPT_SIZE \div 4, !.mem.ropt = x.mem.daddr]
           opt == Const(om, {"ropt"})
           od == Const(opt, {"doff"})
<1>24. handle_syn(c, x, TRUE) = IF ~t.found THEN Aborted(cm)
                          ELSE IF macs.action = "XDP_ABORTED" THEN macs
                          ELSE [od EXCEPT !.action = "XDP_TX"]
  BY DEF handle_syn
<1> HIDE DEF t
<1>1. M0 = [f \in Cells |-> M0[f]] BY DEF IsRun
<1> HIDE DEF M0
<1>2. M0.data \in Int /\ M0.tot_len \in Int /\ M0.doff \in Int BY DEF M0
<1>3. F = [f \in Cells |-> F[f]] BY DEF Cells
<1>4. /\ M1 = [f \in Cells |-> M1[f]] /\ M2 = [f \in Cells |-> M2[f]] /\ M3 = [f \in Cells |-> M3[f]]
      /\ M1.tot_len = F["tot_len"] /\ M2.daddr = F["daddr"] /\ M2.daddr = t.daddr /\ F["h_source"] = M2.h_dest
      /\ F["h_dest"] = macs_map[M2.daddr]
  BY <1>1 DEF Cells
<1>5. /\ M3.h_source = F["h_source"] /\ M3.h_dest = F["h_dest"] /\ M3.tot_len = F["tot_len"]
      /\ M3.daddr = F["daddr"]
  BY <1>1 DEF Cells
<1>6. [M3 EXCEPT !.doff = @ + REDIR_OPT_SIZE \div 4, !.ropt = M0.daddr] = F
  <2> DEFINE G == [M3 EXCEPT !.doff = @ + REDIR_OPT_SIZE \div 4, !.ropt = M0.daddr]
  <2>1. M3.doff = M0.doff /\ M3.data = F["data"] /\ M3.data_end = F["data_end"]
    BY <1>1 DEF Cells
  <2>2. F["ropt"] = M0.daddr /\ F["doff"] = M0.doff + REDIR_OPT_SIZE \div 4 OBVIOUS
  <2> HIDE DEF M3, F
  <2>3. G = [f \in Cells |-> G[f]] BY <1>4
  <2>4. \A f \in Cells : G[f] = F[f] BY <1>4, <1>5, <2>1, <2>2 DEF Cells
  <2> HIDE DEF G
  <2>5. G = F BY <1>3, <2>3, <2>4
  <2> QED BY <2>5 DEF G
<1>7. M1 = [M0 EXCEPT !.data = @ - REDIR_OPT_SIZE, !.tot_len = @ + REDIR_OPT_SIZE]
  BY <1>1, <1>2 DEF Cells
<1>8. /\ F["data"] = M0.data - REDIR_OPT_SIZE /\ F["data_end"] = M0.data_end /\ F["h_source"] = M0.h_dest
      /\ F["tot_len"] = M0.tot_len + REDIR_OPT_SIZE /\ F["ropt"] = M0.daddr
  OBVIOUS
<1> HIDE DEF F, M1, M2, M3
<1>10. At(entry, M0, 1, 4, F) BY <1>8, SynAssertsAt DEF M0
<1> HIDE DEF entry
<1>12. moved = [entry EXCEPT !.mem = M1] BY <1>7, <1>10 DEF At, IsRun
<1>11. At(moved, M1, 1, 4, F) BY <1>4, <1>10, <1>12, WriteAt
<1> HIDE DEF moved
<1>13. At(cm, M1, 2, 4, F)
  <2>1. At(cm, M1, 1 + 1, 4, F) BY <1>4, <1>11, ConstAt DEF Cells
  <2> QED BY <2>1
<1> HIDE DEF cm
<1>15. am = [cm EXCEPT !.mem = M2] BY <1>13 DEF At, IsRun, M2
<1>14. At(am, M2, 2, 4, F) BY <1>4, <1>13, <1>15, WriteAt
<1> HIDE DEF am
<1>16. At(aimed, M2, 3, 4, F)
  <2>0. \A cell \in {"daddr"} : M2[cell] = F[cell] BY <1>4
  <2>1. At(aimed, M2, 2 + 1, 4, F) BY <1>14, <2>0, ConstAt DEF Cells
  <2> QED BY <2>1
<1> HIDE DEF aimed
<1>17. At(macs, M3, 5, 5, F) BY <1>4, <1>16, MacsAt DEF M3, t
<1> HIDE DEF macs
<1>18. At(ip0, M3, 6, 5, F)
  <2>1. At(ip0, M3, 5 + 1, 5, F) BY <1>5, <1>17, ConstAt DEF Cells
  <2> QED BY <2>1
<1> HIDE DEF ip0
<1>19. At(ip, M3, 7, 5, F)
  <2>1. At(ip, M3, 6 + 1, 5, F) BY <1>5, <1>18, ConstAt DEF Cells
  <2> QED BY <2>1
<1> HIDE DEF ip
<1>21. om = [ip EXCEPT !.mem = F] BY <1>6, <1>19 DEF At, IsRun, M0
<1>20. At(om, F, 7, 5, F) BY <1>3, <1>19, <1>21, WriteAt
<1> HIDE DEF om
<1>22. At(opt, F, 8, 5, F)
  <2>1. At(opt, F, 7 + 1, 5, F) BY <1>20, ConstAt DEF Cells
  <2> QED BY <2>1
<1> HIDE DEF opt
<1>23. At(od, F, 9, 5, F)
  <2>1. At(od, F, 8 + 1, 5, F) BY <1>22, ConstAt DEF Cells
  <2> QED BY <2>1
<1> HIDE DEF od
<1>25. handle_syn(c, x, TRUE) = [od EXCEPT !.action = "XDP_TX"] BY <1>17, <1>24 DEF At, t
<1>26. /\ handle_syn(c, x, TRUE).action = "XDP_TX" /\ handle_syn(c, x, TRUE).asserts = od.asserts
       /\ handle_syn(c, x, TRUE).mem = F
  BY <1>23, <1>25 DEF At, IsRun
<1> QED BY <1>23, <1>26 DEF At

\* The run of any packet ends with every assertion it made, unless it is
\* aborted because the head of a SYN cannot be moved.
LEMMA RunHolds ==
  ASSUME CrabInv, targets_count # 0, NEW c \in CrabCpus, NEW p \in CrabPackets,
         crabRun' = xdp_prog_simple(c, p)
  PROVE  AssertionsHold'
<1> DEFINE x == IF IsSyn(p) THEN handle_syn(c, Parsed(p), p.room) ELSE Parsed(p)
           f == _run_unrestricted_asserts(x.asserts, x.mem, x.action)
<1>1. crabRun'.failed = f BY DEF xdp_prog_simple
<1>2. CASE IsSyn(p) /\ p.room
  <2>1. Parsed(p).asserts = NoAsserts /\ Parsed(p).mem = Arrives(p)
    BY <1>2 DEF Parsed, IsSyn, _add_leads_to
  <2>2. Parsed(p).mem.data \in Int /\ Parsed(p).mem.tot_len \in Int /\ Parsed(p).mem.doff \in Int
    BY <2>1 DEF Arrives, TotalLen
  <2>3. PICK r \in Targets : get_target(c).found /\ get_target(c).daddr = ipaddrs[r] BY TargetKnown
  <2>4. get_target(c).daddr \in DOMAIN macs_map BY <2>3 DEF CrabInv
  <2>7. x = handle_syn(c, Parsed(p), TRUE)
    <3>1. p.room = TRUE BY <1>2 DEF CrabPackets
    <3> QED BY <1>2, <3>1
  <2>5. x.action = "XDP_TX" /\ Sound(x.asserts, 9, 5, x.mem)
    BY <1>2, <2>1, <2>2, <2>3, <2>4, <2>7, ParsedIsRun, SynAt
  <2> HIDE DEF x
  <2>6. f = {} BY <2>5, SoundHolds
  <2> QED BY <1>1, <2>6 DEF AssertionsHold
<1>4. CASE IsSyn(p) /\ ~p.room
  <2>1. x = Aborted(SynAsserts(Parsed(p))) BY <1>4 DEF handle_syn
  <2>2. x.action = "XDP_ABORTED" BY <2>1, ParsedIsRun, SynAssertsKeep DEF IsRun, Aborted
  <2>3. crabRun'.pkt = p /\ crabRun'.action = x.action BY DEF xdp_prog_simple
  <2> HIDE DEF x
  <2> QED BY <1>4, <2>2, <2>3 DEF AssertionsHold, IsSyn
<1>3. CASE ~IsSyn(p)
  <2> DEFINE lead == p.l2 # "ip" \/ p.l4 \notin {"tcp", "broken"}
             act == IF p.l2 = "ip" /\ p.l4 = "broken" THEN "XDP_ABORTED" ELSE "XDP_PASS"
             leads == IF lead THEN <<"XDP_PASS">> ELSE << >>
  <2>0. /\ NoAsserts.leads_to = << >> /\ Len(<< >>) = 0
        /\ Append(<< >>, "XDP_PASS") = <<"XDP_PASS">>
    <3>1. NoAsserts.leads_to = << >> BY DEF NoAsserts
    <3>3. Len(<< >>) = 0 /\ Append(<< >>, "XDP_PASS") = <<"XDP_PASS">> OBVIOUS
    <3> QED BY <3>1, <3>3
  <2> DEFINE b == _add_leads_to(_add_leads_to(NoAsserts, p.l2 # "ip", "XDP_PASS"),
                                p.l2 = "ip" /\ p.l4 \notin {"tcp", "broken"}, "XDP_PASS")
             one == [NoAsserts EXCEPT !.leads_to = <<"XDP_PASS">>]
  <2>6. ASSUME NEW a PROVE _add_leads_to(a, FALSE, "XDP_PASS") = a BY DEF _add_leads_to
  <2>7. _add_leads_to(NoAsserts, TRUE, "XDP_PASS") = one
    BY <2>0 DEF _add_leads_to, MAX_LEADS_TO_ACTION
  <2>8. b = IF lead THEN one ELSE NoAsserts
    <3>1. CASE p.l2 # "ip" BY <3>1, <2>6, <2>7
    <3>2. CASE p.l2 = "ip" /\ p.l4 \notin {"tcp", "broken"} BY <3>2, <2>6, <2>7
    <3>3. CASE p.l2 = "ip" /\ p.l4 \in {"tcp", "broken"} BY <3>3, <2>6
    <3> QED BY <3>1, <3>2, <3>3
  <2>9. Parsed(p).asserts = b /\ Parsed(p).action = act BY DEF Parsed
  <2> HIDE DEF b
  <2>2. /\ b.failed = {} /\ b.expected_return = "" /\ b.expected_not_returns = {}
        /\ b.leads_to = leads /\ b.constants = << >> /\ b.if_actions = << >> /\ b.ifs = << >>
    <3>1. CASE lead BY <3>1, <2>8 DEF NoAsserts
    <3>2. CASE ~lead BY <3>2, <2>8 DEF NoAsserts
    <3> QED BY <3>1, <3>2
  <2>3. \A j \in DOMAIN leads : leads[j] = act OBVIOUS
  <2>4. DOMAIN << >> = {} OBVIOUS
  <2>5. DOMAIN b.constants = {} /\ DOMAIN b.if_actions = {} /\ DOMAIN b.ifs = {} BY <2>2, <2>4, Zenon
  <2>1. x.asserts = b /\ x.action = act BY <1>3, <2>9
  <2> HIDE DEF x, leads, act
  <2>11. _run_unrestricted_asserts(b, x.mem, act) = {} BY <2>2, <2>3, <2>5, NothingFails
  <2>10. f = {} BY <2>1, <2>11
  <2> QED BY <1>1, <2>10 DEF AssertionsHold
<1> QED BY <1>2, <1>3, <1>4

\* The assertions of crab_assert hold: the tables of the header are large
\* enough for a SYN, it is sent, and no cell that it has declared constant
\* or promised a value is changed after that.  The only run that fails one
\* is that of a SYN whose head cannot be moved, which is aborted although it
\* has promised XDP_TX.
THEOREM CrabAssertionsHold == CrabSpec => []AssertionsHold
<1> DEFINE Inv == CrabInv /\ AssertionsHold
<1>1. CrabInit => Inv 
  <2>1. NoCrabRun.failed = {} BY DEF NoCrabRun
  <2> QED BY <2>1, CrabStart DEF CrabInit, AssertionsHold
<1>2. Inv /\ [CrabNext]_crabVars => Inv'
  <2> SUFFICES ASSUME CrabInv, AssertionsHold, [CrabNext]_crabVars PROVE AssertionsHold'
    BY CrabStep
  <2>1. CASE set_up_maps BY <2>1 DEF set_up_maps, AssertionsHold
  <2>2. ASSUME NEW c \in CrabCpus, NEW p \in CrabPackets, CrabOther(c, p) PROVE AssertionsHold'
    BY <2>2, RunHolds DEF CrabOther
  <2>3. ASSUME NEW c \in CrabCpus, NEW p \in CrabPackets, CrabSyn(c, p) PROVE AssertionsHold'
    BY <2>3, RunHolds DEF CrabSyn
  <2>4. CASE UNCHANGED crabVars BY <2>4 DEF crabVars, AssertionsHold
  <2> QED BY <2>1, <2>2, <2>3, <2>4 DEF CrabNext
<1> QED BY <1>1, <1>2, PTL DEF CrabSpec
-----------------------------------------------------------------------------
(* The program of assert_map_example.  Again F is the memory at the end,   *)
(* act the verdict; n bounds the length of every table.                    *)
Payload == {"p0", "p1", "p2", "value"}
IfsThatHold(F) ==
  {r \in [cell : Payload, value : {0, 1}, eq : BOOLEAN] : (F[r.cell] = r.value) <=> r.eq}
IfActionsThatHold(F, act) ==
  {r \in [return_value : XdpActions, cell : Payload, value : {0, 1}, eq : BOOLEAN] :
     r.return_value = act => ((F[r.cell] = r.value) <=> r.eq)}
ConstantsThatHold(F) == {[range |-> r, value |-> Contents(F, r)] : r \in SUBSET Payload}
Agrees(a, n, act, F) ==
  /\ a \in [expected_return : {"", act}, expected_not_returns : {{"XDP_ABORTED", "XDP_REDIRECT"}},
            constants : Seq(ConstantsThatHold(F)), leads_to : Seq({act}),
            if_actions : Seq(IfActionsThatHold(F, act)), ifs : Seq(IfsThatHold(F)), failed : {{}}]
  /\ Len(a.constants) <= n /\ Len(a.leads_to) <= n /\ Len(a.if_actions) <= n /\ Len(a.ifs) <= n

\* A sequence grows by one.
LEMMA Appended ==
  ASSUME NEW S, NEW s \in Seq(S), NEW e \in S, NEW n \in Nat, Len(s) <= n
  PROVE  Append(s, e) \in Seq(S) /\ Len(Append(s, e)) <= n + 1 /\ Len(s) <= n + 1 /\ Len(s) \in Nat
<1>1. Len(s) \in Nat OBVIOUS
<1>2. Append(s, e) \in Seq(S) /\ Len(Append(s, e)) = Len(s) + 1 OBVIOUS
<1> QED BY <1>1, <1>2

\* The tables of an a that agrees.
LEMMA AgreesTables ==
  ASSUME NEW a, NEW n \in Nat, NEW act, NEW F, Agrees(a, n, act, F)
  PROVE  /\ a.constants \in Seq(ConstantsThatHold(F)) /\ a.leads_to \in Seq({act})
         /\ a.if_actions \in Seq(IfActionsThatHold(F, act)) /\ a.ifs \in Seq(IfsThatHold(F))
         /\ Len(a.constants) \in 0..n /\ Len(a.leads_to) \in 0..n
         /\ Len(a.if_actions) \in 0..n /\ Len(a.ifs) \in 0..n
         /\ a.expected_not_returns = {"XDP_ABORTED", "XDP_REDIRECT"} /\ a.failed = {}
         /\ a.expected_return \in {"", act}
<1>1. /\ a.constants \in Seq(ConstantsThatHold(F)) /\ a.leads_to \in Seq({act})
      /\ a.if_actions \in Seq(IfActionsThatHold(F, act)) /\ a.ifs \in Seq(IfsThatHold(F))
      /\ a.expected_not_returns = {"XDP_ABORTED", "XDP_REDIRECT"} /\ a.failed = {}
      /\ a.expected_return \in {"", act}
      /\ Len(a.constants) <= n /\ Len(a.leads_to) <= n /\ Len(a.if_actions) <= n /\ Len(a.ifs) <= n
  BY DEF Agrees
<1>2. ASSUME NEW S, NEW s \in Seq(S), Len(s) <= n PROVE Len(s) \in 0..n
  <2>1. Len(s) \in Nat OBVIOUS
  <2> QED BY <1>2, <2>1
<1>3. Len(a.constants) \in 0..n BY <1>1, <1>2
<1>4. Len(a.leads_to) \in 0..n BY <1>1, <1>2
<1>5. Len(a.if_actions) \in 0..n BY <1>1, <1>2
<1>6. Len(a.ifs) \in 0..n BY <1>1, <1>2
<1> QED BY <1>1, <1>3, <1>4, <1>5, <1>6

\* Each kind of registration keeps the agreement.
LEMMA IfAgrees ==
  ASSUME NEW a, NEW n \in 0..8, NEW act, NEW F, Agrees(a, n, act, F), NEW condition \in BOOLEAN,
         NEW cell \in Payload, NEW value \in {0, 1}, NEW eq \in BOOLEAN,
         condition => ((F[cell] = value) <=> eq)
  PROVE  Agrees(IF condition THEN _add_if(a, cell, value, eq) ELSE a, n + 1, act, F)
<1>0. n \in Nat /\ n + 1 \in Nat OBVIOUS
<1>9. /\ a.ifs \in Seq(IfsThatHold(F)) /\ Len(a.constants) \in 0..n /\ Len(a.leads_to) \in 0..n
      /\ Len(a.if_actions) \in 0..n /\ Len(a.ifs) \in 0..n
  BY <1>0, AgreesTables
<1>1. /\ a.ifs \in Seq(IfsThatHold(F)) /\ Len(a.ifs) <= n /\ Len(a.ifs) \in Nat
      /\ Len(a.constants) <= n + 1 /\ Len(a.leads_to) <= n + 1 /\ Len(a.if_actions) <= n + 1 /\ Len(a.ifs) <= n + 1
  BY <1>0, <1>9
<1>2. CASE ~condition BY <1>1, <1>2 DEF Agrees
<1>3. CASE condition
  <2> DEFINE e == [cell |-> cell, value |-> value, eq |-> eq]
             s == Append(a.ifs, e)
  <2>1. e \in IfsThatHold(F) BY <1>3 DEF IfsThatHold
  <2>2. _add_if(a, cell, value, eq) = [a EXCEPT !.ifs = s] BY <1>1 DEF _add_if, MAX_IFS
  <2> HIDE DEF e
  <2>3. s \in Seq(IfsThatHold(F)) /\ Len(s) <= n + 1 BY <1>0, <1>1, <2>1, Appended
  <2> HIDE DEF s
  <2>4. Agrees([a EXCEPT !.ifs = s], n + 1, act, F)
    <3>1. [a EXCEPT !.ifs = s].ifs = s BY DEF Agrees
    <3> QED BY <1>1, <2>3, <3>1 DEF Agrees
  <2> QED BY <1>3, <2>2, <2>4
<1> QED BY <1>2, <1>3

\* Adding a leads-to to the tables.
LEMMA LeadsToAgrees ==
  ASSUME NEW a, NEW n \in 0..8, NEW act, NEW F, Agrees(a, n, act, F), NEW condition \in BOOLEAN,
         NEW value, condition => value = act
  PROVE  Agrees(_add_leads_to(a, condition, value), n + 1, act, F)
<1>0. n \in Nat /\ n + 1 \in Nat OBVIOUS
<1>9. /\ a.leads_to \in Seq({act}) /\ Len(a.constants) \in 0..n /\ Len(a.leads_to) \in 0..n
      /\ Len(a.if_actions) \in 0..n /\ Len(a.ifs) \in 0..n
  BY <1>0, AgreesTables
<1>1. /\ a.leads_to \in Seq({act}) /\ Len(a.leads_to) <= n /\ Len(a.leads_to) \in Nat
      /\ Len(a.constants) <= n + 1 /\ Len(a.leads_to) <= n + 1 /\ Len(a.if_actions) <= n + 1 /\ Len(a.ifs) <= n + 1
  BY <1>0, <1>9
<1>2. CASE ~condition BY <1>1, <1>2 DEF Agrees, _add_leads_to
<1>3. CASE condition
  <2> DEFINE s == Append(a.leads_to, value)
  <2>2. _add_leads_to(a, condition, value) = [a EXCEPT !.leads_to = s]
    BY <1>1, <1>3 DEF _add_leads_to, MAX_LEADS_TO_ACTION
  <2>3. s \in Seq({act}) /\ Len(s) <= n + 1 BY <1>0, <1>1, <1>3, Appended
  <2> HIDE DEF s
  <2>4. Agrees([a EXCEPT !.leads_to = s], n + 1, act, F)
    <3>1. [a EXCEPT !.leads_to = s].leads_to = s BY DEF Agrees
    <3> QED BY <1>1, <2>3, <3>1 DEF Agrees
  <2> QED BY <2>2, <2>4
<1> QED BY <1>2, <1>3

\* Adding a condition on the action.
LEMMA IfActionAgrees ==
  ASSUME NEW a, NEW n \in 0..8, NEW act, NEW F, Agrees(a, n, act, F), NEW return_value \in XdpActions,
         NEW cell \in Payload, NEW value \in {0, 1}, NEW eq \in BOOLEAN,
         return_value = act => ((F[cell] = value) <=> eq)
  PROVE  Agrees(_add_if_action(a, return_value, cell, value, eq), n + 1, act, F)
<1>0. n \in Nat /\ n + 1 \in Nat OBVIOUS
<1>9. /\ a.if_actions \in Seq(IfActionsThatHold(F, act)) /\ Len(a.constants) \in 0..n /\ Len(a.leads_to) \in 0..n
      /\ Len(a.if_actions) \in 0..n /\ Len(a.ifs) \in 0..n
  BY <1>0, AgreesTables
<1>1. /\ a.if_actions \in Seq(IfActionsThatHold(F, act)) /\ Len(a.if_actions) <= n /\ Len(a.if_actions) \in Nat
      /\ Len(a.constants) <= n + 1 /\ Len(a.leads_to) <= n + 1 /\ Len(a.if_actions) <= n + 1 /\ Len(a.ifs) <= n + 1
  BY <1>0, <1>9
<1> DEFINE e == [return_value |-> return_value, cell |-> cell, value |-> value, eq |-> eq]
           s == Append(a.if_actions, e)
<1>2. e \in IfActionsThatHold(F, act) BY DEF IfActionsThatHold
<1>3. _add_if_action(a, return_value, cell, value, eq) = [a EXCEPT !.if_actions = s]
  BY <1>1 DEF _add_if_action, MAX_IF_ACTIONS
<1> HIDE DEF e
<1>4. s \in Seq(IfActionsThatHold(F, act)) /\ Len(s) <= n + 1 BY <1>0, <1>1, <1>2, Appended
<1> HIDE DEF s
<1>5. Agrees([a EXCEPT !.if_actions = s], n + 1, act, F)
  <2>1. [a EXCEPT !.if_actions = s].if_actions = s BY DEF Agrees
  <2> QED BY <1>1, <1>4, <2>1 DEF Agrees
<1> QED BY <1>3, <1>5

\* Adding a constant.
LEMMA ConstantAgrees ==
  ASSUME NEW a, NEW n \in 0..8, NEW act, NEW F, Agrees(a, n, act, F), NEW mem,
         NEW range \in SUBSET Payload, \A cell \in range : mem[cell] = F[cell]
  PROVE  Agrees(_add_constant(a, mem, range), n + 1, act, F)
<1>0. n \in Nat /\ n + 1 \in Nat OBVIOUS
<1>9. /\ a.constants \in Seq(ConstantsThatHold(F)) /\ Len(a.constants) \in 0..n /\ Len(a.leads_to) \in 0..n
      /\ Len(a.if_actions) \in 0..n /\ Len(a.ifs) \in 0..n
  BY <1>0, AgreesTables
<1>1. /\ a.constants \in Seq(ConstantsThatHold(F)) /\ Len(a.constants) <= n /\ Len(a.constants) \in Nat
      /\ Len(a.constants) <= n + 1 /\ Len(a.leads_to) <= n + 1 /\ Len(a.if_actions) <= n + 1 /\ Len(a.ifs) <= n + 1
  BY <1>0, <1>9
<1> DEFINE e == [range |-> range, value |-> Contents(mem, range)]
           s == Append(a.constants, e)
<1>2. e \in ConstantsThatHold(F) BY DEF ConstantsThatHold, Contents
<1>3. _add_constant(a, mem, range) = [a EXCEPT !.constants = s] BY <1>1 DEF _add_constant, MAX_CONSTANTS
<1> HIDE DEF e
<1>4. s \in Seq(ConstantsThatHold(F)) /\ Len(s) <= n + 1 BY <1>0, <1>1, <1>2, Appended
<1> HIDE DEF s
<1>5. Agrees([a EXCEPT !.constants = s], n + 1, act, F)
  <2>1. [a EXCEPT !.constants = s].constants = s BY DEF Agrees
  <2> QED BY <1>1, <1>4, <2>1 DEF Agrees
<1> QED BY <1>3, <1>5

\* An a that agrees and does not refuse the verdict fails nothing.
LEMMA AgreesHolds ==
  ASSUME NEW a, NEW n \in Nat, NEW act, act \notin {"XDP_ABORTED", "XDP_REDIRECT"}, NEW F, Agrees(a, n, act, F)
  PROVE  _run_unrestricted_asserts(a, F, act) = {}
<1>1. /\ a.constants \in Seq(ConstantsThatHold(F)) /\ a.leads_to \in Seq({act})
      /\ a.if_actions \in Seq(IfActionsThatHold(F, act)) /\ a.ifs \in Seq(IfsThatHold(F))
      /\ a.failed = {} /\ a.expected_return \in {"", act} /\ act \notin a.expected_not_returns
  BY AgreesTables
<1>6. ASSUME NEW S, NEW s \in Seq(S), NEW j \in DOMAIN s PROVE s[j] \in S OBVIOUS
<1>2. \A j \in DOMAIN a.constants : Contents(F, a.constants[j].range) = a.constants[j].value
  <2> SUFFICES ASSUME NEW j \in DOMAIN a.constants
               PROVE  Contents(F, a.constants[j].range) = a.constants[j].value
    OBVIOUS
  <2>1. a.constants[j] \in ConstantsThatHold(F) BY <1>1, <1>6, Zenon
  <2>2. PICK r \in SUBSET Payload : a.constants[j] = [range |-> r, value |-> Contents(F, r)]
    BY <2>1 DEF ConstantsThatHold
  <2> QED BY <2>2
<1>3. \A j \in DOMAIN a.leads_to : a.leads_to[j] = act
  <2>1. \A j \in DOMAIN a.leads_to : a.leads_to[j] \in {act} BY <1>1, <1>6, Zenon
  <2> QED BY <2>1
<1>4. \A j \in DOMAIN a.if_actions : a.if_actions[j].return_value = act =>
        (F[a.if_actions[j].cell] = a.if_actions[j].value) = a.if_actions[j].eq
  <2> SUFFICES ASSUME NEW j \in DOMAIN a.if_actions, a.if_actions[j].return_value = act
               PROVE  (F[a.if_actions[j].cell] = a.if_actions[j].value) = a.if_actions[j].eq
    OBVIOUS
  <2>1. a.if_actions[j] \in IfActionsThatHold(F, act) BY <1>1, <1>6, Zenon
  <2> QED BY <2>1 DEF IfActionsThatHold
<1>5. \A j \in DOMAIN a.ifs : (F[a.ifs[j].cell] = a.ifs[j].value) = a.ifs[j].eq
  <2> SUFFICES ASSUME NEW j \in DOMAIN a.ifs PROVE (F[a.ifs[j].cell] = a.ifs[j].value) = a.ifs[j].eq
    OBVIOUS
  <2>1. a.ifs[j] \in IfsThatHold(F) BY <1>1, <1>6, Zenon
  <2> QED BY <2>1 DEF IfsThatHold
<1> QED BY <1>1, <1>2, <1>3, <1>4, <1>5, NothingFails

\* Before the packet is looked at, two verdicts are ruled out.
LEMMA EntryAgrees == ASSUME NEW act, NEW F PROVE Agrees(AtEntry, 0, act, F)
<1> DEFINE R == {"XDP_ABORTED", "XDP_REDIRECT"}
           a1 == [NoAsserts EXCEPT !.expected_not_returns = {"XDP_ABORTED"}]
           a2 == [NoAsserts EXCEPT !.expected_not_returns = R]
<1>1. _set_expected_not_return(NoAsserts, "XDP_ABORTED") = a1
  BY DEF _set_expected_not_return, NoAsserts
<1>2. _set_expected_not_return(a1, "XDP_REDIRECT") = a2
  BY DEF _set_expected_not_return, NoAsserts
<1>3. AtEntry = a2 BY <1>1, <1>2 DEF AtEntry
<1> DEFINE C == Seq(ConstantsThatHold(F))
           L == Seq({act})
           A == Seq(IfActionsThatHold(F, act))
           I == Seq(IfsThatHold(F))
<1>4. << >> \in C /\ << >> \in L /\ << >> \in A /\ << >> \in I OBVIOUS
<1>5. Len(<< >>) = 0 OBVIOUS
<1> HIDE DEF C, L, A, I
<1>6. /\ a2 \in [expected_return : {"", act}, expected_not_returns : {R}, constants : C,
                 leads_to : L, if_actions : A, ifs : I, failed : {{}}]
      /\ a2.constants = << >> /\ a2.leads_to = << >> /\ a2.if_actions = << >> /\ a2.ifs = << >>
  BY <1>4 DEF NoAsserts
<1> HIDE DEF a2
<1>7. Len(a2.constants) = 0 /\ Len(a2.leads_to) = 0 /\ Len(a2.if_actions) = 0 /\ Len(a2.ifs) = 0
  BY <1>5, <1>6, Zenon
<1>8. Len(a2.constants) <= 0 /\ Len(a2.leads_to) <= 0 /\ Len(a2.if_actions) <= 0 /\ Len(a2.ifs) <= 0
  BY <1>7
<1> QED BY <1>3, <1>6, <1>8 DEF Agrees, C, L, A, I

\* What is registered about the payload agrees with the way the run goes on:
\* a first byte of 0 is sent back with the third one set, any other is passed
\* with the second one cleared.
LEMMA PayloadAgrees ==
  ASSUME NEW m, NEW act, NEW F,
         \/ act = "XDP_TX" /\ m.p0 = 0 /\ F["p2"] = 1
         \/ act = "XDP_PASS" /\ m.p0 # 0 /\ F["p0"] # 0 /\ F["p1"] = 0
  PROVE  Agrees(AtPayload(m), 8, act, F)
<1> DEFINE a == BPF_ASSERT_IF_THEN_EQ(AtEntry, m.p0 # 0, "p1", 0)
           b == BPF_ASSERT_IF_THEN_NEQ(a, m.p0 # 0, "p0", 0)
           c == BPF_ASSERT_IF_THEN_EQ(b, m.p0 = 0, "p2", 1)
           d0 == _add_leads_to(c, m.p0 # 0, "XDP_PASS")
           d == _add_leads_to(d0, m.p0 = 0, "XDP_TX")
           e == _add_if_action(d, "XDP_PASS", "p1", 0, TRUE)
           f == _add_if_action(e, "XDP_PASS", "p0", 0, FALSE)
           g == _add_if_action(f, "XDP_TX", "p2", 1, TRUE)
<1>1. AtPayload(m) = g BY DEF AtPayload
<1>0. /\ "p0" \in Payload /\ "p1" \in Payload /\ "p2" \in Payload
      /\ "XDP_PASS" \in XdpActions /\ "XDP_TX" \in XdpActions
  BY DEF Payload, XdpActions
<1>n. /\ 0 \in 0..8 /\ 1 \in 0..8 /\ 2 \in 0..8 /\ 3 \in 0..8 /\ 4 \in 0..8 /\ 5 \in 0..8
      /\ 6 \in 0..8 /\ 7 \in 0..8 /\ 0 \in {0, 1} /\ 1 \in {0, 1}
      /\ TRUE \in BOOLEAN /\ FALSE \in BOOLEAN
  OBVIOUS
<1>b. (m.p0 # 0) \in BOOLEAN /\ (m.p0 = 0) \in BOOLEAN OBVIOUS
<1>c. /\ m.p0 # 0 => act = "XDP_PASS" /\ F["p0"] # 0 /\ F["p1"] = 0
      /\ m.p0 = 0 => act = "XDP_TX" /\ F["p2"] = 1
      /\ act = "XDP_PASS" => F["p0"] # 0 /\ F["p1"] = 0
      /\ act = "XDP_TX" => F["p2"] = 1
  OBVIOUS
<1>2. Agrees(a, 1, act, F)
  <2>1. Agrees(a, 0 + 1, act, F) BY <1>0, <1>b, <1>c, <1>n, EntryAgrees, IfAgrees, Zenon DEF BPF_ASSERT_IF_THEN_EQ
  <2> QED BY <2>1
<1> HIDE DEF a
<1>3. Agrees(b, 2, act, F)
  <2>1. Agrees(b, 1 + 1, act, F) BY <1>0, <1>2, <1>b, <1>c, <1>n, IfAgrees, Zenon DEF BPF_ASSERT_IF_THEN_NEQ
  <2> QED BY <2>1
<1> HIDE DEF b
<1>4. Agrees(c, 3, act, F)
  <2>1. Agrees(c, 2 + 1, act, F) BY <1>0, <1>3, <1>b, <1>c, <1>n, IfAgrees, Zenon DEF BPF_ASSERT_IF_THEN_EQ
  <2> QED BY <2>1
<1> HIDE DEF c
<1>5. Agrees(d0, 4, act, F)
  <2>1. Agrees(d0, 3 + 1, act, F) BY <1>4, <1>b, <1>c, <1>n, LeadsToAgrees, Zenon
  <2> QED BY <2>1
<1> HIDE DEF d0
<1>6. Agrees(d, 5, act, F)
  <2>1. Agrees(d, 4 + 1, act, F) BY <1>5, <1>b, <1>c, <1>n, LeadsToAgrees, Zenon
  <2> QED BY <2>1
<1> HIDE DEF d
<1>7. Agrees(e, 6, act, F)
  <2>1. Agrees(e, 5 + 1, act, F) BY <1>0, <1>6, <1>c, <1>n, IfActionAgrees, Zenon
  <2> HIDE DEF e
  <2> QED BY <2>1
<1> HIDE DEF e
<1>8. Agrees(f, 7, act, F)
  <2>1. Agrees(f, 6 + 1, act, F) BY <1>0, <1>7, <1>c, <1>n, IfActionAgrees, Zenon
  <2> HIDE DEF f
  <2> QED BY <2>1
<1> HIDE DEF f
<1>9. Agrees(g, 8, act, F)
  <2>1. Agrees(g, 7 + 1, act, F) BY <1>0, <1>8, <1>c, <1>n, IfActionAgrees, Zenon
  <2> HIDE DEF g
  <2> QED BY <2>1
<1> QED BY <1>1, <1>9

\* The verdict that is expected is the one that is not ruled out.
LEMMA ReturnAgrees ==
  ASSUME NEW a, NEW n \in Nat, NEW act, act \notin {"XDP_ABORTED", "XDP_REDIRECT"}, NEW F, Agrees(a, n, act, F)
  PROVE  Agrees(_set_expected_return(a, act), n, act, F)
<1>1. a.expected_not_returns = {"XDP_ABORTED", "XDP_REDIRECT"} BY AgreesTables
<1>2. _set_expected_return(a, act) = [a EXCEPT !.expected_return = act] BY <1>1 DEF _set_expected_return
<1> QED BY <1>2 DEF Agrees

\* No run of the program fails an assertion.
LEMMA ExampleRunHolds == ASSUME NEW p \in ExamplePackets PROVE xdp_main(p).failed = {}
<1> DEFINE m == [p0 |-> p.p0, p1 |-> p.p1, p2 |-> p.p2, value |-> 0]
           a == AtPayload(m)
<1>0. p.headers \in {"udp", "tcp"} /\ p.p0 \in 0..2 BY DEF ExamplePackets
<1>1. CASE p.headers = "udp"
  <2>1. xdp_main(p) = ExampleReturn(p, AtEntry, m, "XDP_PASS") BY <1>1 DEF xdp_main
  <2> HIDE DEF m
  <2>2. xdp_main(p).failed = _run_unrestricted_asserts(AtEntry, m, "XDP_PASS") BY <2>1 DEF ExampleReturn
  <2>3. Agrees(AtEntry, 0, "XDP_PASS", m) BY EntryAgrees
  <2> QED BY <2>2, <2>3, AgreesHolds
<1>2. CASE p.headers = "tcp" /\ m.p0 = 0
  <2> DEFINE F == [m EXCEPT !.p2 = 1, !.value = 1]
  <2>1. xdp_main(p) = ExampleReturn(p, _set_expected_return(a, "XDP_TX"), F, "XDP_TX")
    BY <1>2 DEF xdp_main
  <2>2. F["p2"] = 1 OBVIOUS
  <2> HIDE DEF m, F
  <2>3. Agrees(a, 8, "XDP_TX", F) BY <1>2, <2>2, PayloadAgrees
  <2> HIDE DEF a
  <2>4. Agrees(_set_expected_return(a, "XDP_TX"), 8, "XDP_TX", F) BY <2>3, ReturnAgrees
  <2>5. xdp_main(p).failed = _run_unrestricted_asserts(_set_expected_return(a, "XDP_TX"), F, "XDP_TX")
    BY <2>1 DEF ExampleReturn
  <2> QED BY <2>4, <2>5, AgreesHolds
<1>3. CASE p.headers = "tcp" /\ m.p0 # 0
  <2> DEFINE F == [m EXCEPT !.p1 = 0]
             r == _set_expected_return(a, "XDP_PASS")
             s == _add_constant(r, m, {"value"})
  <2>1. xdp_main(p) = ExampleReturn(p, s, F, "XDP_PASS") BY <1>3 DEF xdp_main
  <2>2. F["p0"] # 0 /\ F["p1"] = 0 /\ m["value"] = F["value"] BY <1>3
  <2> HIDE DEF m, F
  <2>3. Agrees(a, 8, "XDP_PASS", F) BY <1>3, <2>2, PayloadAgrees
  <2> HIDE DEF a
  <2>4. Agrees(r, 8, "XDP_PASS", F) BY <2>3, ReturnAgrees
  <2> HIDE DEF r
  <2>5. Agrees(s, 8 + 1, "XDP_PASS", F) BY <2>2, <2>4, ConstantAgrees DEF Payload
  <2> HIDE DEF s
  <2>6. xdp_main(p).failed = _run_unrestricted_asserts(s, F, "XDP_PASS") BY <2>1 DEF ExampleReturn
  <2>7. 8 + 1 \in Nat OBVIOUS
  <2> QED BY <2>5, <2>6, <2>7, AgreesHolds
<1> QED BY <1>0, <1>1, <1>2, <1>3

\* Both programs that carry assertions meet all of them in every run that
\* Crab does not abort for want of room in front of the packet, for any
\* number of CPUs and servers.
THEOREM EveryAssertionHolds == CrabSpec /\ ExampleSpec => []AllAssertionsHold
<1>1. ExampleInit => ExampleAssertionsHold
  <2>1. [pkt |-> [headers |-> ""], mem |-> [p0 |-> 0], action |-> "", failed |-> {}].failed = {} OBVIOUS
  <2> QED BY <2>1 DEF ExampleInit, ExampleAssertionsHold
<1>2. ExampleAssertionsHold /\ [ExampleNext]_exampleRun => ExampleAssertionsHold'
  BY ExampleRunHolds DEF ExampleNext, ExampleAssertionsHold
<1>3. ExampleSpec => []ExampleAssertionsHold BY <1>1, <1>2, PTL DEF ExampleSpec
<1>4. AssertionsHold /\ ExampleAssertionsHold => AllAssertionsHold BY DEF AllAssertionsHold
<1> QED BY <1>3, <1>4, CrabAssertionsHold, PTL
=============================================================================
