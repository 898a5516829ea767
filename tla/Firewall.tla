----------------------------- MODULE Firewall -----------------------------
(***************************************************************************)
(* The stateful firewall of examples/fw/xdp_fw_kern.h.  A packet that does *)
(* not come in on B_PORT opens a flow in flow_ctx_table; one that comes in *)
(* on B_PORT needs an open flow.  biflow gives both directions of a flow   *)
(* one key.  A run looks the key up and only then writes it: runs on other *)
(* CPUs come in between.  The redirects are commented out in this copy: a  *)
(* packet goes on where the program returns 0 in their place.              *)
(***************************************************************************)
EXTENDS Integers, FiniteSets

CONSTANTS
  FwCpus,     \* the CPUs that run the program
  FwAddrs,    \* IPv4 addresses, as numbers
  FwPorts,    \* port numbers
  FwPackets,  \* the packets there are: protocol, addresses and ports
  FwMaxFlows  \* entries of flow_ctx_table (1024)

ASSUME FwNumbers == FwAddrs \subseteq Nat /\ FwPorts \subseteq Nat

Protos == {"tcp", "udp"}
FwKeys == [ip_proto : Protos, ip_src : FwAddrs, ip_dst : FwAddrs, l4_src : FwPorts, l4_dst : FwPorts]
ASSUME FwPacketKeys == FwPackets \subseteq FwKeys
ASSUME FwCapacity == FwMaxFlows \in Nat

VARIABLES
  flow_ctx_table,  \* the keys in the map; every entry has the same leaf
  fwRun,           \* the run of each CPU, between its lookup and its end
  opened,          \* packets that were let out
  admitted         \* packets that were let in

fwVars == <<flow_ctx_table, fwRun, opened, admitted>>
-----------------------------------------------------------------------------
FwIfaces == {"A_PORT", "B_PORT"}
FwIdle == [pc |-> "idle"]
\* A packet whose headers are complete, with the port it came in on; any
\* other packet is dropped at EOP.
FwRuns == [pc : {"found", "missing"}, port : FwIfaces, key : FwPackets]

\* Mutant: only the ports are put in order.
biflow_ports(k) ==
  [k EXCEPT !.l4_src = IF k.l4_src > k.l4_dst THEN k.l4_dst ELSE k.l4_src,
            !.l4_dst = IF k.l4_src > k.l4_dst THEN k.l4_src ELSE k.l4_dst]

\* The smaller address first, and, on its own, the smaller port first.
biflow(k) ==
  [k EXCEPT !.ip_src = IF k.ip_src > k.ip_dst THEN k.ip_dst ELSE k.ip_src,
            !.ip_dst = IF k.ip_src > k.ip_dst THEN k.ip_src ELSE k.ip_dst,
            !.l4_src = IF k.l4_src > k.l4_dst THEN k.l4_dst ELSE k.l4_src,
            !.l4_dst = IF k.l4_src > k.l4_dst THEN k.l4_src ELSE k.l4_dst]

\* The packet that answers k.
Reply(k) == [k EXCEPT !.ip_src = k.ip_dst, !.ip_dst = k.ip_src, !.l4_src = k.l4_dst, !.l4_dst = k.l4_src]

FwInit ==
  /\ flow_ctx_table = {}
  /\ fwRun = [c \in FwCpus |-> FwIdle]
  /\ opened = {}
  /\ admitted = {}

\* xdp_fw_prog up to the answer of bpf_map_lookup_elem.
FwLookup(c, port, k) ==
  /\ fwRun[c].pc = "idle"
  /\ fwRun' = [fwRun EXCEPT ![c] =
       [pc |-> IF biflow(k) \in flow_ctx_table THEN "found" ELSE "missing", port |-> port, key |-> k]]
  /\ UNCHANGED <<flow_ctx_table, opened, admitted>>

\* Mutant: the answer of the lookup is not looked at.
FwInboundAny(c) ==
  /\ fwRun[c].pc # "idle" /\ fwRun[c].port = "B_PORT"
  /\ admitted' = admitted \cup {fwRun[c].key}
  /\ fwRun' = [fwRun EXCEPT ![c] = FwIdle]
  /\ UNCHANGED <<flow_ctx_table, opened>>

\* From outside: the packet of an open flow goes on, any other is dropped.
FwInbound(c) ==
  /\ fwRun[c].pc # "idle" /\ fwRun[c].port = "B_PORT"
  /\ admitted' = IF fwRun[c].pc = "found" THEN admitted \cup {fwRun[c].key} ELSE admitted
  /\ fwRun' = [fwRun EXCEPT ![c] = FwIdle]
  /\ UNCHANGED <<flow_ctx_table, opened>>

\* From inside: the flow is opened if it was not there; a full table refuses
\* a new key, and the packet goes out all the same.
FwOutbound(c) ==
  /\ fwRun[c].pc # "idle" /\ fwRun[c].port # "B_PORT"
  /\ flow_ctx_table' =
       IF fwRun[c].pc = "missing" /\ Cardinality(flow_ctx_table) < FwMaxFlows
       THEN flow_ctx_table \cup {biflow(fwRun[c].key)} ELSE flow_ctx_table
  /\ opened' = opened \cup {fwRun[c].key}
  /\ fwRun' = [fwRun EXCEPT ![c] = FwIdle]
  /\ UNCHANGED admitted

FwNext ==
  \E c \in FwCpus :
    \/ \E port \in FwIfaces, k \in FwPackets : FwLookup(c, port, k)
    \/ FwInbound(c)
    \/ FwOutbound(c)

FwSpec == FwInit /\ [][FwNext]_fwVars
-----------------------------------------------------------------------------
\* A packet is let in only if one went out before it between the same two
\* addresses and over the same two ports: the lookup of a packet from outside
\* finds only what a packet from inside has opened.
AdmittedWasOpened ==
  \A k \in admitted : \E o \in opened :
    /\ o.ip_proto = k.ip_proto
    /\ {o.ip_src, o.ip_dst} = {k.ip_src, k.ip_dst}
    /\ {o.l4_src, o.l4_dst} = {k.l4_src, k.l4_dst}

\* The answer to a packet that went out is let in, unless the table was full:
\* both directions have one key, and nobody takes a flow away.
ReplyIsAdmitted ==
  \A o \in opened : biflow(Reply(o)) \in flow_ctx_table \/ Cardinality(flow_ctx_table) >= FwMaxFlows

\* Both: a flow lets in the answers to what opened it, and nothing else.
FlowsStayOpen == AdmittedWasOpened /\ ReplyIsAdmitted
=============================================================================
