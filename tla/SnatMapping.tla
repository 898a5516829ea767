------------------------------ MODULE SnatMapping ------------------------------
(***************************************************************************)
(* Source ports of the Cilium datapath under concurrency                   *)
(* (examples/cilium-lxc/bpf/lib/nat.h).  Module Nat has snat_v4_new_mapping *)
(* as one step; here CPUs run it side by side and each operation on the    *)
(* map is a step of its own, because a map helper is atomic and a program  *)
(* is not.                                                                 *)
(*                                                                         *)
(* A flow is an original tuple.  All flows leave with the address of the   *)
(* node, so a reply is told apart by its peer (address, port, protocol)    *)
(* and the port the flow was given.                                        *)
(***************************************************************************)
EXTENDS Naturals

CONSTANTS
  SnatCpus, SnatFlows, SnatPeers,
  PeerOf, SportOf,          \* the peer and the source port of a flow
  SnatMinPort, SnatMaxPort, \* target->min_port, target->max_port
  SnatRetries,              \* SNAT_COLLISION_RETRIES
  SnatRandoms,              \* values get_prandom_u32() gives, of 16 bits
  NoFlow, NoPort

ASSUME FlowAssumption ==
  /\ PeerOf \in [SnatFlows -> SnatPeers]
  /\ SportOf \in [SnatFlows -> Nat]
  /\ NoFlow \notin SnatFlows
ASSUME PortAssumption ==
  /\ SnatMinPort \in Nat /\ SnatMaxPort \in Nat /\ SnatMinPort < SnatMaxPort
  /\ NoPort \notin SnatMinPort..SnatMaxPort
ASSUME RandomAssumption == SnatRandoms \subseteq Nat
ASSUME TriesAssumption == SnatRetries \in Nat \ {0}

SnatPorts == SnatMinPort..SnatMaxPort
SnatKeys == SnatPeers \X SnatPorts

VARIABLES
  ncpu,     \* what each CPU is doing: at, flow, port, tries
  nfwd,     \* SNAT entries: the port of a flow
  nrev,     \* RevSNAT entries: the flow of a peer and a port
  torn,     \* flows that lost their reverse entry to the LRU
  orphans   \* reverse entries that lost their flow's entry to the LRU
nvars == <<ncpu, nfwd, nrev, torn, orphans>>

ClampPort(val) == (val % (SnatMaxPort - SnatMinPort)) + SnatMinPort
TryKeepPort(sport, rnd) == IF sport \in SnatPorts THEN sport ELSE ClampPort(rnd)

Asleep == [at |-> "idle", flow |-> NoFlow, port |-> NoPort, tries |-> 0]
Key(c) == <<PeerOf[ncpu[c].flow], ncpu[c].port>>
Goto(c, at) == ncpu' = [ncpu EXCEPT ![c].at = at]
Finish(c) == ncpu' = [ncpu EXCEPT ![c] = Asleep]

\* A packet of f: handle_mapping uses the entry it finds, or looks for a port.
SnatPacket(c, f, rnd) ==
  /\ ncpu[c].at = "idle"
  /\ nfwd[f] = NoPort
  /\ ncpu' = [ncpu EXCEPT ![c] = [at |-> "probe", flow |-> f,
                                  port |-> TryKeepPort(SportOf[f], rnd), tries |-> 0]]
  /\ UNCHANGED <<nfwd, nrev, torn, orphans>>

\* A random port the second time, then successors in 16 bits.
NextPort(r, rnd) == ClampPort(IF r.tries = 0 THEN rnd ELSE (r.port + 1) % 65536)
\* One turn of the loop: the port is free, or the next one is tried, or the
\* packet is dropped.
SnatProbe(c, rnd) ==
  /\ ncpu[c].at = "probe"
  /\ IF nrev[Key(c)] = NoFlow THEN Goto(c, "insert_rev")
     ELSE IF ncpu[c].tries + 1 = SnatRetries THEN Finish(c)
     ELSE ncpu' = [ncpu EXCEPT ![c] = [at |-> "probe", flow |-> ncpu[c].flow,
                                       port |-> NextPort(ncpu[c], rnd), tries |-> ncpu[c].tries + 1]]
  /\ UNCHANGED <<nfwd, nrev, torn, orphans>>

\* Mutant: the entry is written over another that has appeared meanwhile.
SnatInsertRevAny(c) ==
  /\ ncpu[c].at = "insert_rev"
  /\ Goto(c, "insert_fwd")
  /\ nrev' = [nrev EXCEPT ![Key(c)] = ncpu[c].flow]
  /\ UNCHANGED <<nfwd, torn, orphans>>
\* __snat_update, BPF_NOEXIST: a port another CPU has taken since is refused
\* and the packet dropped; so it is when the map has no room.
SnatInsertRev(c) ==
  /\ ncpu[c].at = "insert_rev"
  /\ \/ /\ nrev[Key(c)] = NoFlow
        /\ Goto(c, "insert_fwd")
        /\ nrev' = [nrev EXCEPT ![Key(c)] = ncpu[c].flow]
     \/ Finish(c) /\ UNCHANGED nrev
  /\ UNCHANGED <<nfwd, torn, orphans>>

\* Mutant: the reverse entry is left behind when the second is refused.
SnatInsertFwdKeeps(c) ==
  /\ ncpu[c].at = "insert_fwd"
  /\ \/ /\ nfwd[ncpu[c].flow] = NoPort
        /\ nfwd' = [nfwd EXCEPT ![ncpu[c].flow] = ncpu[c].port]
        /\ torn' = torn \ {ncpu[c].flow}
     \/ UNCHANGED <<nfwd, torn>>
  /\ Finish(c)
  /\ UNCHANGED <<nrev, orphans>>
\* The second entry: refused when another CPU has given the flow a port, or
\* for lack of room.
SnatInsertFwd(c) ==
  /\ ncpu[c].at = "insert_fwd"
  /\ \/ /\ nfwd[ncpu[c].flow] = NoPort
        /\ nfwd' = [nfwd EXCEPT ![ncpu[c].flow] = ncpu[c].port]
        /\ torn' = torn \ {ncpu[c].flow}
        /\ Finish(c)
     \/ Goto(c, "undo") /\ UNCHANGED <<nfwd, torn>>
  /\ UNCHANGED <<nrev, orphans>>
\* map_delete_elem removes what is at the key now.
SnatUndo(c) ==
  /\ ncpu[c].at = "undo"
  /\ nrev' = [nrev EXCEPT ![Key(c)] = NoFlow]
  /\ Finish(c)
  /\ UNCHANGED <<nfwd, torn, orphans>>

(***************************************************************************)
(* The map is an LRU hash: either half of a pair may go when it is full,   *)
(* though not an entry a CPU has just written.  The agent removes both     *)
(* halves of an expired connection, one after the other, in the same way.  *)
(***************************************************************************)
FreshKeys == {Key(c) : c \in {d \in SnatCpus : ncpu[d].at \in {"insert_fwd", "undo"}}}
SnatEvictRev(k) ==
  /\ nrev[k] # NoFlow /\ k \notin FreshKeys
  /\ nrev' = [nrev EXCEPT ![k] = NoFlow]
  /\ torn' = IF nfwd[nrev[k]] = k[2] THEN torn \cup {nrev[k]} ELSE torn
  /\ orphans' = orphans \ {k}
  /\ UNCHANGED <<ncpu, nfwd>>
SnatEvictFwd(f) ==
  /\ nfwd[f] # NoPort
  /\ nfwd' = [nfwd EXCEPT ![f] = NoPort]
  /\ orphans' = IF f \in torn THEN orphans ELSE orphans \cup {<<PeerOf[f], nfwd[f]>>}
  /\ torn' = torn \ {f}
  /\ UNCHANGED <<ncpu, nrev>>

SnatInit ==
  /\ ncpu = [c \in SnatCpus |-> Asleep]
  /\ nfwd = [f \in SnatFlows |-> NoPort]
  /\ nrev = [k \in SnatKeys |-> NoFlow]
  /\ torn = {} /\ orphans = {}
SnatNext ==
  \/ \E c \in SnatCpus :
       \/ \E rnd \in SnatRandoms : (\E f \in SnatFlows : SnatPacket(c, f, rnd)) \/ SnatProbe(c, rnd)
       \/ SnatInsertRev(c) \/ SnatInsertFwd(c) \/ SnatUndo(c)
  \/ \E k \in SnatKeys : SnatEvictRev(k)
  \/ \E f \in SnatFlows : SnatEvictFwd(f)
SnatSpec == SnatInit /\ [][SnatNext]_nvars

-----------------------------------------------------------------------------
(* Properties.                                                             *)

SnatTypeOK ==
  /\ ncpu \in [SnatCpus -> [at : {"idle", "probe", "insert_rev", "insert_fwd", "undo"},
                            flow : SnatFlows \cup {NoFlow}, port : SnatPorts \cup {NoPort}, tries : Nat]]
  /\ \A c \in SnatCpus : ncpu[c].at # "idle" => ncpu[c].flow \in SnatFlows /\ ncpu[c].port \in SnatPorts
  /\ nfwd \in [SnatFlows -> SnatPorts \cup {NoPort}]
  /\ nrev \in [SnatKeys -> SnatFlows \cup {NoFlow}]
  /\ torn \subseteq SnatFlows
  /\ orphans \subseteq SnatKeys

(***************************************************************************)
(* The replies to a flow come back to it: the reverse entry of the port it *)
(* was given names it, unless the LRU took that entry.  So no two flows to *)
(* a peer leave from one port, however many CPUs look for ports at once.   *)
(***************************************************************************)
RepliesComeBack ==
  \A f \in SnatFlows : nfwd[f] # NoPort /\ f \notin torn => nrev[<<PeerOf[f], nfwd[f]>>] = f

(***************************************************************************)
(* No port leaks: a reverse entry belongs to a flow that uses the port, to *)
(* a CPU that is about to say so or to take it back, or the LRU took the   *)
(* other half.  A lost race leaves nothing behind.                         *)
(***************************************************************************)
NoPortLeaks ==
  \A k \in SnatKeys : nrev[k] # NoFlow =>
    nfwd[nrev[k]] = k[2] \/ k \in FreshKeys \/ k \in orphans
=============================================================================
