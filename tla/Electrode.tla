------------------------------- MODULE Electrode -------------------------------
(***************************************************************************)
(* Electrode (examples/electrode/fast_kern.c): parts of viewstamped        *)
(* replication in the kernel.  A follower buffers a Prepare for user space *)
(* and acknowledges it, and the leader's kernel is to let only the         *)
(* acknowledgement through that completes a quorum.                        *)
(*                                                                         *)
(* A tail call ends a program, and CPUs run programs side by side on the   *)
(* maps of their replica, so each program of a chain is a step.  The       *)
(* network loses, duplicates and reorders.  The broadcast program of the   *)
(* leader is not in this file, only in cross_prog's (module CrossProgram): *)
(* here the leader's user space sends, and nothing opens an entry of the   *)
(* quorum map.                                                             *)
(***************************************************************************)
EXTENDS Naturals, FiniteSets

CONSTANTS
  CLUSTER_SIZE, QUORUM_BITSET_ENTRY, MAX_OPS,
  ECpus,            \* CPUs of each replica
  EOpts,            \* FAST_REPLY, FAST_QUORUM_PRUNE
  EPort,            \* port of the leader in map_configure, as stored
  EFrames,          \* for each follower, what the frames it sends begin with
  EStray,           \* packets of other views, senders and protocols
  MaxElectrodeSteps, ENone

QUORUM_SIZE == (CLUSTER_SIZE + 1) \div 2
ELeader == 0
EView == 1
EFollowers == 1..CLUSTER_SIZE - 1

(***************************************************************************)
(* Packets that are not of this view's exchange: a follower may get any    *)
(* packet that is not an acknowledgement; those go to the leader only.     *)
(***************************************************************************)
ASSUME ElectrodeAssumption ==
  /\ CLUSTER_SIZE \in Nat \ {0} /\ QUORUM_BITSET_ENTRY \in Nat \ {0} /\ MAX_OPS \in Nat
  /\ MaxElectrodeSteps \in Nat
  /\ EFrames \in [EFollowers -> [view : Nat, opnum : Nat, idx : Nat]]
  /\ \A p \in EStray :
       /\ p.view \in Nat /\ p.start \in Nat /\ p.last \in Nat
       /\ p.to \in EFollowers /\ p.type # "PrepareOK"

VARIABLES
  enet,     \* packets that have been sent
  erep,     \* the maps of each replica, and what its user space was given
  ecpu,     \* program to run next and its packet, for each CPU of a replica
  eleft
evars == <<enet, erep, ecpu, eleft>>

\* The checks of fastPaxos_main let only one protocol through, and a port
\* whose two bytes read 12345 without ntohs.
TakenProtocol == 10
TakenPort == 12345
UDP == 17

EPrepare(view, start, last, size, to) ==
  [type |-> "Prepare", view |-> view, start |-> start, last |-> last, size |-> size, idx |-> 0, to |-> to,
   proto |-> TakenProtocol, port |-> TakenPort]
EPrepareOK(view, op, idx, proto) ==
  [type |-> "PrepareOK", view |-> view, start |-> op, last |-> op, size |-> "fits", idx |-> idx, to |-> ELeader,
   proto |-> proto, port |-> EPort]

-----------------------------------------------------------------------------
(* Programs, on s: the maps of the replica, next (the program that is      *)
(* called) and tx (the packet sent back).                                  *)

XdpPass(s, p) == [s EXCEPT !.next = "", !.up = s.up \cup {p}]
XdpDrop(s) == [s EXCEPT !.next = ""]
\* A slot of map_progs_xdp that user space has not filled: the call returns.
TailCall(s, prog, p) == IF prog \in s.progs THEN [s EXCEPT !.next = prog] ELSE XdpPass(s, p)

compute_message_type(p) == IF p.type \in {"Prepare", "PrepareOK"} THEN p.type ELSE "none"

fastPaxos_main(s, p) ==
  IF p.port # TakenPort \/ p.proto # TakenProtocol THEN XdpPass(s, p)
  ELSE IF compute_message_type(p) = "Prepare" /\ "FAST_REPLY" \in EOpts THEN TailCall(s, "HandlePrepare", p)
  ELSE IF compute_message_type(p) = "PrepareOK" /\ "FAST_QUORUM_PRUNE" \in EOpts
  THEN TailCall([s EXCEPT !.msg_lastOp = "offset"], "HandlePrepareOK", p)
  ELSE XdpPass(s, p)

\* An acknowledgement that reads as h is counted; the shift of a 32-bit 1
\* keeps five bits of its distance.
CountAck(s, p, h) ==
  LET i == h.opnum % QUORUM_BITSET_ENTRY
      bits == s.quorum[i].bitset \cup {h.idx % 32}
      s1 == [s EXCEPT !.quorum[i].bitset = bits]
  IN  IF s.quorum[i].view # h.view \/ s.quorum[i].opnum # h.opnum THEN XdpPass(s, p)
      ELSE IF Cardinality(bits) # QUORUM_SIZE - 1 THEN XdpDrop(s1)
      ELSE XdpPass(s1, p)
\* No program has moved the head of the packet: view, opnum and replicaIdx are
\* read from the two MAC addresses.
FrameStart(p) == EFrames[p.idx]
HandlePrepareOK_main(s, p) == CountAck(s, p, FrameStart(p))

\* Mutant: a gap before the batch is not noticed.
HandlePrepare_main_gap(s, p) ==
  IF p.size = "short" THEN XdpPass(s, p)
  ELSE IF ~s.normal \/ p.view < s.view THEN XdpDrop(s)
  ELSE IF p.view > s.view THEN XdpPass(s, p)
  ELSE IF p.last <= s.lastOp THEN TailCall(s, "PrepareFastReply", p)
  ELSE TailCall([s EXCEPT !.msg_lastOp = p.last, !.lastOp = p.last], "WriteBuffer", p)
HandlePrepare_main(s, p) ==
  IF p.size = "short" THEN XdpPass(s, p)
  ELSE IF ~s.normal \/ p.view < s.view THEN XdpDrop(s)
  ELSE IF p.view > s.view THEN XdpPass(s, p)
  ELSE IF p.last <= s.lastOp THEN TailCall(s, "PrepareFastReply", p)
  ELSE IF p.start > s.lastOp + 1 THEN XdpPass(s, p)
  ELSE TailCall([s EXCEPT !.msg_lastOp = p.last, !.lastOp = p.last], "WriteBuffer", p)

\* room: bpf_ringbuf_reserve succeeds.
WriteBuffer_main(s, p, room) ==
  IF p.size = "long" \/ ~room THEN XdpPass(s, p)
  ELSE TailCall([s EXCEPT !.ring = s.ring \cup {p}], "PrepareFastReply", p)

\* The reply has the view and the operation the maps hold now.
PrepareFastReply_main(s, p) ==
  IF p.size = "tight" THEN XdpPass(s, p)
  ELSE [s EXCEPT !.next = "", !.tx = {EPrepareOK(s.view, s.msg_lastOp, s.myIdx, p.proto)}]

RunProgram(s, p, room) ==
  CASE s.next = "HandlePrepare" -> HandlePrepare_main(s, p)
    [] s.next = "HandlePrepareOK" -> HandlePrepareOK_main(s, p)
    [] s.next = "WriteBuffer" -> WriteBuffer_main(s, p, room)
    [] OTHER -> PrepareFastReply_main(s, p)

-----------------------------------------------------------------------------
(* Actions.                                                                *)

ETick == eleft > 0 /\ eleft' = eleft - 1
EStore(r, s) == erep' = [erep EXCEPT ![r] = [s EXCEPT !.next = "", !.tx = {}]]

\* The leader sends operations start to last, new ones or again, in packets
\* that pass the checks.
ESend(start, last, size, to) ==
  /\ ETick
  /\ start <= last
  /\ enet' = enet \cup {EPrepare(EView, start, last, size, r) : r \in to}
  /\ UNCHANGED <<erep, ecpu>>

\* A packet arrives at a CPU.
EReceive(r, c, p) ==
  /\ ETick
  /\ ecpu[r][c].next = "" /\ p.to = r
  /\ LET s == fastPaxos_main(erep[r], p)
     IN  /\ EStore(r, s)
         /\ ecpu' = [ecpu EXCEPT ![r][c] = IF s.next = "" THEN @ ELSE [next |-> s.next, p |-> p]]
  /\ UNCHANGED enet
\* The next program of a chain.
ERun(r, c, room) ==
  /\ ecpu[r][c].next # ""
  /\ LET p == ecpu[r][c].p
         s == RunProgram([erep[r] EXCEPT !.next = ecpu[r][c].next], p, room)
     IN  /\ EStore(r, s)
         /\ enet' = enet \cup s.tx
         /\ ecpu' = [ecpu EXCEPT ![r][c] =
                       IF s.next = "" THEN [next |-> "", p |-> ENone] ELSE [next |-> s.next, p |-> p]]
  /\ UNCHANGED eleft

EOpsOf(ps) == UNION {p.start..p.last : p \in {q \in ps : q.type = "Prepare" /\ q.view = EView}}
\* Operations the user space of follower r has, or will have when its CPUs
\* are done.
EHeld(r) == EOpsOf(erep[r].up \cup erep[r].ring)
EInHand(r) == EOpsOf({ecpu[r][c].p : c \in {d \in ECpus[r] : ecpu[r][d].next # ""}})

\* User space has caught up with what it was given, and says so in the map.
ECatchUp(r, n) ==
  /\ ETick
  /\ 1..n \subseteq EHeld(r)
  /\ erep' = [erep EXCEPT ![r].lastOp = n]
  /\ UNCHANGED <<enet, ecpu>>
\* It enters or leaves normal operation.
EStatus(r) ==
  /\ ETick
  /\ erep' = [erep EXCEPT ![r].normal = ~@]
  /\ UNCHANGED <<enet, ecpu>>

EMaps(r, progs) ==
  [myIdx |-> r, normal |-> TRUE, view |-> EView, lastOp |-> 0, msg_lastOp |-> 0,
   quorum |-> [i \in 0..QUORUM_BITSET_ENTRY - 1 |-> [view |-> 0, opnum |-> 0, bitset |-> {}]],
   ring |-> {}, progs |-> progs, up |-> {}, next |-> "", tx |-> {}]
EPrograms == {"HandlePrepare", "HandlePrepareOK", "WriteBuffer", "PrepareFastReply"}
ElectrodeInit ==
  /\ enet = EStray
  /\ \E progs \in {EPrograms, EPrograms \ {"WriteBuffer"}} :
       erep = [r \in 0..CLUSTER_SIZE - 1 |-> EMaps(r, progs)]
  /\ ecpu = [r \in 0..CLUSTER_SIZE - 1 |-> [c \in ECpus[r] |-> [next |-> "", p |-> ENone]]]
  /\ eleft = MaxElectrodeSteps
ElectrodeNext ==
  \/ \E start, last \in 1..MAX_OPS, size \in {"fits", "long", "tight"}, to \in SUBSET EFollowers :
       ESend(start, last, size, to)
  \/ \E r \in 0..CLUSTER_SIZE - 1 : \E c \in ECpus[r] :
       \/ \E p \in enet : EReceive(r, c, p)
       \/ \E room \in BOOLEAN : ERun(r, c, room)
  \/ \E r \in EFollowers :
       \/ \E n \in 0..MAX_OPS : ECatchUp(r, n)
       \/ EStatus(r)
ElectrodeSpec == ElectrodeInit /\ [][ElectrodeNext]_evars

-----------------------------------------------------------------------------
(***************************************************************************)
(* An acknowledgement that a follower's kernel sends is of operations it   *)
(* has, all of them, in user space or in the hands of a CPU that is about  *)
(* to pass them on, although the kernel answers before user space has seen *)
(* anything, answers repeated Prepares and takes the number from a map     *)
(* that other CPUs write between the programs of its own chain             *)
(* (HandlePrepare_main, WriteBuffer_main, PrepareFastReply_main).  It is   *)
(* still true of acknowledgements that are under way.                      *)
(***************************************************************************)
AcknowledgedIsHeld ==
  \A p \in enet : p.type = "PrepareOK" /\ p.view = EView =>
    1..p.last \subseteq EHeld(p.idx) \cup EInHand(p.idx)

\* "now data points to `fastPaxos header`" (fast_kern.c:312): what the
\* leader's kernel is about to count an acknowledgement by is what it says.
ReadsTheMessage ==
  \A c \in ECpus[ELeader] :
    LET k == ecpu[ELeader][c]
    IN  k.next = "HandlePrepareOK" =>
          FrameStart(k.p) = [view |-> k.p.view, opnum |-> k.p.last, idx |-> k.p.idx]
=============================================================================
