-------------------------- MODULE CrossProgramProofs --------------------------
(***************************************************************************)
(* Proofs about Electrode, about Katran, and about the two on one hook     *)
(* (CrossProgram).                                                         *)
(*                                                                         *)
(* Electrode: what a follower's kernel acknowledges the follower has, for  *)
(* any number of replicas, CPUs and operations.                            *)
(*                                                                         *)
(* Katran, for any VIPs, rings, reals, switches and packets: a packet's    *)
(* run is one step of the model and a long operator, so the proof follows  *)
(* it stage by stage: each stage has a predicate on the record k and a     *)
(* lemma that leads from one to the next, up to what a whole run may do to *)
(* the connection table (Outcome).                                         *)
(***************************************************************************)
EXTENDS CrossProgram, FiniteSetTheorems, TLAPS

-----------------------------------------------------------------------------
(* ELECTRODE                                                               *)

Replicas == 0..CLUSTER_SIZE - 1
EEntry == [view : Nat, opnum : Nat, bitset : SUBSET (0..31)]
EFields == {"myIdx", "normal", "view", "lastOp", "msg_lastOp", "quorum", "ring", "progs", "up", "next", "tx"}
\* The maps of a replica.
IsRep(s) ==
  /\ DOMAIN s = EFields
  /\ s.myIdx \in Replicas /\ s.view = EView /\ s.lastOp \in Nat
  /\ s.quorum \in [0..QUORUM_BITSET_ENTRY - 1 -> EEntry]
\* A packet.
IsPacket(p) == p.view \in Nat /\ p.start \in Nat /\ p.last \in Nat

-----------------------------------------------------------------------------
(* What the programs do to the maps of a replica.                          *)

\* Nothing but what a packet passed up changes.
Same(s, t) ==
  /\ t.myIdx = s.myIdx /\ t.view = s.view /\ t.progs = s.progs /\ t.quorum = s.quorum
  /\ s.ring \subseteq t.ring /\ s.up \subseteq t.up

PassDoes(s, p, t) ==
  /\ IsRep(t) /\ Same(s, t) /\ t.next = "" /\ t.up = s.up \cup {p} /\ t.tx = s.tx
  /\ t.lastOp = s.lastOp /\ t.msg_lastOp = s.msg_lastOp /\ t.ring = s.ring
DropDoes(s, t) ==
  /\ IsRep(t) /\ Same(s, t) /\ t.next = "" /\ t.up = s.up /\ t.tx = s.tx
  /\ t.lastOp = s.lastOp /\ t.msg_lastOp = s.msg_lastOp /\ t.ring = s.ring
TailCallDoes(s, prog, p, t) ==
  /\ IsRep(t) /\ Same(s, t) /\ t.tx = s.tx
  /\ t.lastOp = s.lastOp /\ t.msg_lastOp = s.msg_lastOp /\ t.ring = s.ring
  /\ \/ prog \in s.progs /\ t.next = prog /\ t.up = s.up
     \/ prog \notin s.progs /\ t.next = "" /\ t.up = s.up \cup {p}

LEMMA PassEffect == ASSUME NEW s, IsRep(s), NEW p PROVE PassDoes(s, p, XdpPass(s, p))
BY DEF XdpPass, IsRep, EFields, Same, PassDoes

LEMMA DropEffect == ASSUME NEW s, IsRep(s) PROVE DropDoes(s, XdpDrop(s))
BY DEF XdpDrop, IsRep, EFields, Same, DropDoes

LEMMA TailCallEffect ==
  ASSUME NEW s, IsRep(s), NEW p, NEW prog PROVE TailCallDoes(s, prog, p, TailCall(s, prog, p))
<1>1. CASE prog \in s.progs
  BY <1>1 DEF TailCall, IsRep, EFields, Same, TailCallDoes
<1>2. CASE prog \notin s.progs
  <2>1. TailCall(s, prog, p) = XdpPass(s, p)
    BY <1>2 DEF TailCall
  <2> DEFINE v == XdpPass(s, p)
  <2>2. PassDoes(s, p, v)
    BY PassEffect
  <2> HIDE DEF v
  <2>3. TailCallDoes(s, prog, p, v)
    BY <1>2, <2>2 DEF PassDoes, TailCallDoes
  <2> QED BY <2>1, <2>3 DEF v
<1> QED BY <1>1, <1>2

\* A Prepare of the current view that can be answered.
Fresh(p) == p.type = "Prepare" /\ p.view = EView /\ p.size # "short"

\* What HandlePrepare does: the packet goes up or is dropped; or the
\* operations are there already; or they follow, and the packet is in
\* WriteBuffer's hands or goes up.
HandlePrepareDoes(s, p, t) ==
  /\ IsRep(t) /\ Same(s, t) /\ t.tx = s.tx /\ t.next \in {"", "PrepareFastReply", "WriteBuffer"}
  /\ t.next # "" => Fresh(p)
  /\ \/ t.lastOp = s.lastOp /\ t.msg_lastOp = s.msg_lastOp /\ t.next # "WriteBuffer"
     \/ /\ Fresh(p) /\ p.start <= s.lastOp + 1
        /\ t.lastOp = p.last /\ t.msg_lastOp = p.last
        /\ t.next = "WriteBuffer" \/ p \in t.up
\* What WriteBuffer does: the packet is in the ring buffer or goes up.
WriteBufferDoes(s, p, t) ==
  /\ IsRep(t) /\ Same(s, t) /\ t.tx = s.tx /\ t.next \in {"", "PrepareFastReply"}
  /\ t.lastOp = s.lastOp /\ t.msg_lastOp = s.msg_lastOp
  /\ p \in t.up \cup t.ring
\* What PrepareFastReply does: the answer is that of the maps.
FastReplyDoes(s, p, t) ==
  /\ IsRep(t) /\ Same(s, t) /\ t.next = "" /\ t.lastOp = s.lastOp /\ t.msg_lastOp = s.msg_lastOp
  /\ t.tx = s.tx \/ t.tx = {EPrepareOK(s.view, s.msg_lastOp, s.myIdx, p.proto)}

LEMMA HandlePrepareEffect ==
  ASSUME NEW s, IsRep(s), NEW p, IsPacket(p), p.type = "Prepare"
  PROVE  HandlePrepareDoes(s, p, HandlePrepare_main(s, p))
<1> DEFINE t == HandlePrepare_main(s, p)
           u == [s EXCEPT !.msg_lastOp = p.last, !.lastOp = p.last]
<1>0. s.view = EView /\ s.lastOp \in Nat /\ p.last \in Nat /\ p.start \in Nat /\ p.view \in Nat /\ EView \in Nat
  BY DEF IsRep, EFields, IsPacket, EView
<1>a. HandlePrepareDoes(s, p, XdpPass(s, p))
  <2> DEFINE v == XdpPass(s, p)
  <2>1. PassDoes(s, p, v)
    BY PassEffect
  <2> HIDE DEF v
  <2>2. HandlePrepareDoes(s, p, v)
    BY <2>1 DEF HandlePrepareDoes, PassDoes
  <2> QED BY <2>2 DEF v
<1>b. HandlePrepareDoes(s, p, XdpDrop(s))
  <2> DEFINE v == XdpDrop(s)
  <2>1. DropDoes(s, v)
    BY DropEffect
  <2> HIDE DEF v
  <2>2. HandlePrepareDoes(s, p, v)
    BY <2>1 DEF HandlePrepareDoes, DropDoes
  <2> QED BY <2>2 DEF v
<1>1. CASE p.size = "short" \/ (s.normal /\ ~(p.view < s.view) /\ p.view > s.view)
  <2>1. t = XdpPass(s, p)
    BY <1>0, <1>1 DEF HandlePrepare_main
  <2> QED BY <1>a, <2>1
<1>2. CASE p.size # "short" /\ (~s.normal \/ p.view < s.view)
  <2>1. t = XdpDrop(s)
    BY <1>2 DEF HandlePrepare_main
  <2> QED BY <1>b, <2>1
<1>3. CASE p.size # "short" /\ s.normal /\ p.view = s.view
  <2>0. Fresh(p) /\ ~(p.view < s.view) /\ ~(p.view > s.view)
    BY <1>0, <1>3 DEF Fresh
  <2>1. CASE p.last <= s.lastOp
    <3> DEFINE v == TailCall(s, "PrepareFastReply", p)
    <3>1. t = v
      BY <1>3, <2>0, <2>1 DEF HandlePrepare_main
    <3>2. TailCallDoes(s, "PrepareFastReply", p, v)
      BY TailCallEffect
    <3> HIDE DEF v
    <3>3. HandlePrepareDoes(s, p, v)
      BY <2>0, <3>2 DEF HandlePrepareDoes, TailCallDoes
    <3> QED BY <3>1, <3>3
  <2>2. CASE ~(p.last <= s.lastOp) /\ p.start > s.lastOp + 1
    <3>1. t = XdpPass(s, p)
      BY <1>3, <2>0, <2>2 DEF HandlePrepare_main
    <3> QED BY <1>a, <3>1
  <2>3. CASE ~(p.last <= s.lastOp) /\ ~(p.start > s.lastOp + 1)
    <3> DEFINE v == TailCall(u, "WriteBuffer", p)
    <3>1. t = v
      BY <1>3, <2>0, <2>3 DEF HandlePrepare_main
    <3>2. /\ IsRep(u) /\ Same(s, u) /\ u.lastOp = p.last /\ u.msg_lastOp = p.last /\ u.tx = s.tx
          /\ u.up = s.up /\ u.ring = s.ring
      <4>1. /\ DOMAIN u = EFields /\ u.myIdx = s.myIdx /\ u.view = s.view /\ u.quorum = s.quorum
            /\ u.progs = s.progs /\ u.ring = s.ring /\ u.up = s.up /\ u.tx = s.tx
            /\ u.lastOp = p.last /\ u.msg_lastOp = p.last
        BY DEF IsRep, EFields
      <4> HIDE DEF u
      <4> QED BY <1>0, <4>1 DEF IsRep, Same
    <3>3. p.start <= s.lastOp + 1
      BY <1>0, <2>3
    <3> HIDE DEF u
    <3>4. TailCallDoes(u, "WriteBuffer", p, v)
      BY <3>2, TailCallEffect
    <3> HIDE DEF v
    <3>5. Same(s, v)
      BY <3>2, <3>4 DEF Same, TailCallDoes
    <3>6. HandlePrepareDoes(s, p, v)
      BY <2>0, <3>2, <3>3, <3>4, <3>5 DEF HandlePrepareDoes, TailCallDoes
    <3> QED BY <3>1, <3>6
  <2> QED BY <2>1, <2>2, <2>3
<1> QED
  <2>1. p.view < s.view \/ p.view > s.view \/ p.view = s.view
    BY <1>0
  <2> QED BY <1>1, <1>2, <1>3, <2>1

LEMMA WriteBufferEffect ==
  ASSUME NEW s, IsRep(s), NEW p, NEW room
  PROVE  WriteBufferDoes(s, p, WriteBuffer_main(s, p, room))
<1> DEFINE t == WriteBuffer_main(s, p, room)
           u == [s EXCEPT !.ring = s.ring \cup {p}]
<1>1. CASE p.size = "long" \/ ~room
  <2>1. t = XdpPass(s, p)
    BY <1>1 DEF WriteBuffer_main
  <2> DEFINE v == XdpPass(s, p)
  <2>2. PassDoes(s, p, v)
    BY PassEffect
  <2> HIDE DEF v
  <2>3. WriteBufferDoes(s, p, v)
    BY <2>2 DEF WriteBufferDoes, PassDoes
  <2> QED BY <2>1, <2>3 DEF v
<1>2. CASE ~(p.size = "long" \/ ~room)
  <2> DEFINE v == TailCall(u, "PrepareFastReply", p)
  <2>1. t = v
    BY <1>2 DEF WriteBuffer_main
  <2>2. /\ IsRep(u) /\ Same(s, u) /\ u.lastOp = s.lastOp /\ u.msg_lastOp = s.msg_lastOp /\ u.tx = s.tx
        /\ u.up = s.up /\ u.ring = s.ring \cup {p}
    BY DEF IsRep, EFields, Same
  <2> HIDE DEF u
  <2>3. TailCallDoes(u, "PrepareFastReply", p, v)
    BY <2>2, TailCallEffect
  <2> HIDE DEF v
  <2>4. Same(s, v)
    BY <2>2, <2>3 DEF Same, TailCallDoes
  <2>5. WriteBufferDoes(s, p, v)
    BY <2>2, <2>3, <2>4 DEF WriteBufferDoes, TailCallDoes
  <2> QED BY <2>1, <2>5
<1> QED BY <1>1, <1>2

LEMMA FastReplyEffect ==
  ASSUME NEW s, IsRep(s), NEW p
  PROVE  FastReplyDoes(s, p, PrepareFastReply_main(s, p))
<1> DEFINE t == PrepareFastReply_main(s, p)
<1>1. CASE p.size = "tight"
  <2>1. t = XdpPass(s, p)
    BY <1>1 DEF PrepareFastReply_main
  <2> DEFINE v == XdpPass(s, p)
  <2>2. PassDoes(s, p, v)
    BY PassEffect
  <2> HIDE DEF v
  <2>3. FastReplyDoes(s, p, v)
    BY <2>2 DEF FastReplyDoes, PassDoes
  <2> QED BY <2>1, <2>3 DEF v
<1>2. CASE p.size # "tight"
  <2>2. t = [s EXCEPT !.next = "", !.tx = {EPrepareOK(s.view, s.msg_lastOp, s.myIdx, p.proto)}]
    BY <1>2 DEF PrepareFastReply_main
  <2> QED BY <2>2 DEF IsRep, EFields, Same, FastReplyDoes
<1> QED BY <1>1, <1>2

\* What HandlePrepareOK does, whatever it takes an acknowledgement for: it
\* writes no map but that of quorums, and sends nothing.
CountAckDoes(s, t) ==
  IsRep(t) /\ t.next = "" /\ t.tx = s.tx /\ t.myIdx = s.myIdx /\ t.progs = s.progs

LEMMA CountAckEffect ==
  ASSUME NEW s, IsRep(s), NEW p, NEW h, h.opnum \in Nat, h.idx \in Nat
  PROVE  CountAckDoes(s, CountAck(s, p, h))
<1> DEFINE i == h.opnum % QUORUM_BITSET_ENTRY
           e == s.quorum[i]
           bits == e.bitset \cup {h.idx % 32}
           f == [e EXCEPT !.bitset = bits]
           s1 == [s EXCEPT !.quorum[i].bitset = bits]
           q == [s.quorum EXCEPT ![i] = f]
<1>1. i \in 0..QUORUM_BITSET_ENTRY - 1 /\ h.idx % 32 \in 0..31
  BY ElectrodeAssumption
<1>2. s.quorum \in [0..QUORUM_BITSET_ENTRY - 1 -> EEntry]
  BY DEF IsRep
<1>3. f \in EEntry
  <2>1. e \in EEntry
    BY <1>1, <1>2
  <2> HIDE DEF e, i
  <2> QED BY <1>1, <2>1 DEF EEntry
<1>4. s1 = [s EXCEPT !.quorum = q]
  OBVIOUS
<1>5. q \in [0..QUORUM_BITSET_ENTRY - 1 -> EEntry]
  <2> HIDE DEF i, f
  <2> QED BY <1>2, <1>3
<1>6. /\ IsRep(s1) /\ s1.myIdx = s.myIdx /\ s1.progs = s.progs /\ s1.tx = s.tx
  <2> HIDE DEF q, s1
  <2> QED BY <1>4, <1>5 DEF IsRep, EFields
<1> HIDE DEF s1, bits
<1>7. CountAckDoes(s, XdpPass(s, p))
  <2>1. PICK v : v = XdpPass(s, p) OBVIOUS
  <2>2. PassDoes(s, p, v)
    BY <2>1, PassEffect
  <2>3. CountAckDoes(s, v)
    BY <2>2 DEF PassDoes, Same, CountAckDoes
  <2> QED BY <2>1, <2>3
<1>8. CountAckDoes(s, XdpPass(s1, p))
  <2>1. PICK v : v = XdpPass(s1, p) OBVIOUS
  <2>2. PassDoes(s1, p, v)
    BY <1>6, <2>1, PassEffect
  <2>3. CountAckDoes(s, v)
    BY <1>6, <2>2 DEF PassDoes, Same, CountAckDoes
  <2> QED BY <2>1, <2>3
<1>9. CountAckDoes(s, XdpDrop(s1))
  <2>1. PICK v : v = XdpDrop(s1) OBVIOUS
  <2>2. DropDoes(s1, v)
    BY <1>6, <2>1, DropEffect
  <2>3. CountAckDoes(s, v)
    BY <1>6, <2>2 DEF DropDoes, Same, CountAckDoes
  <2> QED BY <2>1, <2>3
<1>10. CountAck(s, p, h) \in {XdpPass(s, p), XdpPass(s1, p), XdpDrop(s1)}
  BY DEF CountAck, s1, bits
<1> QED BY <1>7, <1>8, <1>9, <1>10

\* What is stored when a program is done.
StoreDoes(t, u) ==
  /\ IsRep(u) /\ Same(t, u) /\ u.up = t.up /\ u.ring = t.ring /\ u.next = "" /\ u.tx = {}
  /\ u.lastOp = t.lastOp /\ u.msg_lastOp = t.msg_lastOp
LEMMA StoreEffect == ASSUME NEW t, IsRep(t) PROVE StoreDoes(t, [t EXCEPT !.next = "", !.tx = {}])
BY DEF StoreDoes, IsRep, EFields, Same

-----------------------------------------------------------------------------
(* The inductive invariant.                                                *)

\* Packets the user space of r has been given or will be: those that are
\* between the acknowledgement of an operation in the maps and the ring
\* buffer are in WriteBuffer's hands.
Given(r) ==
  erep[r].up \cup erep[r].ring \cup
  {ecpu[r][c].p : c \in {d \in ECpus[r] : ecpu[r][d].next = "WriteBuffer"}}
\* r has every operation up to n.
Backed(r, n) ==
  \A x \in 1..n : \E q \in Given(r) : q.type = "Prepare" /\ q.view = EView /\ x \in q.start..q.last
ShapeInv ==
  /\ DOMAIN erep = Replicas /\ DOMAIN ecpu = Replicas
  /\ \A r \in Replicas :
       /\ IsRep(erep[r]) /\ erep[r].next = "" /\ erep[r].tx = {} /\ erep[r].myIdx = r
       /\ erep[r].progs \in {EPrograms, EPrograms \ {"WriteBuffer"}}
       /\ DOMAIN ecpu[r] = ECpus[r]
\* An acknowledgement goes to the leader and is of operations the sender has.
GoodPacket(p) ==
  /\ IsPacket(p)
  /\ p.type = "PrepareOK" => p.to = ELeader /\ p.idx \in EFollowers /\ Backed(p.idx, p.last)
  /\ p.type # "PrepareOK" => p.to \in EFollowers
NetInv == \A p \in enet : GoodPacket(p)
\* The leader's CPUs handle acknowledgements, those of followers Prepares.
FollowerCpu(r, k) ==
  /\ k.p \in enet /\ k.p.to = r /\ k.p.type = "Prepare"
  /\ k.next \in {"HandlePrepare", "WriteBuffer", "PrepareFastReply"}
  /\ k.next # "HandlePrepare" => Fresh(k.p)
CpuInv ==
  \A r \in Replicas : \A c \in ECpus[r] :
    LET k == ecpu[r][c]
    IN  k.next # "" =>
          /\ r = ELeader => k.next = "HandlePrepareOK" /\ k.p \in enet /\ k.p.to = r
          /\ r # ELeader => FollowerCpu(r, k)
\* A follower has what its maps say.
FollowInv ==
  \A r \in EFollowers :
    /\ Backed(r, erep[r].lastOp)
    /\ erep[r].msg_lastOp \in Nat
    /\ Backed(r, erep[r].msg_lastOp)

ElectrodeInv == ShapeInv /\ NetInv /\ CpuInv /\ FollowInv

-----------------------------------------------------------------------------
(* What grows.                                                             *)

Grows == \A r \in EFollowers : Given(r) \subseteq Given(r)'

LEMMA BackedGrows ==
  ASSUME Grows, NEW r \in EFollowers, NEW n, Backed(r, n)
  PROVE  Backed(r, n)'
<1>1. Given(r) \subseteq Given(r)'
  BY DEF Grows
<1>2. \A x \in 1..n : \E q \in Given(r)' : q.type = "Prepare" /\ q.view = EView /\ x \in q.start..q.last
  BY <1>1 DEF Backed
<1> HIDE DEF Grows
<1> QED BY <1>2 DEF Backed

LEMMA FollowersAreReplicas == EFollowers \subseteq Replicas /\ ELeader \in Replicas /\ ELeader \notin EFollowers
BY ElectrodeAssumption DEF EFollowers, Replicas, ELeader

LEMMA LeaderOrFollower == Replicas = EFollowers \cup {ELeader}
<1>1. CLUSTER_SIZE \in Nat \ {0}
  BY ElectrodeAssumption
<1> QED BY <1>1 DEF EFollowers, Replicas, ELeader

LEMMA PacketKept ==
  ASSUME Grows, NEW p, GoodPacket(p)
  PROVE  GoodPacket(p)'
<1>1. p.type = "PrepareOK" => Backed(p.idx, p.last)'
  BY BackedGrows DEF GoodPacket
<1> QED BY <1>1 DEF GoodPacket

-----------------------------------------------------------------------------
(* The steps of a follower.                                                *)

\* What a step of follower r does: its maps become w, its CPU c (if one is
\* named) goes on with k, and packets of new are sent.
FollowerStep(r, w, new) ==
  /\ erep' = [erep EXCEPT ![r] = w]
  /\ IsRep(w) /\ Same(erep[r], w) /\ w.next = "" /\ w.tx = {}
  /\ enet' = enet \cup new
  /\ DOMAIN ecpu' = Replicas
  /\ \A q \in Replicas : q # r => ecpu'[q] = ecpu[q]
  /\ DOMAIN ecpu'[r] = ECpus[r]

LEMMA FollowerKeeps ==
  ASSUME ElectrodeInv, NEW r \in EFollowers, NEW w, NEW new, FollowerStep(r, w, new),
         Given(r) \subseteq Given(r)'
  PROVE  /\ ShapeInv' /\ Grows
         /\ \A p \in enet : GoodPacket(p)'
         /\ erep'[r] = w
<1>1. r \in Replicas /\ r # ELeader /\ ELeader \in Replicas /\ EFollowers \subseteq Replicas
  BY FollowersAreReplicas
<1>2. DOMAIN erep = Replicas
  BY DEF ElectrodeInv, ShapeInv
<1>3. DOMAIN erep' = Replicas /\ erep'[r] = w /\ \A q \in Replicas : q # r => erep'[q] = erep[q]
  BY <1>1, <1>2 DEF FollowerStep
<1>4. Grows
  <2> SUFFICES ASSUME NEW q \in EFollowers PROVE Given(q) \subseteq Given(q)'
    BY DEF Grows
  <2>1. CASE q = r
    BY <2>1
  <2>2. CASE q # r
    <3>1. erep'[q] = erep[q] /\ ecpu'[q] = ecpu[q]
      BY <1>1, <1>3, <2>2 DEF FollowerStep
    <3> QED BY <3>1 DEF Given
  <2> QED BY <2>1, <2>2
<1>6. ShapeInv'
  <2>1. ASSUME NEW q \in Replicas
        PROVE  /\ IsRep(erep'[q]) /\ erep'[q].next = "" /\ erep'[q].tx = {} /\ erep'[q].myIdx = q
               /\ erep'[q].progs \in {EPrograms, EPrograms \ {"WriteBuffer"}}
               /\ DOMAIN ecpu'[q] = ECpus[q]
    <3>1. /\ IsRep(erep[q]) /\ erep[q].next = "" /\ erep[q].tx = {} /\ erep[q].myIdx = q
          /\ erep[q].progs \in {EPrograms, EPrograms \ {"WriteBuffer"}}
          /\ DOMAIN ecpu[q] = ECpus[q]
      BY DEF ElectrodeInv, ShapeInv
    <3>2. CASE q = r
      BY <1>3, <3>1, <3>2 DEF FollowerStep, Same
    <3>3. CASE q # r
      BY <1>3, <3>1, <3>3 DEF FollowerStep
    <3> QED BY <3>2, <3>3
  <2>2. DOMAIN ecpu' = Replicas
    BY DEF FollowerStep
  <2> QED BY <1>3, <2>1, <2>2 DEF ShapeInv
<1>7. \A p \in enet : GoodPacket(p)'
  BY <1>4, PacketKept DEF ElectrodeInv, NetInv
<1> QED BY <1>3, <1>4, <1>6, <1>7

\* The other CPUs of a follower hold the packets they held, and CPU c goes on
\* with k or is free.
CpuStep(r, c, k) ==
  /\ \A d \in ECpus[r] : d # c => ecpu'[r][d] = ecpu[r][d]
  /\ ecpu'[r][c] = k
LEMMA CpuKeeps ==
  ASSUME ElectrodeInv, NEW r \in EFollowers, NEW w, NEW new, FollowerStep(r, w, new),
         NEW c \in ECpus[r], NEW k, CpuStep(r, c, k),
         k.next # "" => FollowerCpu(r, k)
  PROVE  CpuInv'
<1>1. r \in Replicas /\ r # ELeader
  BY FollowersAreReplicas
<1>2. enet \subseteq enet' /\ \A q \in Replicas : q # r => ecpu'[q] = ecpu[q]
  BY DEF FollowerStep
<1> DEFINE OK(q, m, net) ==
             m.next # "" =>
               /\ q = ELeader => m.next = "HandlePrepareOK" /\ m.p \in net /\ m.p.to = q
               /\ q # ELeader =>
                    /\ m.p \in net /\ m.p.to = q /\ m.p.type = "Prepare"
                    /\ m.next \in {"HandlePrepare", "WriteBuffer", "PrepareFastReply"}
                    /\ m.next # "HandlePrepare" => Fresh(m.p)
<1>3. \A q \in Replicas : \A d \in ECpus[q] : OK(q, ecpu[q][d], enet)
  BY DEF ElectrodeInv, CpuInv, FollowerCpu
<1>4. OK(r, k, enet)
  BY <1>1 DEF FollowerCpu
<1>5. \A q, m : OK(q, m, enet) => OK(q, m, enet')
  BY <1>2
<1>6. ASSUME NEW q \in Replicas, NEW d \in ECpus[q] PROVE OK(q, ecpu'[q][d], enet')
  <2> HIDE DEF OK
  <2>1. CASE q # r
    BY <1>2, <1>3, <1>5, <2>1
  <2>2. CASE q = r /\ d # c
    BY <1>3, <1>5, <2>2 DEF CpuStep
  <2>3. CASE q = r /\ d = c
    BY <1>4, <1>5, <2>3 DEF CpuStep
  <2> QED BY <2>1, <2>2, <2>3
<1> QED BY <1>6 DEF CpuInv, FollowerCpu

\* A follower other than r has what it had.
LEMMA OthersFollow ==
  ASSUME ElectrodeInv, NEW r \in EFollowers, NEW w, NEW new, FollowerStep(r, w, new),
         Given(r) \subseteq Given(r)',
         w.msg_lastOp \in Nat, Backed(r, w.lastOp)', Backed(r, w.msg_lastOp)'
  PROVE  FollowInv'
<1>1. Grows /\ erep'[r] = w
  BY FollowerKeeps
<1>2. ASSUME NEW q \in EFollowers
      PROVE  /\ \A n : n = erep'[q].lastOp => Backed(q, n)'
             /\ erep'[q].msg_lastOp \in Nat
             /\ \A n : n = erep'[q].msg_lastOp => Backed(q, n)'
  <2>1. CASE q = r
    BY <1>1, <2>1
  <2>2. CASE q # r
    <3>1. erep'[q] = erep[q]
      BY <2>2, FollowersAreReplicas DEF FollowerStep, ElectrodeInv, ShapeInv
    <3>2. /\ \A n : n = erep[q].lastOp => Backed(q, n)
          /\ erep[q].msg_lastOp \in Nat
          /\ \A n : n = erep[q].msg_lastOp => Backed(q, n)
      BY DEF ElectrodeInv, FollowInv
    <3>3. \A n : Backed(q, n) => Backed(q, n)'
      BY <1>1, BackedGrows
    <3> QED BY <1>1, <3>1, <3>2, <3>3
  <2> QED BY <2>1, <2>2
<1> QED BY <1>2 DEF FollowInv

\* A follower's program on CPU c leaves the maps t and goes on with k: it
\* does not lose a packet from WriteBuffer's hands, and it takes the number
\* of an operation only from a packet that goes up or on to WriteBuffer.
TakesNumber(r, p, t, k) ==
  /\ Fresh(p) /\ p.start <= erep[r].lastOp + 1
  /\ t.lastOp = p.last /\ t.msg_lastOp = p.last
  /\ p \in t.up \/ (k.next = "WriteBuffer" /\ k.p = p)
FollowerRun(r, c, t, k, new) ==
  /\ IsRep(t) /\ Same(erep[r], t)
  /\ erep' = [erep EXCEPT ![r] = [t EXCEPT !.next = "", !.tx = {}]]
  /\ enet' = enet \cup new
  /\ ecpu' = [ecpu EXCEPT ![r][c] = k]
  /\ k.next # "" => FollowerCpu(r, k)
  /\ ecpu[r][c].next = "WriteBuffer" => ecpu[r][c].p \in t.up \cup t.ring
  /\ new = {} \/ \E proto : new = {EPrepareOK(EView, erep[r].msg_lastOp, r, proto)}
  /\ \/ t.lastOp = erep[r].lastOp /\ t.msg_lastOp = erep[r].msg_lastOp
     \/ \E p \in enet : TakesNumber(r, p, t, k)

LEMMA FollowerRunKeeps ==
  ASSUME ElectrodeInv, NEW r \in EFollowers, NEW c \in ECpus[r], NEW t, NEW k, NEW new,
         FollowerRun(r, c, t, k, new)
  PROVE  ElectrodeInv'
<1>1. r \in Replicas /\ DOMAIN ecpu = Replicas /\ DOMAIN ecpu[r] = ECpus[r]
  BY FollowersAreReplicas DEF ElectrodeInv, ShapeInv
<1>2. PICK w : w = [t EXCEPT !.next = "", !.tx = {}]
  OBVIOUS
<1>3. StoreDoes(t, w)
  <2>1. IsRep(t)
    BY DEF FollowerRun
  <2> QED BY <1>2, <2>1, StoreEffect
<1>4. /\ DOMAIN ecpu' = Replicas /\ DOMAIN ecpu'[r] = ECpus[r]
      /\ \A q \in Replicas : q # r => ecpu'[q] = ecpu[q]
      /\ \A d \in ECpus[r] : d # c => ecpu'[r][d] = ecpu[r][d]
      /\ ecpu'[r][c] = k
  BY <1>1 DEF FollowerRun
<1>5. FollowerStep(r, w, new)
  BY <1>2, <1>3, <1>4 DEF FollowerStep, FollowerRun, StoreDoes, Same
<1>6. CpuStep(r, c, k)
  BY <1>4 DEF CpuStep
<1>7. erep'[r] = w
  BY <1>1, <1>5 DEF FollowerStep, ElectrodeInv, ShapeInv
<1>8. w.up = t.up /\ w.ring = t.ring /\ w.lastOp = t.lastOp /\ w.msg_lastOp = t.msg_lastOp
      /\ erep[r].up \subseteq t.up /\ erep[r].ring \subseteq t.ring
  BY <1>3 DEF StoreDoes, FollowerRun, Same
<1>9. Given(r) \subseteq Given(r)'
  <2> SUFFICES ASSUME NEW x \in Given(r) PROVE x \in Given(r)'
    OBVIOUS
  <2>1. CASE x \in erep[r].up \cup erep[r].ring
    BY <1>7, <1>8, <2>1 DEF Given
  <2>2. CASE \E d \in ECpus[r] : ecpu[r][d].next = "WriteBuffer" /\ x = ecpu[r][d].p
    <3>1. PICK d \in ECpus[r] : ecpu[r][d].next = "WriteBuffer" /\ x = ecpu[r][d].p
      BY <2>2
    <3>2. CASE d # c
      BY <1>4, <3>1, <3>2 DEF Given
    <3>3. CASE d = c
      <4>1. x \in t.up \cup t.ring
        BY <3>1, <3>3 DEF FollowerRun
      <4> QED BY <1>7, <1>8, <4>1 DEF Given
    <3> QED BY <3>2, <3>3
  <2> QED BY <2>1, <2>2 DEF Given
<1>10. /\ ShapeInv' /\ Grows
       /\ \A p \in enet : GoodPacket(p)'
  BY <1>5, <1>9, FollowerKeeps
<1>11. CpuInv'
  BY <1>5, <1>6, CpuKeeps DEF FollowerRun
<1>12. \A n : Backed(r, n) => Backed(r, n)'
  BY <1>10, BackedGrows
<1>13. /\ erep[r].lastOp \in Nat /\ erep[r].msg_lastOp \in Nat
       /\ Backed(r, erep[r].lastOp) /\ Backed(r, erep[r].msg_lastOp)
  BY <1>1 DEF ElectrodeInv, FollowInv, ShapeInv, IsRep
<1>14. /\ w.msg_lastOp \in Nat
       /\ Backed(r, w.lastOp)' /\ Backed(r, w.msg_lastOp)'
  <2>1. CASE t.lastOp = erep[r].lastOp /\ t.msg_lastOp = erep[r].msg_lastOp
    BY <1>8, <1>12, <1>13, <2>1
  <2>2. CASE \E p \in enet : TakesNumber(r, p, t, k)
    <3>1. PICK p \in enet : TakesNumber(r, p, t, k)
      BY <2>2
    <3>2. GoodPacket(p)
      BY DEF ElectrodeInv, NetInv
    <3>3. p.last \in Nat /\ p.start \in Nat
      BY <3>2 DEF GoodPacket, IsPacket
    <3>4. p \in Given(r)'
      <4>1. CASE p \in t.up
        BY <1>7, <1>8, <4>1 DEF Given
      <4>2. CASE k.next = "WriteBuffer" /\ k.p = p
        BY <1>4, <4>2 DEF Given
      <4> QED BY <3>1, <4>1, <4>2 DEF TakesNumber
    <3>5. ASSUME NEW x \in 1..p.last
          PROVE  \E q \in Given(r)' : q.type = "Prepare" /\ q.view = EView /\ x \in q.start..q.last
      <4>1. CASE x <= erep[r].lastOp
        <5>1. x \in 1..erep[r].lastOp
          BY <1>13, <3>3, <4>1
        <5>2. Given(r) \subseteq Given(r)'
          BY <1>9
        <5> QED BY <1>13, <5>1, <5>2 DEF Backed
      <4>2. CASE ~(x <= erep[r].lastOp)
        <5>1. x \in p.start..p.last
          BY <1>13, <3>1, <3>3, <4>2 DEF TakesNumber
        <5> QED BY <3>1, <3>4, <5>1 DEF Fresh, TakesNumber
      <4> QED BY <4>1, <4>2
    <3>6. Backed(r, p.last)'
      BY <3>5 DEF Backed
    <3> QED BY <1>8, <3>1, <3>3, <3>6 DEF TakesNumber
  <2> QED BY <2>1, <2>2 DEF FollowerRun
<1>15. FollowInv'
  BY <1>5, <1>9, <1>14, OthersFollow
<1>16. NetInv'
  <2>1. ASSUME NEW p \in new PROVE GoodPacket(p)'
    <3>1. PICK m : m = erep[r].msg_lastOp
      OBVIOUS
    <3>2. \E proto : p = EPrepareOK(EView, m, r, proto)
      BY <2>1, <3>1 DEF FollowerRun
    <3>3. /\ p.type = "PrepareOK" /\ p.view = EView /\ p.start = m /\ p.last = m /\ p.idx = r /\ p.to = ELeader
      BY <3>2 DEF EPrepareOK
    <3>4. m \in Nat /\ Backed(r, m)' /\ EView \in Nat
      BY <1>10, <1>12, <1>13, <3>1 DEF EView
    <3> QED BY <3>3, <3>4 DEF GoodPacket, IsPacket
  <2>2. enet' = enet \cup new
    BY DEF FollowerRun
  <2> QED BY <1>10, <2>1, <2>2 DEF NetInv
<1> QED BY <1>10, <1>11, <1>15, <1>16 DEF ElectrodeInv

\* A packet arrives at a follower.
LEMMA FollowerReceives ==
  ASSUME ElectrodeInv, NEW r \in EFollowers, NEW c \in ECpus[r], NEW p \in enet, EReceive(r, c, p)
  PROVE  ElectrodeInv'
<1>1. r # ELeader /\ IsRep(erep[r]) /\ DOMAIN ecpu = Replicas /\ r \in Replicas /\ DOMAIN ecpu[r] = ECpus[r]
  BY FollowersAreReplicas DEF ElectrodeInv, ShapeInv
<1>2. p.type # "PrepareOK" /\ p.to = r
  BY <1>1 DEF ElectrodeInv, NetInv, GoodPacket, EReceive
<1>3. PICK t : t = fastPaxos_main(erep[r], p)
  OBVIOUS
<1>4. PICK k : k = IF t.next = "" THEN ecpu[r][c] ELSE [next |-> t.next, p |-> p]
  OBVIOUS
<1>5. /\ erep' = [erep EXCEPT ![r] = [t EXCEPT !.next = "", !.tx = {}]]
      /\ ecpu[r][c].next = "" /\ enet' = enet
  BY <1>3 DEF EReceive, EStore
<1>6. ecpu' = [ecpu EXCEPT ![r][c] = k]
  BY <1>1, <1>3, <1>4 DEF EReceive
<1>7. /\ IsRep(t) /\ Same(erep[r], t) /\ t.lastOp = erep[r].lastOp /\ t.msg_lastOp = erep[r].msg_lastOp
      /\ t.next = "" \/ (t.next = "HandlePrepare" /\ p.type = "Prepare")
  <2>1. CASE p.port = TakenPort /\ p.proto = TakenProtocol /\ p.type = "Prepare" /\ "FAST_REPLY" \in EOpts
    <3>1. t = TailCall(erep[r], "HandlePrepare", p)
      BY <1>3, <2>1 DEF fastPaxos_main, compute_message_type
    <3>2. TailCallDoes(erep[r], "HandlePrepare", p, t)
      BY <1>1, <3>1, TailCallEffect
    <3> QED BY <2>1, <3>2 DEF TailCallDoes
  <2>2. CASE ~(p.port = TakenPort /\ p.proto = TakenProtocol /\ p.type = "Prepare" /\ "FAST_REPLY" \in EOpts)
    <3>1. t = XdpPass(erep[r], p)
      BY <1>2, <1>3, <2>2 DEF fastPaxos_main, compute_message_type
    <3>2. PassDoes(erep[r], p, t)
      BY <1>1, <3>1, PassEffect
    <3> QED BY <3>2 DEF PassDoes
  <2> QED BY <2>1, <2>2
<1>8. k.next # "" => FollowerCpu(r, k)
  <2>1. CASE t.next = ""
    BY <1>4, <1>5, <2>1
  <2>2. CASE t.next = "HandlePrepare" /\ p.type = "Prepare"
    <3>1. k.next = "HandlePrepare" /\ k.p = p
      BY <1>4, <2>2
    <3> QED BY <1>2, <2>2, <3>1 DEF FollowerCpu
  <2> QED BY <1>7, <2>1, <2>2
<1>9. FollowerRun(r, c, t, k, {})
  BY <1>5, <1>6, <1>7, <1>8 DEF FollowerRun
<1> QED BY <1>9, FollowerRunKeeps

\* A follower's program runs.
LEMMA FollowerRuns ==
  ASSUME ElectrodeInv, NEW r \in EFollowers, NEW c \in ECpus[r], NEW room, ERun(r, c, room)
  PROVE  ElectrodeInv'
<1>1. r # ELeader /\ r \in Replicas /\ IsRep(erep[r]) /\ DOMAIN ecpu = Replicas /\ DOMAIN ecpu[r] = ECpus[r]
      /\ erep[r].tx = {} /\ erep[r].myIdx = r /\ erep[r].view = EView
  BY FollowersAreReplicas DEF ElectrodeInv, ShapeInv, IsRep
<1>2. PICK p : p = ecpu[r][c].p
  OBVIOUS
<1>3. PICK s : s = [erep[r] EXCEPT !.next = ecpu[r][c].next]
  OBVIOUS
<1>4. PICK t : t = RunProgram(s, p, room)
  OBVIOUS
<1>5. PICK k : k = IF t.next = "" THEN [next |-> "", p |-> ENone] ELSE [next |-> t.next, p |-> p]
  OBVIOUS
<1>6. /\ ecpu[r][c].next # ""
      /\ erep' = [erep EXCEPT ![r] = [t EXCEPT !.next = "", !.tx = {}]]
      /\ enet' = enet \cup t.tx /\ ecpu' = [ecpu EXCEPT ![r][c] = k]
  BY <1>2, <1>3, <1>4, <1>5 DEF ERun, EStore
<1>7. FollowerCpu(r, ecpu[r][c])
  BY <1>1, <1>6 DEF ElectrodeInv, CpuInv
<1>8. p \in enet /\ p.to = r /\ p.type = "Prepare" /\ IsPacket(p)
      /\ (ecpu[r][c].next # "HandlePrepare" => Fresh(p))
  BY <1>2, <1>7 DEF FollowerCpu, ElectrodeInv, NetInv, GoodPacket
<1>9. /\ IsRep(s) /\ Same(erep[r], s) /\ s.tx = {} /\ s.lastOp = erep[r].lastOp
      /\ s.msg_lastOp = erep[r].msg_lastOp /\ s.next = ecpu[r][c].next /\ s.up = erep[r].up /\ s.ring = erep[r].ring
      /\ s.view = EView /\ s.myIdx = r
  BY <1>1, <1>3 DEF IsRep, EFields, Same
<1>10. k.next = t.next /\ (t.next # "" => k.p = p)
  BY <1>5
<1>11. ASSUME t.next \in {"", "WriteBuffer", "PrepareFastReply"}, t.next # "" => Fresh(p)
       PROVE  k.next # "" => FollowerCpu(r, k)
  BY <1>8, <1>10, <1>11 DEF FollowerCpu
<1>12. ASSUME Same(s, t) PROVE Same(erep[r], t)
  BY <1>9, <1>12 DEF Same
<1>13. CASE ecpu[r][c].next = "HandlePrepare"
  <2>1. t = HandlePrepare_main(s, p)
    BY <1>4, <1>9, <1>13 DEF RunProgram
  <2>2. HandlePrepareDoes(s, p, t)
    BY <1>8, <1>9, <2>1, HandlePrepareEffect
  <2>3. /\ IsRep(t) /\ Same(s, t) /\ t.tx = {} /\ t.next \in {"", "WriteBuffer", "PrepareFastReply"}
        /\ t.next # "" => Fresh(p)
        /\ \/ t.lastOp = erep[r].lastOp /\ t.msg_lastOp = erep[r].msg_lastOp
           \/ TakesNumber(r, p, t, k)
    BY <1>9, <1>10, <2>2 DEF HandlePrepareDoes, TakesNumber
  <2>4. FollowerRun(r, c, t, k, {})
    BY <1>6, <1>8, <1>11, <1>12, <1>13, <2>3 DEF FollowerRun
  <2> QED BY <2>4, FollowerRunKeeps
<1>14. CASE ecpu[r][c].next = "WriteBuffer"
  <2>1. t = WriteBuffer_main(s, p, room)
    BY <1>4, <1>9, <1>14 DEF RunProgram
  <2>2. WriteBufferDoes(s, p, t)
    BY <1>9, <2>1, WriteBufferEffect
  <2>3. /\ IsRep(t) /\ Same(s, t) /\ t.tx = {} /\ t.next \in {"", "WriteBuffer", "PrepareFastReply"}
        /\ t.lastOp = erep[r].lastOp /\ t.msg_lastOp = erep[r].msg_lastOp
        /\ ecpu[r][c].p \in t.up \cup t.ring
    BY <1>2, <1>9, <2>2 DEF WriteBufferDoes
  <2>4. FollowerRun(r, c, t, k, {})
    BY <1>6, <1>8, <1>11, <1>12, <1>14, <2>3 DEF FollowerRun
  <2> QED BY <2>4, FollowerRunKeeps
<1>15. CASE ecpu[r][c].next = "PrepareFastReply"
  <2>1. t = PrepareFastReply_main(s, p)
    BY <1>4, <1>9, <1>15 DEF RunProgram
  <2>2. FastReplyDoes(s, p, t)
    BY <1>9, <2>1, FastReplyEffect
  <2>3. /\ IsRep(t) /\ Same(s, t) /\ t.next = ""
        /\ t.lastOp = erep[r].lastOp /\ t.msg_lastOp = erep[r].msg_lastOp
        /\ t.tx = {} \/ t.tx = {EPrepareOK(EView, erep[r].msg_lastOp, r, p.proto)}
    BY <1>9, <2>2 DEF FastReplyDoes
  <2>4. FollowerRun(r, c, t, k, t.tx)
    BY <1>6, <1>8, <1>11, <1>12, <1>15, <2>3 DEF FollowerRun
  <2> QED BY <2>4, FollowerRunKeeps
<1> QED BY <1>6, <1>7, <1>13, <1>14, <1>15 DEF FollowerCpu

\* The user space of a follower writes its maps.
LEMMA UserWrites ==
  ASSUME ElectrodeInv, NEW r \in EFollowers, NEW w, erep' = [erep EXCEPT ![r] = w], IsRep(w), Same(erep[r], w),
         w.next = "", w.tx = {}, w.msg_lastOp = erep[r].msg_lastOp, Backed(r, w.lastOp),
         UNCHANGED <<enet, ecpu>>
  PROVE  ElectrodeInv'
<1>1. r \in Replicas /\ DOMAIN ecpu = Replicas /\ DOMAIN ecpu[r] = ECpus[r] /\ DOMAIN erep = Replicas
  BY FollowersAreReplicas DEF ElectrodeInv, ShapeInv
<1>2. FollowerStep(r, w, {})
  BY <1>1 DEF FollowerStep
<1>3. erep'[r] = w /\ erep[r].up \subseteq w.up /\ erep[r].ring \subseteq w.ring
  BY <1>1 DEF Same
<1>4. Given(r) \subseteq Given(r)'
  BY <1>3 DEF Given
<1>5. /\ ShapeInv' /\ Grows
      /\ \A p \in enet : GoodPacket(p)'
  BY <1>2, <1>4, FollowerKeeps
<1>6. \A n : Backed(r, n) => Backed(r, n)'
  BY <1>5, BackedGrows
<1>7. /\ w.msg_lastOp \in Nat
      /\ Backed(r, w.lastOp)' /\ Backed(r, w.msg_lastOp)'
  BY <1>6 DEF ElectrodeInv, FollowInv
<1>8. FollowInv'
  BY <1>2, <1>4, <1>7, OthersFollow
<1>9. CpuInv'
  BY DEF ElectrodeInv, CpuInv, FollowerCpu
<1>10. NetInv'
  BY <1>5 DEF NetInv
<1> QED BY <1>5, <1>8, <1>9, <1>10 DEF ElectrodeInv

LEMMA CatchUpKeeps ==
  ASSUME ElectrodeInv, NEW r \in EFollowers, NEW n \in 0..MAX_OPS, ECatchUp(r, n)
  PROVE  ElectrodeInv'
<1>1. r # ELeader /\ r \in Replicas /\ IsRep(erep[r]) /\ erep[r].next = "" /\ erep[r].tx = {}
  BY FollowersAreReplicas DEF ElectrodeInv, ShapeInv
<1>2. PICK w : w = [erep[r] EXCEPT !.lastOp = n]
  OBVIOUS
<1>3. n \in Nat
  BY ElectrodeAssumption
<1>4. /\ IsRep(w) /\ Same(erep[r], w) /\ w.next = "" /\ w.tx = {} /\ w.msg_lastOp = erep[r].msg_lastOp /\ w.lastOp = n
  BY <1>1, <1>2, <1>3 DEF IsRep, EFields, Same
<1>5. erep' = [erep EXCEPT ![r] = w] /\ UNCHANGED <<enet, ecpu>> /\ 1..n \subseteq EHeld(r)
  BY <1>2 DEF ECatchUp
<1>6. Backed(r, n)
  <2>1. \A x \in 1..n : x \in EOpsOf(erep[r].up \cup erep[r].ring)
    BY <1>1, <1>5 DEF EHeld
  <2> QED BY <2>1 DEF EOpsOf, Backed, Given
<1> QED BY <1>4, <1>5, <1>6, UserWrites

LEMMA StatusKeeps ==
  ASSUME ElectrodeInv, NEW r \in EFollowers, EStatus(r)
  PROVE  ElectrodeInv'
<1>1. r \in Replicas /\ IsRep(erep[r]) /\ erep[r].next = "" /\ erep[r].tx = {} /\ Backed(r, erep[r].lastOp)
  BY FollowersAreReplicas DEF ElectrodeInv, ShapeInv, FollowInv
<1>2. PICK b : b = ~erep[r].normal
  OBVIOUS
<1>3. PICK w : w = [erep[r] EXCEPT !.normal = b]
  OBVIOUS
<1>4. /\ IsRep(w) /\ Same(erep[r], w) /\ w.next = "" /\ w.tx = {} /\ w.msg_lastOp = erep[r].msg_lastOp
      /\ w.lastOp = erep[r].lastOp
  BY <1>1, <1>3 DEF IsRep, EFields, Same
<1>5. erep' = [erep EXCEPT ![r] = w] /\ UNCHANGED <<enet, ecpu>>
  BY <1>2, <1>3 DEF EStatus
<1> QED BY <1>1, <1>4, <1>5, UserWrites

-----------------------------------------------------------------------------
(* The steps of the leader.                                                *)

LeaderStep(w, new) ==
  /\ erep' = [erep EXCEPT ![ELeader] = w]
  /\ IsRep(w) /\ w.next = "" /\ w.tx = {} /\ w.myIdx = ELeader /\ w.progs = erep[ELeader].progs
  /\ enet' = enet \cup new
  /\ DOMAIN ecpu' = Replicas /\ DOMAIN ecpu'[ELeader] = ECpus[ELeader]
  /\ \A q \in EFollowers : ecpu'[q] = ecpu[q]

LEMMA LeaderKeeps ==
  ASSUME ElectrodeInv, NEW w, NEW new, LeaderStep(w, new)
  PROVE  /\ ShapeInv' /\ FollowInv' /\ Grows /\ erep'[ELeader] = w
         /\ \A p \in enet : GoodPacket(p)'
<1>1. ELeader \in Replicas /\ EFollowers \subseteq Replicas /\ ELeader \notin EFollowers
      /\ Replicas = EFollowers \cup {ELeader}
  BY FollowersAreReplicas, LeaderOrFollower
<1>2. DOMAIN erep = Replicas
  BY DEF ElectrodeInv, ShapeInv
<1>3. DOMAIN erep' = Replicas /\ erep'[ELeader] = w /\ \A q \in EFollowers : erep'[q] = erep[q]
  BY <1>1, <1>2 DEF LeaderStep
<1>4. \A q \in EFollowers : Given(q)' = Given(q)
  <2> TAKE q \in EFollowers
  <2>1. erep'[q] = erep[q] /\ ecpu'[q] = ecpu[q]
    BY <1>3 DEF LeaderStep
  <2> QED BY <2>1 DEF Given
<1>5. Grows
  BY <1>4 DEF Grows
<1>6. ShapeInv'
  <2>1. ASSUME NEW q \in Replicas
        PROVE  /\ IsRep(erep'[q]) /\ erep'[q].next = "" /\ erep'[q].tx = {} /\ erep'[q].myIdx = q
               /\ erep'[q].progs \in {EPrograms, EPrograms \ {"WriteBuffer"}}
               /\ DOMAIN ecpu'[q] = ECpus[q]
    <3>1. /\ IsRep(erep[q]) /\ erep[q].next = "" /\ erep[q].tx = {} /\ erep[q].myIdx = q
          /\ erep[q].progs \in {EPrograms, EPrograms \ {"WriteBuffer"}}
          /\ DOMAIN ecpu[q] = ECpus[q]
      BY DEF ElectrodeInv, ShapeInv
    <3>2. CASE q = ELeader
      BY <1>3, <3>1, <3>2 DEF LeaderStep
    <3>3. CASE q \in EFollowers
      BY <1>3, <3>1, <3>3 DEF LeaderStep
    <3> QED BY <1>1, <3>2, <3>3
  <2>2. DOMAIN ecpu' = Replicas
    BY DEF LeaderStep
  <2> QED BY <1>3, <2>1, <2>2 DEF ShapeInv
<1>7. FollowInv'
  <2>1. ASSUME NEW q \in EFollowers
        PROVE  /\ \A n : n = erep'[q].lastOp => Backed(q, n)'
               /\ erep'[q].msg_lastOp \in Nat
               /\ \A n : n = erep'[q].msg_lastOp => Backed(q, n)'
    <3>1. \A n : Backed(q, n) => Backed(q, n)'
      BY <1>5, BackedGrows
    <3>2. /\ \A n : n = erep[q].lastOp => Backed(q, n)
          /\ erep[q].msg_lastOp \in Nat
          /\ \A n : n = erep[q].msg_lastOp => Backed(q, n)
      BY DEF ElectrodeInv, FollowInv
    <3> QED BY <1>3, <3>1, <3>2
  <2> QED BY <2>1 DEF FollowInv
<1>8. \A p \in enet : GoodPacket(p)'
  BY <1>5, PacketKept DEF ElectrodeInv, NetInv
<1> QED BY <1>3, <1>5, <1>6, <1>7, <1>8

\* The leader's CPU c goes on with k.
LEMMA LeaderCpuKeeps ==
  ASSUME ElectrodeInv, enet \subseteq enet', \A q \in EFollowers : ecpu'[q] = ecpu[q],
         NEW c, NEW k, \A d \in ECpus[ELeader] : d # c => ecpu'[ELeader][d] = ecpu[ELeader][d],
         ecpu'[ELeader][c] = k,
         k.next # "" => k.next = "HandlePrepareOK" /\ k.p \in enet /\ k.p.to = ELeader
  PROVE  CpuInv'
<1>1. ELeader \in Replicas /\ EFollowers \subseteq Replicas /\ ELeader \notin EFollowers
      /\ Replicas = EFollowers \cup {ELeader}
  BY FollowersAreReplicas, LeaderOrFollower
<1> DEFINE OK(q, m, net) ==
             m.next # "" =>
               /\ q = ELeader => m.next = "HandlePrepareOK" /\ m.p \in net /\ m.p.to = q
               /\ q # ELeader =>
                    /\ m.p \in net /\ m.p.to = q /\ m.p.type = "Prepare"
                    /\ m.next \in {"HandlePrepare", "WriteBuffer", "PrepareFastReply"}
                    /\ m.next # "HandlePrepare" => Fresh(m.p)
<1>3. \A q \in Replicas : \A d \in ECpus[q] : OK(q, ecpu[q][d], enet)
  BY DEF ElectrodeInv, CpuInv, FollowerCpu
<1>4. OK(ELeader, k, enet)
  OBVIOUS
<1>5. \A q, m : OK(q, m, enet) => OK(q, m, enet')
  OBVIOUS
<1>6. ASSUME NEW q \in Replicas, NEW d \in ECpus[q] PROVE OK(q, ecpu'[q][d], enet')
  <2> HIDE DEF OK
  <2>1. CASE q # ELeader
    BY <1>1, <1>3, <1>5, <2>1
  <2>2. CASE q = ELeader /\ d # c
    BY <1>3, <1>5, <2>2
  <2>3. CASE q = ELeader /\ d = c
    BY <1>4, <1>5, <2>3
  <2> QED BY <2>1, <2>2, <2>3
<1> QED BY <1>6 DEF CpuInv, FollowerCpu

\* A program of the leader on CPU c leaves the maps t and goes on with k.
LeaderRun(c, t, k) ==
  /\ IsRep(t) /\ t.myIdx = ELeader /\ t.progs = erep[ELeader].progs
  /\ erep' = [erep EXCEPT ![ELeader] = [t EXCEPT !.next = "", !.tx = {}]]
  /\ enet' = enet
  /\ ecpu' = [ecpu EXCEPT ![ELeader][c] = k]
  /\ k.next # "" => k.next = "HandlePrepareOK" /\ k.p \in enet /\ k.p.to = ELeader

LEMMA LeaderRunKeeps ==
  ASSUME ElectrodeInv, NEW c \in ECpus[ELeader], NEW t, NEW k, LeaderRun(c, t, k)
  PROVE  ElectrodeInv'
<1>1. /\ ELeader \in Replicas /\ EFollowers \subseteq Replicas /\ ELeader \notin EFollowers
      /\ DOMAIN ecpu = Replicas /\ DOMAIN ecpu[ELeader] = ECpus[ELeader]
  BY FollowersAreReplicas DEF ElectrodeInv, ShapeInv
<1>2. PICK w : w = [t EXCEPT !.next = "", !.tx = {}]
  OBVIOUS
<1>3. StoreDoes(t, w)
  BY <1>2, StoreEffect DEF LeaderRun
<1>4. /\ DOMAIN ecpu' = Replicas /\ DOMAIN ecpu'[ELeader] = ECpus[ELeader]
      /\ \A q \in EFollowers : ecpu'[q] = ecpu[q]
      /\ \A d \in ECpus[ELeader] : d # c => ecpu'[ELeader][d] = ecpu[ELeader][d]
      /\ ecpu'[ELeader][c] = k
  BY <1>1 DEF LeaderRun
<1>5. LeaderStep(w, {})
  BY <1>2, <1>3, <1>4 DEF LeaderStep, LeaderRun, StoreDoes, Same
<1>6. ShapeInv' /\ FollowInv' /\ \A q \in enet : GoodPacket(q)'
  BY <1>5, LeaderKeeps
<1>7. CpuInv'
  <2>1. enet \subseteq enet' /\ (k.next # "" => k.next = "HandlePrepareOK" /\ k.p \in enet /\ k.p.to = ELeader)
    BY DEF LeaderRun
  <2> QED BY <1>4, <2>1, LeaderCpuKeeps, Zenon
<1>8. NetInv'
  BY <1>6 DEF NetInv, LeaderRun
<1> QED BY <1>6, <1>7, <1>8 DEF ElectrodeInv

\* A packet arrives at the leader: an acknowledgement, which goes up or to
\* HandlePrepareOK.
LEMMA LeaderReceives ==
  ASSUME ElectrodeInv, NEW c \in ECpus[ELeader], NEW p \in enet, EReceive(ELeader, c, p)
  PROVE  ElectrodeInv'
<1>1. /\ ELeader \in Replicas /\ ELeader \notin EFollowers /\ IsRep(erep[ELeader]) /\ erep[ELeader].myIdx = ELeader
      /\ DOMAIN ecpu = Replicas /\ DOMAIN ecpu[ELeader] = ECpus[ELeader]
  BY FollowersAreReplicas DEF ElectrodeInv, ShapeInv
<1>2. p.type = "PrepareOK" /\ p.to = ELeader
  BY <1>1 DEF ElectrodeInv, NetInv, GoodPacket, EReceive
<1>3. PICK s : s = erep[ELeader]
  OBVIOUS
<1>4. PICK t : t = fastPaxos_main(s, p)
  OBVIOUS
<1>5. PICK k : k = IF t.next = "" THEN ecpu[ELeader][c] ELSE [next |-> t.next, p |-> p]
  OBVIOUS
<1>6. /\ erep' = [erep EXCEPT ![ELeader] = [t EXCEPT !.next = "", !.tx = {}]]
      /\ ecpu[ELeader][c].next = "" /\ enet' = enet
  BY <1>3, <1>4 DEF EReceive, EStore
<1>7. ecpu' = [ecpu EXCEPT ![ELeader][c] = k]
  BY <1>1, <1>3, <1>4, <1>5 DEF EReceive
<1>8. PICK u : u = [s EXCEPT !.msg_lastOp = "offset"]
  OBVIOUS
<1>9. IsRep(s) /\ IsRep(u) /\ u.myIdx = s.myIdx /\ u.progs = s.progs
  BY <1>1, <1>3, <1>8 DEF IsRep, EFields
<1>10. IsRep(t) /\ t.myIdx = ELeader /\ t.progs = s.progs /\ t.next \in {"", "HandlePrepareOK"}
  <2>1. CASE t = XdpPass(s, p)
    <3>1. PassDoes(s, p, t)
      BY <1>9, <2>1, PassEffect
    <3> QED BY <1>1, <1>3, <3>1 DEF PassDoes, Same
  <2>2. CASE t = TailCall(u, "HandlePrepareOK", p)
    <3>1. TailCallDoes(u, "HandlePrepareOK", p, t)
      BY <1>9, <2>2, TailCallEffect
    <3> QED BY <1>1, <1>3, <1>9, <3>1 DEF TailCallDoes, Same
  <2> QED BY <1>2, <1>4, <1>8, <2>1, <2>2 DEF fastPaxos_main, compute_message_type
<1>11. k.next # "" => k.next = "HandlePrepareOK" /\ k.p \in enet /\ k.p.to = ELeader
  BY <1>2, <1>5, <1>6, <1>10
<1>12. LeaderRun(c, t, k)
  BY <1>3, <1>6, <1>7, <1>10, <1>11 DEF LeaderRun
<1> QED BY <1>12, LeaderRunKeeps

\* HandlePrepareOK runs at the leader.
LEMMA LeaderRuns ==
  ASSUME ElectrodeInv, NEW c \in ECpus[ELeader], NEW room, ERun(ELeader, c, room)
  PROVE  ElectrodeInv'
<1>1. /\ ELeader \in Replicas /\ ELeader \notin EFollowers /\ IsRep(erep[ELeader]) /\ erep[ELeader].tx = {}
      /\ erep[ELeader].myIdx = ELeader
  BY FollowersAreReplicas DEF ElectrodeInv, ShapeInv
<1>2. PICK p : p = ecpu[ELeader][c].p
  OBVIOUS
<1>3. PICK s : s = [erep[ELeader] EXCEPT !.next = ecpu[ELeader][c].next]
  OBVIOUS
<1>4. PICK t : t = RunProgram(s, p, room)
  OBVIOUS
<1>5. PICK k : k = IF t.next = "" THEN [next |-> "", p |-> ENone] ELSE [next |-> t.next, p |-> p]
  OBVIOUS
<1>6. /\ ecpu[ELeader][c].next # ""
      /\ erep' = [erep EXCEPT ![ELeader] = [t EXCEPT !.next = "", !.tx = {}]]
      /\ enet' = enet \cup t.tx /\ ecpu' = [ecpu EXCEPT ![ELeader][c] = k]
  BY <1>2, <1>3, <1>4, <1>5 DEF ERun, EStore
<1>7. ecpu[ELeader][c].next = "HandlePrepareOK" /\ p \in enet /\ p.to = ELeader
  BY <1>1, <1>2, <1>6 DEF ElectrodeInv, CpuInv
<1>8. p.idx \in EFollowers
  BY <1>1, <1>7 DEF ElectrodeInv, NetInv, GoodPacket
<1>9. FrameStart(p).opnum \in Nat /\ FrameStart(p).idx \in Nat
  BY <1>8, ElectrodeAssumption DEF FrameStart
<1>10. /\ IsRep(s) /\ s.tx = {} /\ s.myIdx = ELeader /\ s.progs = erep[ELeader].progs
       /\ s.next = "HandlePrepareOK"
  BY <1>1, <1>3, <1>7 DEF IsRep, EFields
<1>11. CountAckDoes(s, t)
  <2>1. t = CountAck(s, p, FrameStart(p))
    BY <1>4, <1>10 DEF RunProgram, HandlePrepareOK_main
  <2> QED BY <1>9, <1>10, <2>1, CountAckEffect
<1>12. k.next = "" /\ enet' = enet
  BY <1>5, <1>6, <1>10, <1>11 DEF CountAckDoes
<1>13. LeaderRun(c, t, k)
  BY <1>6, <1>10, <1>11, <1>12 DEF LeaderRun, CountAckDoes
<1> QED BY <1>13, LeaderRunKeeps

\* The leader sends Prepares.
LEMMA SendKeeps ==
  ASSUME ElectrodeInv, NEW start \in 1..MAX_OPS, NEW last \in 1..MAX_OPS, NEW size, NEW to \in SUBSET EFollowers,
         ESend(start, last, size, to)
  PROVE  ElectrodeInv'
<1>1. PICK new : new = {EPrepare(EView, start, last, size, r) : r \in to}
  OBVIOUS
<1>2. erep' = erep /\ ecpu' = ecpu /\ enet' = enet \cup new
  BY <1>1 DEF ESend
<1>3. Grows /\ \A r \in EFollowers : \A n : Backed(r, n) => Backed(r, n)'
  <2>1. Grows
    BY <1>2 DEF Grows, Given
  <2> QED BY <2>1, BackedGrows
<1>4. ShapeInv'
  BY <1>2, Zenon DEF ElectrodeInv, ShapeInv
<1>5. CpuInv'
  <2>1. enet \subseteq enet'
    BY <1>2
  <2> QED BY <1>2, <2>1 DEF ElectrodeInv, CpuInv, FollowerCpu
<1>6. FollowInv'
  BY <1>2, <1>3 DEF ElectrodeInv, FollowInv
<1>7. NetInv'
  <2>1. ASSUME NEW q \in new PROVE GoodPacket(q)'
    <3>1. PICK r \in to : q = EPrepare(EView, start, last, size, r)
      BY <1>1, <2>1
    <3>2. q.type = "Prepare" /\ q.view = EView /\ q.start = start /\ q.last = last /\ q.to = r
      BY <3>1 DEF EPrepare
    <3>3. start \in Nat /\ last \in Nat /\ EView \in Nat /\ r \in EFollowers
      BY ElectrodeAssumption DEF EView
    <3> QED BY <3>2, <3>3 DEF GoodPacket, IsPacket
  <2>2. \A q \in enet : GoodPacket(q)'
    BY <1>3, PacketKept DEF ElectrodeInv, NetInv
  <2> QED BY <1>2, <2>1, <2>2 DEF NetInv
<1> QED BY <1>4, <1>5, <1>6, <1>7 DEF ElectrodeInv

-----------------------------------------------------------------------------
(* The theorem.                                                            *)

LEMMA ElectrodeInitInv == ElectrodeInit => ElectrodeInv
<1> SUFFICES ASSUME ElectrodeInit PROVE ElectrodeInv
  OBVIOUS
<1>1. PICK progs : /\ progs \in {EPrograms, EPrograms \ {"WriteBuffer"}}
                   /\ erep = [r \in Replicas |-> EMaps(r, progs)]
  BY DEF ElectrodeInit, Replicas
<1>2. enet = EStray /\ ecpu = [r \in Replicas |-> [c \in ECpus[r] |-> [next |-> "", p |-> ENone]]]
  BY DEF ElectrodeInit, Replicas
<1>3. ASSUME NEW r \in Replicas
      PROVE  /\ IsRep(EMaps(r, progs)) /\ EMaps(r, progs).next = "" /\ EMaps(r, progs).tx = {}
             /\ EMaps(r, progs).myIdx = r /\ EMaps(r, progs).progs = progs /\ EMaps(r, progs).lastOp = 0
             /\ EMaps(r, progs).msg_lastOp = 0 /\ EMaps(r, progs).up = {}
             /\ \A i \in 0..QUORUM_BITSET_ENTRY - 1 : EMaps(r, progs).quorum[i].bitset = {}
  <2>1. PICK q : q = [i \in 0..QUORUM_BITSET_ENTRY - 1 |-> [view |-> 0, opnum |-> 0, bitset |-> {}]]
    OBVIOUS
  <2>2. /\ q \in [0..QUORUM_BITSET_ENTRY - 1 -> EEntry]
        /\ \A i \in 0..QUORUM_BITSET_ENTRY - 1 : q[i].bitset = {}
    BY <2>1 DEF EEntry
  <2>3. PICK m : m = EMaps(r, progs)
    OBVIOUS
  <2>4. m = [myIdx |-> r, normal |-> TRUE, view |-> EView, lastOp |-> 0, msg_lastOp |-> 0,
             quorum |-> q, ring |-> {}, progs |-> progs, up |-> {}, next |-> "", tx |-> {}]
    BY <2>1, <2>3 DEF EMaps
  <2>5. /\ DOMAIN m = EFields /\ m.myIdx = r /\ m.view = EView /\ m.lastOp = 0 /\ m.msg_lastOp = 0
        /\ m.quorum = q /\ m.progs = progs /\ m.up = {} /\ m.next = "" /\ m.tx = {}
    BY <2>4 DEF EFields
  <2>6. IsRep(m)
    <3>1. m.quorum \in [0..QUORUM_BITSET_ENTRY - 1 -> EEntry]
      BY <2>2, <2>5
    <3>2. m.myIdx \in Replicas /\ m.view = EView
      BY <2>5
    <3>3. m.lastOp \in Nat
      <4>1. m.lastOp = 0
        BY <2>5
      <4>2. 0 \in Nat
        OBVIOUS
      <4> QED BY <4>1, <4>2, Zenon
    <3>4. DOMAIN m = EFields
      BY <2>5
    <3> QED BY <3>1, <3>2, <3>3, <3>4, Zenon DEF IsRep
  <2> QED BY <2>2, <2>3, <2>5, <2>6
<1>4. \A r \in Replicas : erep[r] = EMaps(r, progs)
  BY <1>1
<1>5. ASSUME NEW r \in Replicas
       PROVE  DOMAIN ecpu[r] = ECpus[r] /\ \A c \in ECpus[r] : ecpu[r][c].next = ""
  <2>1. ecpu[r] = [c \in ECpus[r] |-> [next |-> "", p |-> ENone]]
    BY <1>2
  <2>2. DOMAIN ecpu[r] = ECpus[r]
    BY <2>1
  <2>3. ASSUME NEW c \in ECpus[r] PROVE ecpu[r][c].next = ""
    <3>1. PICK k : k = [next |-> "", p |-> ENone]
      OBVIOUS
    <3>2. k.next = ""
      BY <3>1
    <3>3. ecpu[r][c] = k
      BY <2>1, <3>1
    <3> QED BY <3>2, <3>3, Zenon
  <2> QED BY <2>2, <2>3
<1>6. ShapeInv
  <2>1. DOMAIN erep = Replicas /\ DOMAIN ecpu = Replicas /\ \A r \in Replicas : DOMAIN ecpu[r] = ECpus[r]
    BY <1>1, <1>2, <1>5
  <2> QED BY <1>1, <1>3, <1>4, <2>1, Zenon DEF ShapeInv
<1>7. NetInv
  <2>1. \A p \in EStray :
          /\ p.view \in Nat /\ p.start \in Nat /\ p.last \in Nat
          /\ p.to \in EFollowers /\ p.type # "PrepareOK"
    BY ElectrodeAssumption
  <2> QED BY <1>2, <2>1 DEF NetInv, GoodPacket, IsPacket
<1>8. CpuInv
  <2>1. \A r \in Replicas : \A c \in ECpus[r] : ecpu[r][c].next = ""
    BY <1>5
  <2> QED BY <2>1 DEF CpuInv
<1>9. \A r : Backed(r, 0)
  BY DEF Backed
<1>10. FollowInv
  <2>1. \A r \in EFollowers : erep[r].lastOp = 0 /\ erep[r].msg_lastOp = 0
    <3> TAKE r \in EFollowers
    <3>1. r \in Replicas
      BY FollowersAreReplicas
    <3> QED BY <1>3, <1>4, <3>1
  <2> QED BY <1>9, <2>1 DEF FollowInv
<1> QED BY <1>6, <1>7, <1>8, <1>10 DEF ElectrodeInv

LEMMA ElectrodeStep == ElectrodeInv /\ [ElectrodeNext]_evars => ElectrodeInv'
<1> SUFFICES ASSUME ElectrodeInv, [ElectrodeNext]_evars PROVE ElectrodeInv'
  OBVIOUS
<1>1. CASE \E start, last \in 1..MAX_OPS, size \in {"fits", "long", "tight"}, to \in SUBSET EFollowers :
             ESend(start, last, size, to)
  BY <1>1, SendKeeps
<1>2. ASSUME NEW r \in Replicas, NEW c \in ECpus[r], NEW p \in enet, EReceive(r, c, p) PROVE ElectrodeInv'
  <2>1. CASE r = ELeader
    BY <1>2, <2>1, LeaderReceives
  <2>2. CASE r \in EFollowers
    BY <1>2, <2>2, FollowerReceives
  <2> QED BY <2>1, <2>2, LeaderOrFollower
<1>3. ASSUME NEW r \in Replicas, NEW c \in ECpus[r], NEW room \in BOOLEAN, ERun(r, c, room) PROVE ElectrodeInv'
  <2>1. CASE r = ELeader
    BY <1>3, <2>1, LeaderRuns
  <2>2. CASE r \in EFollowers
    BY <1>3, <2>2, FollowerRuns
  <2> QED BY <2>1, <2>2, LeaderOrFollower
<1>4. CASE \E r \in EFollowers : (\E n \in 0..MAX_OPS : ECatchUp(r, n)) \/ EStatus(r)
  BY <1>4, CatchUpKeeps, StatusKeeps
<1>5. CASE UNCHANGED evars
  <2>1. enet' = enet /\ erep' = erep /\ ecpu' = ecpu
    BY <1>5 DEF evars
  <2>2. Grows /\ \A r \in EFollowers : \A n : Backed(r, n) => Backed(r, n)'
    <3>1. Grows
      BY <2>1 DEF Grows, Given
    <3> QED BY <3>1, BackedGrows
  <2>3. ShapeInv' /\ CpuInv'
    <3>1. ShapeInv'
      BY <2>1, Zenon DEF ElectrodeInv, ShapeInv
    <3>2. CpuInv'
      BY <2>1, Zenon DEF ElectrodeInv, CpuInv, FollowerCpu
    <3> QED BY <3>1, <3>2
  <2>4. NetInv'
    BY <2>1, <2>2, PacketKept DEF ElectrodeInv, NetInv
  <2>5. FollowInv'
    BY <2>1, <2>2 DEF ElectrodeInv, FollowInv
  <2> QED BY <2>3, <2>4, <2>5 DEF ElectrodeInv
<1> QED BY <1>1, <1>2, <1>3, <1>4, <1>5 DEF ElectrodeNext, Replicas

\* A replica that is given the packets of operations 1 to n has them, in user
\* space or in the hands of a CPU.
LEMMA BackedIsHeld ==
  ASSUME NEW r \in EFollowers, NEW n, Backed(r, n)
  PROVE  1..n \subseteq EHeld(r) \cup EInHand(r)
<1> SUFFICES ASSUME NEW x \in 1..n PROVE x \in EHeld(r) \cup EInHand(r)
  OBVIOUS
<1>1. PICK q \in Given(r) : q.type = "Prepare" /\ q.view = EView /\ x \in q.start..q.last
  BY DEF Backed
<1>2. \A ps : q \in ps => x \in EOpsOf(ps)
  BY <1>1 DEF EOpsOf
<1>3. CASE q \in erep[r].up \cup erep[r].ring
  BY <1>2, <1>3 DEF EHeld
<1>4. CASE \E d \in ECpus[r] : ecpu[r][d].next = "WriteBuffer" /\ q = ecpu[r][d].p
  <2>1. q \in {ecpu[r][c].p : c \in {d \in ECpus[r] : ecpu[r][d].next # ""}}
    BY <1>4
  <2> QED BY <1>2, <2>1 DEF EInHand
<1> QED BY <1>1, <1>3, <1>4 DEF Given

(***************************************************************************)
(* For any number of replicas and CPUs, whatever batches the leader sends  *)
(* and whatever the network loses, repeats and reorders: what the kernel   *)
(* of a follower acknowledges (PrepareFastReply_main) the follower has,    *)
(* with all operations before it, although the answer is built from maps   *)
(* that several CPUs write, before user space has read the operations.     *)
(***************************************************************************)
THEOREM AcknowledgementsAreHeld == ElectrodeSpec => []AcknowledgedIsHeld
<1>1. ElectrodeInit => ElectrodeInv
  BY ElectrodeInitInv
<1>2. ElectrodeInv /\ [ElectrodeNext]_evars => ElectrodeInv'
  BY ElectrodeStep
<1>3. ElectrodeInv => AcknowledgedIsHeld
  BY BackedIsHeld DEF ElectrodeInv, NetInv, GoodPacket, AcknowledgedIsHeld
<1> QED BY <1>1, <1>2, <1>3, PTL DEF ElectrodeSpec

-----------------------------------------------------------------------------
(* KATRAN                                                                  *)

(* Parsing.                                                                *)

\* The fields of a run, and of a flow.
KFields == {"pkt", "flow", "flags", "real", "vip", "key", "by", "flood", "pass", "verdict", "out", "now",
            "lru", "rate", "vips"}
KFlowFields == {"src", "dst", "sport", "dport", "proto"}
\* A run in progress is a record.
KRec(k) == k = [f \in KFields |-> k[f]] /\ k.flow = [f \in KFlowFields |-> k.flow[f]]

\* The connection a packet belongs to; an ICMP error quotes one of the real.
Conn(p) ==
  IF p.proto = "ICMP"
  THEN [src |-> p.inner.dst, dst |-> p.inner.src, sport |-> p.inner.dport, dport |-> p.inner.sport,
        proto |-> p.inner.proto]
  ELSE [src |-> p.src, dst |-> p.dst, sport |-> p.sport, dport |-> p.dport, proto |-> p.proto]

\* A packet that leaves shows no port of the packet that arrived.
Hides(q) == q.proto # "UDP" \/ q.dport = GUE_DPORT
\* A run of the packet p that has ended without a look at the connections.
Ends(k, p) ==
  /\ KRec(k) /\ k.verdict # "" /\ k.lru = lru_mapping /\ k.by \in {"", "quic"}
  /\ "proto" \in DOMAIN p /\ "dport" \in DOMAIN p /\ k.verdict = "XDP_TX" => Hides(k.out)
\* A run that goes on.
Goes(k, p) ==
  /\ KRec(k) /\ k.verdict = "" /\ k.lru = lru_mapping
  /\ k.pkt = p /\ k.now = ktime /\ k.flood = FALSE
\* So far no server is chosen.
Open(k, p) == Goes(k, p) /\ k.by = "" /\ k.real = KNone

\* A run that ends as it stands.
LEMMA EndEnds ==
  ASSUME NEW k, NEW p, Open(k, p), NEW v, v # "", v # "XDP_TX"
  PROVE  Ends(KEnd(k, v), p) /\ KEnd(k, v).vips = k.vips
BY DEF KEnd, Open, Goes, Ends, KRec, KFields

\* An ICMP reply: the packet, with its addresses swapped.
LEMMA ReplyEnds ==
  ASSUME NEW k, NEW p, Open(k, p), p.proto = "ICMP", 
         NEW t, t = [k EXCEPT !.pkt = [@ EXCEPT !.icmp = "reply", !.ttl = 64, !.src = k.pkt.dst, !.dst = k.pkt.src]]
  PROVE  Ends(swap_mac_and_send(t), p) /\ swap_mac_and_send(t).vips = k.vips
<1>1. KRec(t) /\ t.lru = k.lru /\ t.by = k.by /\ t.vips = k.vips BY DEF Open, Goes, KRec, KFields
<1>2. "proto" \in DOMAIN p => t.pkt.proto = "ICMP" BY DEF Open, Goes, KRec, KFields
<1> QED BY <1>1, <1>2 DEF swap_mac_and_send, Open, Goes, Ends, KRec, KFields, Hides

\* send_icmp_reply and send_icmp6_reply, cut packets included.
LEMMA IcmpReply ==
  ASSUME NEW k, NEW p, Open(k, p), p.proto = "ICMP"
  PROVE  /\ Ends(send_icmp_reply(k), p) /\ send_icmp_reply(k).vips = k.vips
         /\ Ends(send_icmp6_reply(k), p) /\ send_icmp6_reply(k).vips = k.vips
<1> DEFINE t == [k EXCEPT !.pkt = [@ EXCEPT !.icmp = "reply", !.ttl = 64, !.src = k.pkt.dst, !.dst = k.pkt.src]]
<1>1. Ends(swap_mac_and_send(t), p) /\ swap_mac_and_send(t).vips = k.vips BY ReplyEnds
<1>2. Ends(KEnd(k, "XDP_DROP"), p) /\ KEnd(k, "XDP_DROP").vips = k.vips BY EndEnds
<1> QED BY <1>1, <1>2 DEF send_icmp_reply, send_icmp6_reply

\* The network header is read: addresses and protocol are the connection's.
L3(k, p) ==
  /\ Open(k, p) /\ k.vips = vip_map
  /\ k.flow.src = Conn(p).src /\ k.flow.dst = Conn(p).dst /\ k.flow.proto = Conn(p).proto
  /\ ("F_ICMP" \in k.flags) <=> (p.proto = "ICMP")
\* The transport header is read: the flow is the connection.
L4(k, p) == Open(k, p) /\ k.vips = vip_map /\ k.flow = Conn(p)
\* The run has ended, the table of VIPs as it was.
EndsEarly(k, p) == Ends(k, p) /\ k.vips = vip_map

\* What a run starts from.
Fresh0(k, p) == Open(k, p) /\ k.vips = vip_map /\ k.flags = {}

\* A run that ends before a VIP is looked up.
LEMMA EndEarly ==
  ASSUME NEW k, NEW p, Open(k, p), k.vips = vip_map
  PROVE  EndsEarly(KEnd(k, "XDP_DROP"), p) /\ EndsEarly(KEnd(k, "XDP_PASS"), p)
BY EndEnds DEF EndsEarly

\* The ports complete the flow.
LEMMA PortsParsed ==
  ASSUME NEW k, NEW p, L3(k, p), NEW sport, NEW dport, sport = Conn(p).sport, dport = Conn(p).dport
  PROVE  L4([k EXCEPT !.flow.sport = sport, !.flow.dport = dport], p)
<1> DEFINE t == [k EXCEPT !.flow.sport = sport, !.flow.dport = dport]
<1>1. KRec(k) BY DEF L3, Open, Goes
<1>2. /\ t.flow = [k.flow EXCEPT !.sport = sport, !.dport = dport] /\ KRec(t)
      /\ t.vips = k.vips /\ t.lru = k.lru /\ t.by = k.by /\ t.real = k.real /\ t.verdict = k.verdict
      /\ t.pkt = k.pkt /\ t.now = k.now /\ t.flood = k.flood
  BY <1>1 DEF KRec, KFields, KFlowFields
<1> HIDE DEF t
<1> DEFINE c == Conn(p)
<1>3. c = [f \in KFlowFields |-> c[f]] BY DEF Conn, KFlowFields
<1> HIDE DEF c
<1>4. /\ k.flow.src = c.src /\ k.flow.dst = c.dst /\ k.flow.proto = c.proto
      /\ sport = c.sport /\ dport = c.dport
  BY DEF L3, c
<1>5. t.flow = [f \in KFlowFields |-> t.flow[f]] BY <1>2 DEF KRec
<1>6. \A f \in KFlowFields : t.flow[f] = c[f] BY <1>1, <1>2, <1>4 DEF KRec, KFlowFields
<1> DEFINE tf == t.flow
<1> HIDE DEF tf
<1>9. tf = [f \in KFlowFields |-> tf[f]] /\ \A f \in KFlowFields : tf[f] = c[f] BY <1>5, <1>6 DEF tf
<1>7. tf = c BY <1>3, <1>9
<1>8. L4(t, p) BY <1>2, <1>7 DEF L3, L4, Open, Goes, c, tf
<1> QED BY <1>8 DEF t

\* An ICMP error has the connection it quotes, turned round.
LEMMA Quoted ==
  ASSUME NEW k, NEW p, Fresh0(k, p), p.proto = "ICMP"
  PROVE  L3(KQuoted(k, p.inner), p)
BY DEF KQuoted, Fresh0, L3, Open, Goes, KRec, KFields, KFlowFields, Conn

\* parse_icmp and parse_icmpv6: an answer, a refusal, or the quoted packet.
LEMMA IcmpParsed ==
  ASSUME NEW k, NEW p, Fresh0(k, p), p.proto = "ICMP"
  PROVE  /\ EndsEarly(parse_icmp(k), p) \/ L3(parse_icmp(k), p)
         /\ EndsEarly(parse_icmpv6(k), p) \/ L3(parse_icmpv6(k), p)
<1>1. k.pkt = p /\ Open(k, p) /\ k.vips = vip_map BY DEF Fresh0, Open, Goes
<1>2. EndsEarly(KEnd(k, "XDP_DROP"), p) /\ EndsEarly(KEnd(k, "XDP_PASS"), p) BY <1>1, EndEarly
<1>3. EndsEarly(send_icmp_reply(k), p) /\ EndsEarly(send_icmp6_reply(k), p)
  BY <1>1, IcmpReply DEF EndsEarly
<1>4. L3(KQuoted(k, k.pkt.inner), p) BY <1>1, Quoted
<1> QED BY <1>2, <1>3, <1>4 DEF parse_icmp, parse_icmpv6

\* process_l3_headers, both families.
LEMMA HeadersParsed ==
  ASSUME NEW k, NEW p, Fresh0(k, p)
  PROVE  EndsEarly(process_l3_headers(k), p) \/ L3(process_l3_headers(k), p)
<1>1. k.pkt = p /\ Open(k, p) /\ k.vips = vip_map BY DEF Fresh0, Open, Goes
<1>2. EndsEarly(KEnd(k, "XDP_DROP"), p) BY <1>1, EndEarly
<1> DEFINE t == [k EXCEPT !.flow.proto = k.pkt.proto]
           u == [t EXCEPT !.flow.src = k.pkt.src, !.flow.dst = k.pkt.dst]
<1>3. Fresh0(t, p) BY DEF Fresh0, Open, Goes, KRec, KFields, KFlowFields
<1>4. p.proto # "ICMP" => L3(u, p)
  BY DEF Fresh0, L3, Open, Goes, KRec, KFields, KFlowFields, Conn
<1> HIDE DEF t, u
<1>5. p.proto = "ICMP" => /\ EndsEarly(parse_icmp(t), p) \/ L3(parse_icmp(t), p)
                          /\ EndsEarly(parse_icmpv6(t), p) \/ L3(parse_icmpv6(t), p)
  BY <1>3, IcmpParsed
<1>6. process_l3_headers4(k) =
        IF "ip" \notin k.pkt.has \/ k.pkt.ipopts \/ k.pkt.frag THEN KEnd(k, "XDP_DROP")
        ELSE IF k.pkt.proto = "ICMP" THEN parse_icmp(t) ELSE u
  BY DEF process_l3_headers4, t, u
<1>7. process_l3_headers6(k) =
        IF "ip" \notin k.pkt.has \/ k.pkt.frag THEN KEnd(k, "XDP_DROP")
        ELSE IF k.pkt.proto = "ICMP" THEN parse_icmpv6(t) ELSE u
  BY DEF process_l3_headers6, t, u
<1> QED BY <1>1, <1>2, <1>4, <1>5, <1>6, <1>7 DEF process_l3_headers

\* parse_udp: the ports of a quoted packet are swapped too.
LEMMA UdpParsed ==
  ASSUME NEW k, NEW p, L3(k, p)
  PROVE  EndsEarly(parse_udp(k), p) \/ L4(parse_udp(k), p)
<1>1. k.pkt = p /\ Open(k, p) /\ k.vips = vip_map BY DEF L3, Open, Goes
<1>2. EndsEarly(KEnd(k, "XDP_DROP"), p) BY <1>1, EndEarly
<1> DEFINE at == calc_offset(k)
           a == [k EXCEPT !.flow.sport = at.hdr.sport, !.flow.dport = at.hdr.dport]
           b == [k EXCEPT !.flow.sport = at.hdr.dport, !.flow.dport = at.hdr.sport]
<1>3. at.hdr = IF "F_ICMP" \in k.flags THEN p.inner ELSE p BY <1>1 DEF calc_offset
<1> HIDE DEF at
<1>0. ("F_ICMP" \in k.flags) <=> (p.proto = "ICMP") BY DEF L3
<1>4. "F_ICMP" \notin k.flags => L4(a, p) BY <1>0, <1>3, PortsParsed DEF Conn
<1>5. "F_ICMP" \in k.flags => L4(b, p) BY <1>0, <1>3, PortsParsed DEF Conn
<1>6. parse_udp(k) = IF ~at.ok THEN KEnd(k, "XDP_DROP") ELSE IF "F_ICMP" \notin k.flags THEN a ELSE b
  BY DEF parse_udp, at
<1> HIDE DEF a, b
<1> QED BY <1>2, <1>4, <1>5, <1>6

\* parse_tcp, likewise, and whether the packet opens a connection.
LEMMA TcpParsed ==
  ASSUME NEW k, NEW p, L3(k, p)
  PROVE  EndsEarly(parse_tcp(k), p) \/ L4(parse_tcp(k), p)
<1>1. k.pkt = p /\ Open(k, p) /\ k.vips = vip_map BY DEF L3, Open, Goes
<1>2. EndsEarly(KEnd(k, "XDP_DROP"), p) BY <1>1, EndEarly
<1> DEFINE at == calc_offset(k)
           fl == IF at.hdr.syn THEN k.flags \cup {"F_SYN_SET"} ELSE k.flags
           q == [k EXCEPT !.flags = fl]
           a == [q EXCEPT !.flow.sport = at.hdr.sport, !.flow.dport = at.hdr.dport]
           b == [q EXCEPT !.flow.sport = at.hdr.dport, !.flow.dport = at.hdr.sport]
<1>3. at.hdr = IF "F_ICMP" \in k.flags THEN p.inner ELSE p BY <1>1 DEF calc_offset
<1> HIDE DEF at
<1>7. "F_ICMP" \in fl <=> "F_ICMP" \in k.flags OBVIOUS
<1>6. parse_tcp(k) = IF ~at.ok THEN KEnd(k, "XDP_DROP") ELSE IF "F_ICMP" \notin k.flags THEN a ELSE b
  BY DEF parse_tcp, at
<1> HIDE DEF fl
<1>8. L3(q, p) BY <1>7 DEF L3, Open, Goes, KRec, KFields
<1> HIDE DEF q
<1>0. ("F_ICMP" \in k.flags) <=> (p.proto = "ICMP") BY DEF L3
<1>4. "F_ICMP" \notin k.flags => L4(a, p) BY <1>0, <1>3, <1>8, PortsParsed DEF Conn
<1>5. "F_ICMP" \in k.flags => L4(b, p) BY <1>0, <1>3, <1>8, PortsParsed DEF Conn
<1> HIDE DEF a, b
<1> QED BY <1>2, <1>4, <1>5, <1>6

\* A tunnel that is taken off ends the run: the packet in it is passed on,
\* dropped, or starts again.
LEMMA TunnelEnds ==
  ASSUME NEW k, NEW p, Open(k, p), k.vips = vip_map, NEW d, NEW t,
         t = decrement_ttl(k, k.pkt.inner), d = KUnwrap([t EXCEPT !.verdict = ""]),
         NEW r, r = IF d.verdict # "" THEN d ELSE IF t.verdict # "" THEN KEnd(d, t.verdict) ELSE KDecapEnd(d)
  PROVE  EndsEarly(r, p)
<1> DEFINE Calm(x) == /\ KRec(x) /\ x.lru = lru_mapping /\ x.by = "" /\ x.vips = vip_map
                      /\ x.verdict \in {"", "XDP_DROP", "XDP_PASS", "again"}
<1>0. Calm(k) /\ k.verdict = "" BY DEF Open, Goes
<1>1. Calm(t)
  <2> DEFINE u == [k EXCEPT !.pkt.inner.ttl = @ - 1]
  <2>1. Calm(u) BY <1>0 DEF KRec, KFields
  <2>2. Calm(KEnd(k, "XDP_DROP")) BY <1>0 DEF KRec, KFields, KEnd
  <2>3. t = IF "inner_ip" \notin k.pkt.has THEN KEnd(k, "XDP_DROP")
            ELSE IF k.pkt.inner.ttl = 1 THEN KEnd(u, "XDP_DROP") ELSE u
    BY DEF decrement_ttl
  <2> HIDE DEF u
  <2>4. Calm(KEnd(u, "XDP_DROP")) BY <2>1 DEF KRec, KFields, KEnd
  <2> QED BY <2>1, <2>2, <2>3, <2>4
<1>2. Calm([t EXCEPT !.verdict = ""]) BY <1>1 DEF KRec, KFields
<1> DEFINE w == [t EXCEPT !.verdict = ""]
<1> HIDE DEF w
<1>3. Calm(w) BY <1>2 DEF w
<1>4. d = KUnwrap(w) BY DEF w
<1>5. Calm(d)
  <2> DEFINE pk == [w.pkt.inner EXCEPT !.room = w.pkt.room]
  <2>1. d = IF ~w.pkt.room THEN KEnd(w, "XDP_DROP") ELSE [w EXCEPT !.pkt = pk] BY <1>4 DEF KUnwrap
  <2> HIDE DEF pk
  <2>2. Calm([w EXCEPT !.pkt = pk]) BY <1>3 DEF KRec, KFields
  <2>3. Calm(KEnd(w, "XDP_DROP")) BY <1>3 DEF KEnd, KRec, KFields
  <2> QED BY <2>1, <2>2, <2>3
<1>6. r.verdict # "" /\ r.verdict # "XDP_TX" /\ KRec(r) /\ r.lru = lru_mapping /\ r.by = "" /\ r.vips = vip_map
  <2>1. CASE d.verdict # "" BY <1>5, <2>1
  <2>2. CASE d.verdict = "" /\ t.verdict # "" BY <1>1, <1>5, <2>2 DEF KEnd, KRec, KFields
  <2>3. CASE d.verdict = "" /\ t.verdict = ""
    BY <1>5, <2>3 DEF KDecapEnd, recirculate, KEnd, KRec, KFields
  <2> QED BY <2>1, <2>2, <2>3
<1> QED BY <1>6 DEF EndsEarly, Ends

\* process_encaped_ipip_pckt and process_encaped_gue_pckt.
LEMMA DecapEnds ==
  ASSUME NEW k, NEW p, Open(k, p), k.vips = vip_map
  PROVE  /\ EndsEarly(process_encaped_ipip_pckt(check_decap_dst(k)), p)
         /\ EndsEarly(process_encaped_gue_pckt(check_decap_dst(k)), p)
<1> DEFINE c == check_decap_dst(k)
           t == decrement_ttl(c, c.pkt.inner)
           d == KUnwrap([t EXCEPT !.verdict = ""])
           r == IF d.verdict # "" THEN d ELSE IF t.verdict # "" THEN KEnd(d, t.verdict) ELSE KDecapEnd(d)
<1>1. Open(c, p) /\ c.vips = vip_map BY DEF check_decap_dst, Open, Goes, KRec, KFields
<1>2. EndsEarly(r, p) BY <1>1, TunnelEnds
<1> HIDE DEF c
<1>3. process_encaped_ipip_pckt(c) = r /\ process_encaped_gue_pckt(c) = r
  BY DEF process_encaped_ipip_pckt, process_encaped_gue_pckt, KDecapWith, decap_v4, decap_v6,
         gue_decap_v4, gue_decap_v6
<1> HIDE DEF r
<1> QED BY <1>2, <1>3 DEF c

\* ParseTransport: the run ends, or the flow is the connection.
LEMMA TransportParsed ==
  ASSUME NEW k, NEW p, L3(k, p)
  PROVE  EndsEarly(ParseTransport(k), p) \/ L4(ParseTransport(k), p)
<1>1. Open(k, p) /\ k.vips = vip_map BY DEF L3
<1>2. EndsEarly(process_encaped_ipip_pckt(check_decap_dst(k)), p) BY <1>1, DecapEnds
<1>3. EndsEarly(parse_tcp(k), p) \/ L4(parse_tcp(k), p) BY TcpParsed
<1>4. EndsEarly(KEnd(k, "XDP_PASS"), p) BY <1>1, EndEarly
<1> DEFINE u == parse_udp(k)
<1>5. EndsEarly(u, p) \/ L4(u, p) BY UdpParsed
<1> HIDE DEF u
<1>6. L4(u, p) => EndsEarly(process_encaped_gue_pckt(check_decap_dst(u)), p) BY DecapEnds DEF L4
<1>7. EndsEarly(u, p) => u.verdict # "" BY DEF EndsEarly, Ends
<1> QED BY <1>2, <1>3, <1>4, <1>5, <1>6, <1>7 DEF ParseTransport, u

-----------------------------------------------------------------------------
(* The VIP, and the servers that a packet names itself.                    *)

\* The key of the VIP that a flow belongs to.
VipKey(f) == [ip |-> f.dst, port |-> f.dport, proto |-> f.proto]
\* The VIP that takes every port.
AnyPort(v) == [v EXCEPT !.port = 0]
\* VIPs whose flows the connection table keeps together.
Clean(v) == v \in DOMAIN vip_map /\ vip_map[v].flags \cap {"F_LRU_BYPASS", "F_HASH_DPORT_ONLY"} = {}
\* vip_map as the run has it: a VIP that was hit has another ring.
SameVips(vips) ==
  /\ DOMAIN vips = DOMAIN vip_map
  /\ \A v \in DOMAIN vip_map : DOMAIN vips[v] = {"flags", "vip_num"} /\ vips[v].flags = vip_map[v].flags
\* vip_map has entries of struct vip_meta.
VipsAreRecords == \A v \in DOMAIN vip_map : DOMAIN vip_map[v] = {"flags", "vip_num"}

\* The VIP and what the lookup has made of the flow.
Served(k, p) ==
  LET c == Conn(p) IN
  /\ SameVips(k.vips) /\ k.vip \in DOMAIN vip_map
  /\ \/ k.vip = VipKey(c) /\ k.flow = c
     \/ /\ k.vip = AnyPort(VipKey(c)) /\ VipKey(c) \notin DOMAIN vip_map /\ k.flow = c
        /\ "F_HASH_DPORT_ONLY" \in vip_map[k.vip].flags
     \/ /\ k.vip = AnyPort(VipKey(c)) /\ VipKey(c) \notin DOMAIN vip_map /\ k.flow = [c EXCEPT !.dport = 0]
        /\ "F_HASH_DPORT_ONLY" \notin vip_map[k.vip].flags
\* The same stages once vip_map may have been written.
EndsLate(k, p) == Ends(k, p) /\ SameVips(k.vips)
OpenVip(k, p) == Open(k, p) /\ Served(k, p)

\* vip_map as it was is vip_map up to the rings.
LEMMA EarlyIsLate ==
  ASSUME VipsAreRecords, NEW k, NEW p, EndsEarly(k, p) PROVE EndsLate(k, p)
BY DEF EndsEarly, EndsLate, VipsAreRecords, SameVips

\* Hitting a VIP.
LEMMA HitServes ==
  ASSUME VipsAreRecords, NEW k, NEW p, Open(k, p), k.vips = vip_map, NEW v \in DOMAIN vip_map
  PROVE  Open(KHit(k, v), p) /\ SameVips(KHit(k, v).vips) /\ KHit(k, v).vip = v /\ KHit(k, v).flow = k.flow
<1> DEFINE t == KHit(k, v)
           w == [vip_map EXCEPT ![v].vip_num = 7]
<1>0. KRec(k) BY DEF Open, Goes
<1>1. t = [k EXCEPT !.vip = v, !.vips = w] BY <1>0 DEF KHit, KRec, KFields
<1>2. SameVips(w) BY DEF VipsAreRecords, SameVips
<1> HIDE DEF t, w
<1>3. Open(t, p) /\ t.vips = w /\ t.vip = v /\ t.flow = k.flow BY <1>0, <1>1 DEF Open, Goes, KRec, KFields
<1> QED BY <1>2, <1>3 DEF t

\* LookupVip: the VIP with the port, the one without, or none.
LEMMA VipFound ==
  ASSUME VipsAreRecords, NEW k, NEW p, L4(k, p)
  PROVE  EndsLate(LookupVip(k), p) \/ OpenVip(LookupVip(k), p)
<1> DEFINE c == Conn(p)
           any == AnyPort(VipKey(c))
           z == [k EXCEPT !.flow.dport = 0]
<1>1. Open(k, p) /\ k.vips = vip_map /\ k.flow = c /\ KRec(k) BY DEF L4, Open, Goes
<1>2. LookupVip(k) = IF VipKey(c) \in DOMAIN k.vips THEN KHit(k, VipKey(c))
                     ELSE IF any \notin DOMAIN k.vips THEN KEnd(k, "XDP_PASS")
                     ELSE IF "F_HASH_DPORT_ONLY" \in k.vips[any].flags THEN KHit(k, any)
                     ELSE KHit(z, any)
  BY <1>1 DEF LookupVip, VipKey, AnyPort
<1>3. Open(z, p) /\ z.vips = vip_map /\ z.flow = [c EXCEPT !.dport = 0]
  BY <1>1 DEF Open, Goes, KRec, KFields, KFlowFields
<1> HIDE DEF c, z
<1>4. EndsLate(KEnd(k, "XDP_PASS"), p) BY <1>1, EndEarly, EarlyIsLate
<1>5. CASE VipKey(c) \in DOMAIN vip_map
  <2>1. LookupVip(k) = KHit(k, VipKey(c)) BY <1>1, <1>2, <1>5
  <2>2. OpenVip(KHit(k, VipKey(c)), p) BY <1>1, <1>5, HitServes DEF OpenVip, Served, c
  <2> QED BY <2>1, <2>2
<1>6. CASE VipKey(c) \notin DOMAIN vip_map /\ any \in DOMAIN vip_map
  <2> HIDE DEF any
  <2>0. \A x : x.vip = any /\ x.vip \in DOMAIN vip_map => x.vip = AnyPort(VipKey(Conn(p))) BY DEF any, c
  <2>1. CASE "F_HASH_DPORT_ONLY" \in vip_map[any].flags
    <3>1. LookupVip(k) = KHit(k, any) BY <1>1, <1>2, <1>6, <2>1
    <3> DEFINE r == KHit(k, any)
    <3>2. Open(r, p) /\ SameVips(r.vips) /\ r.vip = any /\ r.flow = k.flow BY <1>1, <1>6, HitServes
    <3> HIDE DEF r
    <3>3. OpenVip(r, p) BY <1>1, <1>6, <2>1, <3>2 DEF OpenVip, Served, c, any
    <3> QED BY <3>1, <3>3 DEF r
  <2>2. CASE "F_HASH_DPORT_ONLY" \notin vip_map[any].flags
    <3>1. LookupVip(k) = KHit(z, any) BY <1>1, <1>2, <1>6, <2>2
    <3> DEFINE r == KHit(z, any)
    <3>2. Open(r, p) /\ SameVips(r.vips) /\ r.vip = any /\ r.flow = z.flow BY <1>3, <1>6, HitServes
    <3> HIDE DEF r
    <3>3. OpenVip(r, p) BY <1>3, <1>6, <2>2, <3>2 DEF OpenVip, Served, c, any
    <3> QED BY <3>1, <3>3 DEF r
  <2> QED BY <2>1, <2>2
<1>7. CASE VipKey(c) \notin DOMAIN vip_map /\ any \notin DOMAIN vip_map BY <1>1, <1>2, <1>4, <1>7
<1> QED BY <1>5, <1>6, <1>7

\* A packet that is too big is refused.
LEMMA TooBigEnds ==
  ASSUME NEW k, NEW p, Open(k, p)
  PROVE  Ends(send_icmp_too_big(k), p) /\ send_icmp_too_big(k).vips = k.vips
<1>0. KRec(k) /\ k.pkt = p BY DEF Open, Goes
<1>1. Ends(KEnd(k, "XDP_DROP"), p) /\ KEnd(k, "XDP_DROP").vips = k.vips BY EndEnds
<1>2. ASSUME NEW o, "proto" \in DOMAIN p => o.proto = "ICMP"
      PROVE  LET r == [k EXCEPT !.verdict = "XDP_TX", !.out = o] IN Ends(r, p) /\ r.vips = k.vips
  BY <1>0, <1>2 DEF Open, Goes, Ends, KRec, KFields, Hides
<1> DEFINE o4 == [k.pkt EXCEPT !.proto = "ICMP", !.icmp = "unreach", !.ttl = 64, !.src = k.pkt.dst,
                               !.dst = k.pkt.src, !.big = FALSE, !.inner = k.pkt]
           o6 == [k.pkt EXCEPT !.proto = "ICMP", !.icmp = "too_big", !.ttl = 64, !.src = k.pkt.dst,
                               !.dst = k.pkt.src, !.big = FALSE, !.inner = k.pkt]
<1>3. "proto" \in DOMAIN p => o4.proto = "ICMP" /\ o6.proto = "ICMP" BY <1>0
<1>4. send_icmp4_too_big(k) = IF ~k.pkt.room THEN KEnd(k, "XDP_DROP") ELSE [k EXCEPT !.verdict = "XDP_TX", !.out = o4]
  BY DEF send_icmp4_too_big
<1>5. send_icmp6_too_big(k) = IF ~k.pkt.room THEN KEnd(k, "XDP_DROP") ELSE [k EXCEPT !.verdict = "XDP_TX", !.out = o6]
  BY DEF send_icmp6_too_big
<1> HIDE DEF o4, o6
<1>6. Ends(send_icmp4_too_big(k), p) /\ send_icmp4_too_big(k).vips = k.vips BY <1>1, <1>2, <1>3, <1>4
<1>7. Ends(send_icmp6_too_big(k), p) /\ send_icmp6_too_big(k).vips = k.vips BY <1>1, <1>2, <1>3, <1>5
<1> QED BY <1>6, <1>7 DEF send_icmp_too_big

\* RefuseBig.
LEMMA BigRefused ==
  ASSUME NEW k, NEW p, OpenVip(k, p)
  PROVE  EndsLate(RefuseBig(k), p) \/ OpenVip(RefuseBig(k), p)
<1>1. Open(k, p) /\ SameVips(k.vips) BY DEF OpenVip, Served
<1>2. EndsLate(KEnd(k, "XDP_DROP"), p) BY <1>1, EndEnds DEF EndsLate
<1>3. EndsLate(send_icmp_too_big(k), p) BY <1>1, TooBigEnds DEF EndsLate
<1> QED BY <1>2, <1>3 DEF RefuseBig

\* A server that the packet names itself.
Routed(k, p) == Goes(k, p) /\ Served(k, p) /\ \/ k.by = "" /\ k.real = KNone
                                              \/ k.by = "quic" /\ k.real # KNone
\* QuicRoute.
LEMMA QuicRouted ==
  ASSUME NEW k, NEW p, OpenVip(k, p), KNone \notin DOMAIN reals
  PROVE  EndsLate(QuicRoute(k), p) \/ Routed(QuicRoute(k), p)
<1>1. Goes(k, p) /\ KRec(k) /\ k.by = "" /\ k.real = KNone /\ Served(k, p) BY DEF OpenVip, Open, Goes
<1>2. Routed(k, p) BY <1>1 DEF Routed
<1>3. ASSUME NEW real \in DOMAIN reals PROVE Routed([k EXCEPT !.real = real, !.by = "quic"], p)
  BY <1>1 DEF Routed, Goes, Served, KRec, KFields
<1>4. ASSUME NEW real PROVE EndsLate(KEnd([k EXCEPT !.real = real], "XDP_DROP"), p)
  BY <1>1 DEF KEnd, EndsLate, Ends, Goes, Served, KRec, KFields
<1> QED BY <1>2, <1>3, <1>4 DEF QuicRoute

-----------------------------------------------------------------------------
(* Choosing the server.                                                    *)

\* The flow the table is asked for, and the VIP it is of: of a VIP that keeps
\* connections together it is their group; of any other it is no group's.
Ready(k, p) ==
  /\ Goes(k, p) /\ k.by = "" /\ k.real = KNone /\ SameVips(k.vips) /\ k.vip \in DOMAIN vip_map
  /\ Clean(k.vip) => k.flow = Group(p) /\ VipKey(k.flow) = k.vip
  /\ ~Clean(k.vip) => ~Clean(VipKey(k.flow))

\* Group, by the names used here.
LEMMA GroupOf ==
  ASSUME NEW p, NEW c, c = Conn(p), NEW vip, vip = IF VipKey(c) \in DOMAIN vip_map THEN VipKey(c) ELSE AnyPort(VipKey(c))
  PROVE  Group(p) = [c EXCEPT !.dport = IF vip = VipKey(c) THEN @ ELSE 0,
                              !.sport = IF "F_HASH_NO_SRC_PORT" \in vip_map[vip].flags THEN 0 ELSE @]
BY DEF Group, Conn, VipKey, AnyPort

\* A VIP without its port.
LEMMA PortErased ==
  ASSUME NEW a, NEW b, NEW c
  PROVE  AnyPort([ip |-> a, port |-> b, proto |-> c]) = [ip |-> a, port |-> 0, proto |-> c]
<1> DEFINE S == {"ip", "port", "proto"}
           f == AnyPort([ip |-> a, port |-> b, proto |-> c])
           g == [ip |-> a, port |-> 0, proto |-> c]
<1>1. f = [x \in S |-> f[x]] BY DEF AnyPort
<1>2. g = [x \in S |-> g[x]] OBVIOUS
<1>3. \A x \in S : f[x] = g[x] BY DEF AnyPort
<1> HIDE DEF f, g
<1>4. f = g BY <1>1, <1>2, <1>3
<1> QED BY <1>4 DEF f, g

\* The flow ChooseReal asks for, with F_HASH_NO_SRC_PORT or without.
LEMMA AskedFlow ==
  ASSUME NEW k, NEW p, Goes(k, p), Served(k, p), k.by = "", k.real = KNone,
         NEW f, f = IF "F_HASH_NO_SRC_PORT" \in k.vips[k.vip].flags THEN [k EXCEPT !.flow.sport = 0] ELSE k
  PROVE  Ready(f, p) /\ f.flags = k.flags /\ f.vip = k.vip /\ f.vips = k.vips
<1> DEFINE c == Conn(p)
           nosrc == "F_HASH_NO_SRC_PORT" \in vip_map[k.vip].flags
<1>0. c = [x \in KFlowFields |-> c[x]] BY DEF Conn, KFlowFields
<1>1. KRec(k) /\ SameVips(k.vips) /\ k.vip \in DOMAIN vip_map /\ k.vips[k.vip].flags = vip_map[k.vip].flags
  BY DEF Goes, Served, SameVips
<1>2. /\ Goes(f, p) /\ f.by = "" /\ f.real = KNone /\ f.vips = k.vips /\ f.vip = k.vip /\ f.flags = k.flags
      /\ f.flow = IF nosrc THEN [k.flow EXCEPT !.sport = 0] ELSE k.flow
  BY <1>1 DEF Goes, KRec, KFields, KFlowFields
<1>3. VipKey(f.flow) = VipKey(k.flow) BY <1>1, <1>2 DEF VipKey, KRec, KFlowFields
<1>4. \/ k.vip = VipKey(c) /\ k.flow = c
      \/ k.vip = AnyPort(VipKey(c)) /\ VipKey(c) \notin DOMAIN vip_map /\ k.flow = c /\ ~Clean(k.vip)
      \/ k.vip = AnyPort(VipKey(c)) /\ VipKey(c) \notin DOMAIN vip_map /\ k.flow = [c EXCEPT !.dport = 0]
  BY DEF Served, Clean
<1> HIDE DEF c
<1>5. VipKey([c EXCEPT !.dport = 0]) = AnyPort(VipKey(c))
  <2> DEFINE d == [c EXCEPT !.dport = 0]
  <2>1. d.dst = c.dst /\ d.dport = 0 /\ d.proto = c.proto BY <1>0 DEF KFlowFields
  <2> HIDE DEF d
  <2>3. VipKey(d) = [ip |-> c.dst, port |-> 0, proto |-> c.proto] BY <2>1 DEF VipKey
  <2>4. AnyPort([ip |-> c.dst, port |-> c.dport, proto |-> c.proto]) = [ip |-> c.dst, port |-> 0, proto |-> c.proto]
    BY PortErased
  <2>2. VipKey(d) = AnyPort(VipKey(c)) BY <2>3, <2>4 DEF VipKey
  <2> QED BY <2>2 DEF d
<1>6. ASSUME Clean(k.vip) PROVE f.flow = Group(p) /\ VipKey(f.flow) = k.vip
  <2>1. k.vip = IF VipKey(c) \in DOMAIN vip_map THEN VipKey(c) ELSE AnyPort(VipKey(c)) BY <1>1, <1>4, <1>6
  <2>2. Group(p) = [c EXCEPT !.dport = IF k.vip = VipKey(c) THEN @ ELSE 0, !.sport = IF nosrc THEN 0 ELSE @]
    BY <2>1, GroupOf DEF c
  <2>3. CASE k.vip = VipKey(c) /\ k.flow = c
    <3>1. Group(p) = IF nosrc THEN [c EXCEPT !.sport = 0] ELSE c BY <1>0, <2>2, <2>3 DEF KFlowFields
    <3> QED BY <1>2, <1>3, <2>3, <3>1
  <2>4. CASE k.vip = AnyPort(VipKey(c)) /\ VipKey(c) \notin DOMAIN vip_map /\ k.flow = [c EXCEPT !.dport = 0]
    <3>1. k.vip # VipKey(c) BY <1>1, <2>4
    <3>2. Group(p) = IF nosrc THEN [k.flow EXCEPT !.sport = 0] ELSE k.flow
      BY <1>0, <2>2, <2>4, <3>1 DEF KFlowFields
    <3> QED BY <1>2, <1>3, <1>5, <2>4, <3>2
  <2> QED BY <1>4, <1>6, <2>3, <2>4
<1>7. ASSUME ~Clean(k.vip) PROVE ~Clean(VipKey(f.flow))
  BY <1>3, <1>4, <1>5, <1>7 DEF Clean
<1> QED BY <1>1, <1>2, <1>6, <1>7 DEF Ready

\* Entries of the connection table name servers that are there.
Entries(m) == \A f \in DOMAIN m : DOMAIN m[f] = {"pos", "atime"} /\ m[f].pos \in DOMAIN reals

\* The run used the table for a VIP that keeps nothing together: no group's
\* entry is touched.
Apart(k) ==
  /\ k.by \in {"lru", "ring", "source"} /\ k.vip \in DOMAIN vip_map /\ ~Clean(k.vip) /\ Entries(k.lru)
  /\ \A g : Clean(VipKey(g)) =>
       /\ g \in DOMAIN lru_mapping <=> g \in DOMAIN k.lru
       /\ g \in DOMAIN lru_mapping => k.lru[g] = lru_mapping[g]
\* The entry of the group is followed, or there is none to follow and a server
\* is chosen, and recorded but for a flood.
Follows(k, g) ==
  /\ k.by = "lru" /\ k.flood = FALSE /\ g \in DOMAIN lru_mapping /\ k.real = lru_mapping[g].pos
  /\ k.lru = IF g.proto = "UDP" THEN [lru_mapping EXCEPT ![g].atime = ktime] ELSE lru_mapping
\* The packet opens a connection, or there is no entry that is still good.
NoEntry(k, g) ==
  \/ "F_SYN_SET" \in k.flags
  \/ g \notin DOMAIN lru_mapping
  \/ g.proto = "UDP" /\ ktime - lru_mapping[g].atime > LRU_UDP_TIMEOUT
Entry(k, g) == [pos |-> k.real, atime |-> IF g.proto = "UDP" THEN ktime ELSE 0]
Chooses(k, g) ==
  /\ k.by \in {"ring", "source"} /\ NoEntry(k, g)
  /\ k.lru = IF k.flood THEN lru_mapping ELSE KMapSet(lru_mapping, g, Entry(k, g))
Joins(k, p) ==
  /\ k.pkt = p /\ Clean(k.vip) /\ VipKey(Group(p)) = k.vip /\ k.real \in DOMAIN reals
  /\ Follows(k, Group(p)) \/ Chooses(k, Group(p))
\* The connection table was not used.
Quiet(k) == k.lru = lru_mapping /\ k.by \in {"", "quic"}
Outcome(k, p) == KRec(k) /\ SameVips(k.vips) /\ (Quiet(k) \/ Apart(k) \/ Joins(k, p))

\* The lookup: a hit, or the run as it was.
LEMMA LookedUp ==
  ASSUME NEW k, NEW p, Ready(k, p), Entries(lru_mapping), KNone \notin DOMAIN reals,
         "F_LRU_BYPASS" \notin vip_map[k.vip].flags
  PROVE  LET l == connection_table_lookup(k) IN
         \/ l = k /\ NoEntry(k, k.flow)
         \/ l.real # KNone /\ l.verdict = "" /\ l.pkt = p /\ Outcome(l, p) /\ l.flow = k.flow
<1> DEFINE g == k.flow
           e == lru_mapping[g]
           h == [k EXCEPT !.real = e.pos, !.by = "lru"]
           m == [lru_mapping EXCEPT ![g].atime = ktime]
           u == [h EXCEPT !.lru = m]
           l == connection_table_lookup(k)
<1>1. KRec(k) /\ k.lru = lru_mapping /\ k.now = ktime /\ k.pkt = p /\ k.verdict = "" /\ k.flood = FALSE
      /\ SameVips(k.vips) /\ k.vip \in DOMAIN vip_map
  BY DEF Ready, Goes
<1>2. [h EXCEPT !.lru[k.flow].atime = k.now] = u BY <1>1 DEF KRec, KFields
<1>3. l = IF g \notin DOMAIN lru_mapping THEN k
          ELSE IF g.proto # "UDP" THEN h
          ELSE IF ktime - e.atime > LRU_UDP_TIMEOUT THEN k ELSE u
  BY <1>1, <1>2 DEF connection_table_lookup
<1> HIDE DEF l
<1>4. CASE g \notin DOMAIN lru_mapping \/ (g.proto = "UDP" /\ ktime - e.atime > LRU_UDP_TIMEOUT)
  <2>1. l = k /\ NoEntry(k, k.flow) BY <1>3, <1>4 DEF NoEntry
  <2> QED BY <2>1 DEF l
<1>5. CASE g \in DOMAIN lru_mapping /\ ~(g.proto = "UDP" /\ ktime - e.atime > LRU_UDP_TIMEOUT)
  <2>1. e.pos \in DOMAIN reals /\ e.pos # KNone BY <1>5 DEF Entries
  <2>2. l = (IF g.proto = "UDP" THEN u ELSE h) BY <1>3, <1>5
  <2> DEFINE M == IF g.proto = "UDP" THEN m ELSE lru_mapping
  <2> HIDE DEF g, e, m
  <2>3. /\ KRec(l) /\ l.real = e.pos /\ l.by = "lru" /\ l.lru = M /\ l.flow = k.flow /\ l.verdict = ""
        /\ l.pkt = p /\ l.vips = k.vips /\ l.vip = k.vip /\ l.flood = FALSE /\ l.flags = k.flags
    BY <1>1, <2>2 DEF KRec, KFields
  <2>4. CASE Clean(k.vip)
    <3>1. g = Group(p) /\ VipKey(g) = k.vip BY <2>4 DEF Ready, g
    <3>2. Follows(l, g) BY <1>5, <2>3 DEF Follows, m, e
    <3>3. Joins(l, p) BY <2>1, <2>3, <2>4, <3>1, <3>2 DEF Joins
    <3>4. Outcome(l, p) BY <1>1, <2>3, <3>3 DEF Outcome
    <3> QED BY <2>1, <2>3, <3>4 DEF l
  <2>5. CASE ~Clean(k.vip)
    <3>1. ~Clean(VipKey(g)) BY <2>5 DEF Ready, g
    <3>2. Entries(M) BY <1>5, <2>1 DEF Entries, m, e
    <3>3. /\ DOMAIN M = DOMAIN lru_mapping
          /\ \A x \in DOMAIN lru_mapping : x # g => M[x] = lru_mapping[x]
      BY DEF m
    <3>4. Apart(l) BY <1>1, <2>3, <2>5, <3>1, <3>2, <3>3 DEF Apart
    <3>5. Outcome(l, p) BY <1>1, <2>3, <3>4 DEF Outcome
    <3> QED BY <2>1, <2>3, <3>5 DEF l
  <2> QED BY <2>4, <2>5
<1> QED BY <1>4, <1>5

\* What get_packet_dst starts from: nothing is known of the flow.
Unknown(k, p) == Ready(k, p) /\ (Clean(k.vip) => NoEntry(k, k.flow))

\* The server that get_packet_dst has found, before it is recorded.
Found(k, p) ==
  /\ KRec(k) /\ k.verdict = "" /\ k.lru = lru_mapping /\ k.pkt = p /\ k.now = ktime
  /\ SameVips(k.vips) /\ k.vip \in DOMAIN vip_map
  /\ k.by \in {"ring", "source"} /\ k.real \in DOMAIN reals
  /\ Clean(k.vip) => k.flow = Group(p) /\ VipKey(k.flow) = k.vip /\ NoEntry(k, k.flow)
  /\ ~Clean(k.vip) => ~Clean(VipKey(k.flow))

\* KRecord: the choice becomes an entry, but for a bypass or a flood.
LEMMA Recorded ==
  ASSUME NEW k, NEW p, Found(k, p), Entries(lru_mapping)
  PROVE  Outcome(KRecord(k), p)
<1> DEFINE bypass == "F_LRU_BYPASS" \in vip_map[k.vip].flags
           g == k.flow
           v == [pos |-> k.real, atime |-> IF g.proto = "UDP" THEN ktime ELSE 0]
           M == KMapSet(lru_mapping, g, v)
           r == KRecord(k)
<1>1. /\ KRec(k) /\ k.lru = lru_mapping /\ k.pkt = p /\ k.now = ktime /\ SameVips(k.vips)
      /\ k.vip \in DOMAIN vip_map /\ k.by \in {"ring", "source"} /\ k.real \in DOMAIN reals
      /\ k.vips[k.vip].flags = vip_map[k.vip].flags
  BY DEF Found, SameVips
<1>2. r = IF bypass \/ k.flood THEN k ELSE [k EXCEPT !.lru = M] BY <1>1 DEF KRecord
<1>3. /\ DOMAIN M = DOMAIN lru_mapping \cup {g} /\ M[g] = v
      /\ \A x \in DOMAIN lru_mapping : x # g => M[x] = lru_mapping[x]
  BY DEF KMapSet
<1>4. DOMAIN v = {"pos", "atime"} /\ v.pos = k.real OBVIOUS
<1> HIDE DEF v, r, g
<1>6. Entries(M) BY <1>1, <1>3, <1>4 DEF Entries
<1>5. M = KMapSet(lru_mapping, g, v) OBVIOUS
<1> HIDE DEF M
<1>7. /\ KRec(r) /\ r.vips = k.vips /\ r.vip = k.vip /\ r.by = k.by /\ r.real = k.real /\ r.pkt = k.pkt
      /\ r.flags = k.flags /\ r.flood = k.flood
      /\ r.lru = IF bypass \/ k.flood THEN lru_mapping ELSE M
  BY <1>1, <1>2 DEF KRec, KFields
<1>8. CASE Clean(k.vip)
  <2>1. g = Group(p) /\ VipKey(g) = k.vip /\ NoEntry(k, g) /\ ~bypass BY <1>8 DEF Found, Clean, g
  <2>2. v = Entry(r, g) BY <1>7 DEF v, Entry
  <2>3. Chooses(r, g) BY <1>1, <1>5, <1>7, <2>1, <2>2 DEF Chooses, NoEntry
  <2>4. Joins(r, p) BY <1>1, <1>7, <1>8, <2>1, <2>3 DEF Joins
  <2>5. Outcome(r, p) BY <1>1, <1>7, <2>4 DEF Outcome
  <2> QED BY <2>5 DEF r
<1>9. CASE ~Clean(k.vip)
  <2>1. ~Clean(VipKey(g)) BY <1>9 DEF Found, g
  <2>2. Apart(r)
    <3>1. Entries(r.lru) BY <1>6, <1>7
    <3>2. ASSUME NEW x, Clean(VipKey(x))
          PROVE  /\ x \in DOMAIN lru_mapping <=> x \in DOMAIN r.lru
                 /\ x \in DOMAIN lru_mapping => r.lru[x] = lru_mapping[x]
      BY <1>3, <1>7, <2>1, <3>2
    <3> QED BY <1>1, <1>7, <1>9, <3>1, <3>2 DEF Apart
  <2>3. Outcome(r, p) BY <1>1, <1>7, <2>2 DEF Outcome
  <2> QED BY <2>3 DEF r
<1> QED BY <1>8, <1>9

\* The ring's key is computed; only a flow of an untracked VIP is changed.
LEMMA RingKey ==
  ASSUME NEW k, KRec(k), SameVips(k.vips), k.vip \in DOMAIN vip_map
  PROVE  LET r == KRingKey(k) IN
         /\ KRec(r) /\ r.lru = k.lru /\ r.pkt = k.pkt /\ r.now = k.now /\ r.vips = k.vips /\ r.vip = k.vip
         /\ r.by = k.by /\ r.real = k.real /\ r.flood = k.flood /\ r.flags = k.flags /\ r.verdict = k.verdict
         /\ VipKey(r.flow) = VipKey(k.flow) /\ (Clean(k.vip) => r.flow = k.flow)
<1> DEFINE donly == "F_HASH_DPORT_ONLY" \in k.vips[k.vip].flags
           f == IF donly THEN [k EXCEPT !.flow.sport = k.flow.dport, !.flow.src = 0] ELSE k
           key == RING_SIZE * k.vips[k.vip].vip_num + (get_packet_hash(f) % RING_SIZE)
           r == KRingKey(k)
<1>1. r = [f EXCEPT !.key = key] BY DEF KRingKey
<1>2. Clean(k.vip) => ~donly BY DEF Clean, SameVips
<1>3. /\ KRec(f) /\ f.lru = k.lru /\ f.pkt = k.pkt /\ f.now = k.now /\ f.vips = k.vips /\ f.vip = k.vip
      /\ f.by = k.by /\ f.real = k.real /\ f.flood = k.flood /\ f.flags = k.flags /\ f.verdict = k.verdict
      /\ f.flow.dst = k.flow.dst /\ f.flow.dport = k.flow.dport /\ f.flow.proto = k.flow.proto
      /\ (~donly => f = k)
  BY DEF KRec, KFields, KFlowFields
<1> HIDE DEF f, key, r, donly
<1>4. /\ KRec(r) /\ r.lru = f.lru /\ r.pkt = f.pkt /\ r.now = f.now /\ r.vips = f.vips /\ r.vip = f.vip
      /\ r.by = f.by /\ r.real = f.real /\ r.flood = f.flood /\ r.flags = f.flags /\ r.verdict = f.verdict
      /\ r.flow = f.flow
  BY <1>1, <1>3 DEF KRec, KFields
<1> QED BY <1>2, <1>3, <1>4 DEF VipKey, r

\* Counting the connection changes the rate and says whether it is too high.
LEMMA Counted ==
  ASSUME NEW k, KRec(k)
  PROVE  LET r == is_under_flood(k) IN
         /\ KRec(r) /\ r.lru = k.lru /\ r.pkt = k.pkt /\ r.now = k.now /\ r.vips = k.vips /\ r.vip = k.vip
         /\ r.by = k.by /\ r.real = k.real /\ r.flags = k.flags /\ r.verdict = k.verdict /\ r.flow = k.flow
<1> DEFINE a == [k EXCEPT !.rate = [v1 |-> 1, v2 |-> k.now], !.flood = FALSE]
           w == k.rate.v1 + 1 > MAX_CONN_RATE
           x == [k.rate EXCEPT !.v1 = @ + 1]
           b == [k EXCEPT !.rate = x, !.flood = w]
<1>1. is_under_flood(k) = a \/ is_under_flood(k) = b BY DEF is_under_flood, KRec, KFields
<1> HIDE DEF w, x
<1> QED BY <1>1 DEF KRec, KFields

\* A server from the routes or the ring, or none.
LEMMA Destination ==
  ASSUME NEW k, NEW p, Unknown(k, p), Entries(lru_mapping), KConfigured
  PROVE  Outcome(get_packet_dst(k), p)
<1> DEFINE f == is_under_flood(k)
           r == KRingKey(f)
           src == KSrcRoute(f)
           s1 == [f EXCEPT !.real = src, !.by = "source"]
           s2 == KEnd(r, "XDP_DROP")
           s3 == [r EXCEPT !.real = ch_rings[r.key], !.by = "ring"]
           s == IF src # KNone THEN s1 ELSE IF r.key \notin DOMAIN ch_rings THEN s2 ELSE s3
<1>1. get_packet_dst(k) = IF s.verdict # "" THEN s
                          ELSE IF s.real \notin DOMAIN reals THEN KEnd(s, "XDP_DROP") ELSE KRecord(s)
  BY DEF get_packet_dst
<1>2. /\ KRec(k) /\ k.lru = lru_mapping /\ k.pkt = p /\ k.now = ktime /\ SameVips(k.vips)
      /\ k.vip \in DOMAIN vip_map /\ k.by = "" /\ k.verdict = ""
      /\ Clean(k.vip) => k.flow = Group(p) /\ VipKey(k.flow) = k.vip /\ NoEntry(k, k.flow)
      /\ ~Clean(k.vip) => ~Clean(VipKey(k.flow))
  BY DEF Unknown, Ready, Goes
<1>3. /\ KRec(f) /\ f.lru = k.lru /\ f.pkt = k.pkt /\ f.now = k.now /\ f.vips = k.vips /\ f.vip = k.vip
      /\ f.by = k.by /\ f.real = k.real /\ f.flags = k.flags /\ f.verdict = k.verdict /\ f.flow = k.flow
  BY <1>2, Counted
<1>4. src # KNone => src \in DOMAIN reals BY DEF KSrcRoute, KConfigured
<1> HIDE DEF f, src
<1>5. /\ KRec(r) /\ r.lru = f.lru /\ r.pkt = f.pkt /\ r.now = f.now /\ r.vips = f.vips /\ r.vip = f.vip
      /\ r.by = f.by /\ r.real = f.real /\ r.flood = f.flood /\ r.flags = f.flags /\ r.verdict = f.verdict
      /\ VipKey(r.flow) = VipKey(f.flow) /\ (Clean(f.vip) => r.flow = f.flow)
  BY <1>2, <1>3, RingKey
<1> HIDE DEF r
<1>6. src # KNone => Found(s1, p)
  <2> SUFFICES ASSUME src # KNone PROVE Found(s1, p) OBVIOUS
  <2>1. /\ KRec(s1) /\ s1.lru = f.lru /\ s1.pkt = f.pkt /\ s1.now = f.now /\ s1.vips = f.vips /\ s1.vip = f.vip
        /\ s1.by = "source" /\ s1.real = src /\ s1.flags = f.flags /\ s1.verdict = f.verdict /\ s1.flow = f.flow
    BY <1>3 DEF KRec, KFields
  <2> HIDE DEF s1
  <2> QED BY <1>2, <1>3, <1>4, <2>1 DEF Found, NoEntry
<1>7. r.key \in DOMAIN ch_rings => Found(s3, p)
  <2> SUFFICES ASSUME r.key \in DOMAIN ch_rings PROVE Found(s3, p) OBVIOUS
  <2>0. ch_rings[r.key] \in DOMAIN reals BY DEF KConfigured
  <2>1. /\ KRec(s3) /\ s3.lru = r.lru /\ s3.pkt = r.pkt /\ s3.now = r.now /\ s3.vips = r.vips /\ s3.vip = r.vip
        /\ s3.by = "ring" /\ s3.real = ch_rings[r.key] /\ s3.flags = r.flags /\ s3.verdict = r.verdict
        /\ s3.flow = r.flow
    BY <1>5 DEF KRec, KFields
  <2> HIDE DEF s3
  <2>2. /\ KRec(s3) /\ s3.verdict = "" /\ s3.lru = lru_mapping /\ s3.pkt = p /\ s3.now = ktime
        /\ SameVips(s3.vips) /\ s3.vip \in DOMAIN vip_map /\ s3.vip = k.vip
        /\ s3.by \in {"ring", "source"} /\ s3.real \in DOMAIN reals
    BY <1>2, <1>3, <1>5, <2>0, <2>1
  <2>3. Clean(s3.vip) => s3.flow = k.flow BY <1>2, <1>3, <1>5, <2>1
  <2>4. VipKey(s3.flow) = VipKey(k.flow) BY <1>2, <1>3, <1>5, <2>1
  <2>5. NoEntry(k, k.flow) => NoEntry(s3, k.flow) BY <1>2, <1>3, <1>5, <2>1 DEF NoEntry
  <2> QED BY <1>2, <2>2, <2>3, <2>4, <2>5 DEF Found
<1>8. Outcome(s2, p) /\ s2.verdict # ""
  <2>1. KRec(s2) /\ s2.lru = r.lru /\ s2.by = r.by /\ s2.vips = r.vips /\ s2.verdict = "XDP_DROP"
    BY <1>2, <1>3, <1>5 DEF KEnd, KRec, KFields
  <2> HIDE DEF s2
  <2> QED BY <1>2, <1>3, <1>5, <2>1 DEF Outcome, Quiet
<1> HIDE DEF s1, s2, s3
<1>9. CASE s = s2 BY <1>1, <1>8, <1>9
<1>10. CASE Found(s, p)
  <2> HIDE DEF s
  <2>1. s.verdict = "" /\ s.real \in DOMAIN reals BY <1>10 DEF Found
  <2>2. Outcome(KRecord(s), p) BY <1>10, Recorded
  <2> QED BY <1>1, <2>1, <2>2
<1> QED BY <1>6, <1>7, <1>9, <1>10

\* The choice of the server.
LEMMA RealChosen ==
  ASSUME NEW k, NEW p, Routed(k, p), Entries(lru_mapping), KConfigured
  PROVE  Outcome(ChooseReal(k), p)
<1> DEFINE f == IF "F_HASH_NO_SRC_PORT" \in k.vips[k.vip].flags THEN [k EXCEPT !.flow.sport = 0] ELSE k
           bypass == "F_LRU_BYPASS" \in k.vips[k.vip].flags
           l == IF "F_SYN_SET" \in k.flags \/ bypass THEN f ELSE connection_table_lookup(f)
<1>1. ChooseReal(k) = IF k.real # KNone THEN k ELSE IF l.real # KNone THEN l ELSE get_packet_dst(l)
  BY DEF ChooseReal
<1>2. KRec(k) /\ SameVips(k.vips) /\ k.lru = lru_mapping /\ k.vip \in DOMAIN vip_map /\ k.by \in {"", "quic"}
      /\ k.vips[k.vip].flags = vip_map[k.vip].flags
  BY DEF Routed, Goes, Served, SameVips
<1>3. CASE k.real # KNone
  <2>1. Outcome(k, p) BY <1>2 DEF Outcome, Quiet
  <2> QED BY <1>1, <1>3, <2>1
<1>4. CASE k.real = KNone
  <2>1. Goes(k, p) /\ Served(k, p) /\ k.by = "" BY <1>4 DEF Routed
  <2>2. Ready(f, p) /\ f.flags = k.flags /\ f.vip = k.vip /\ f.vips = k.vips BY <1>4, <2>1, AskedFlow
  <2> HIDE DEF f
  <2>3. f.real = KNone BY <2>2 DEF Ready
  <2>4. bypass => ~Clean(f.vip) BY <1>2, <2>2 DEF Clean
  <2>5. CASE "F_SYN_SET" \in k.flags \/ bypass
    <3>1. Unknown(f, p) BY <2>2, <2>4, <2>5 DEF Unknown, NoEntry
    <3> QED BY <1>1, <1>4, <2>3, <2>5, <3>1, Destination
  <2>6. CASE "F_SYN_SET" \notin k.flags /\ ~bypass
    <3>1. l = connection_table_lookup(f) BY <2>6
    <3> HIDE DEF l
    <3>2. \/ l = f /\ NoEntry(f, f.flow)
          \/ l.real # KNone /\ Outcome(l, p)
      BY <1>2, <2>2, <2>6, <3>1, LookedUp DEF KConfigured
    <3>3. CASE l = f /\ NoEntry(f, f.flow)
      <4>1. Unknown(f, p) BY <2>2, <3>3 DEF Unknown
      <4> QED BY <1>1, <1>4, <2>3, <3>3, <4>1, Destination
    <3>4. CASE l.real # KNone /\ Outcome(l, p) BY <1>1, <1>4, <3>4
    <3> QED BY <3>2, <3>3, <3>4
  <2> QED BY <2>5, <2>6
<1> QED BY <1>3, <1>4

\* A packet is only changed once its server is known.
LEMMA Sent ==
  ASSUME NEW k, NEW p, Outcome(k, p), NEW o
  PROVE  Outcome(KSend(k, o), p)
<1> DEFINE t == KSend(k, o)
<1>1. KRec(k) BY DEF Outcome
<1>2. /\ KRec(t) /\ t.lru = k.lru /\ t.pkt = k.pkt /\ t.vips = k.vips /\ t.vip = k.vip
      /\ t.by = k.by /\ t.real = k.real /\ t.flood = k.flood /\ t.flags = k.flags /\ t.flow = k.flow
  BY <1>1 DEF KSend, KEnd, KRec, KFields
<1> HIDE DEF t
<1>3. Outcome(t, p)
  BY <1>2 DEF Outcome, Quiet, Apart, Joins, Follows, Chooses, NoEntry, Entry
<1> QED BY <1>3 DEF t

\* Encapsulate.
LEMMA Encapsulated ==
  ASSUME NEW k, NEW p, Outcome(k, p)
  PROVE  Outcome(Encapsulate(k), p)
BY Sent DEF Encapsulate, gue_encap_v4, gue_encap_v6, encap_v4, encap_v6

\* A run that ended before a server was chosen.
LEMMA EndsIsOutcome == ASSUME NEW k, NEW p, EndsLate(k, p) PROVE Outcome(k, p) /\ k.verdict # ""
BY DEF EndsLate, Ends, Outcome, Quiet

\* process_packet up to the choice of a server.
Finish(e) ==
  LET f == IF e.verdict = "" THEN ChooseReal(e) ELSE e
  IN  IF f.verdict = "" THEN Encapsulate(f) ELSE f
LEMMA Staged ==
  ASSUME NEW k, NEW p, Fresh0(k, p), KConfigured
  PROVE  \E e : process_packet(k) = Finish(e) /\ (EndsLate(e, p) \/ Routed(e, p))
<1> DEFINE a == process_l3_headers(k)
           b == IF a.verdict = "" THEN ParseTransport(a) ELSE a
           c == IF b.verdict = "" THEN LookupVip(b) ELSE b
           d == IF c.verdict = "" THEN RefuseBig(c) ELSE c
           e == IF d.verdict = "" THEN QuicRoute(d) ELSE d
<1>0. VipsAreRecords /\ KNone \notin DOMAIN reals BY DEF KConfigured, VipsAreRecords
<1>1. process_packet(k) = Finish(e) BY DEF process_packet, KThen, Finish
<1>2. EndsEarly(a, p) \/ L3(a, p) BY HeadersParsed
<1> HIDE DEF a
<1>3. EndsEarly(b, p) \/ L4(b, p) BY <1>2, TransportParsed DEF EndsEarly, Ends, L3, Open, Goes
<1> HIDE DEF b
<1>4. EndsLate(c, p) \/ OpenVip(c, p)
  BY <1>0, <1>3, VipFound, EarlyIsLate DEF EndsEarly, Ends, L4, Open, Goes
<1> HIDE DEF c
<1>5. EndsLate(d, p) \/ OpenVip(d, p)
  BY <1>4, BigRefused DEF EndsLate, Ends, OpenVip, Open, Goes
<1> HIDE DEF d
<1>6. EndsLate(e, p) \/ Routed(e, p)
  BY <1>0, <1>5, QuicRouted DEF EndsLate, Ends, OpenVip, Open, Goes
<1> HIDE DEF e
<1> QED BY <1>1, <1>6

\* process_packet, whatever the packet.
LEMMA ProcessPacket ==
  ASSUME NEW k, NEW p, Fresh0(k, p), Entries(lru_mapping), KConfigured
  PROVE  Outcome(process_packet(k), p)
<1>1. PICK e : process_packet(k) = Finish(e) /\ (EndsLate(e, p) \/ Routed(e, p)) BY Staged
<1> DEFINE f == IF e.verdict = "" THEN ChooseReal(e) ELSE e
<1>2. Outcome(f, p) BY <1>1, RealChosen, EndsIsOutcome DEF Routed, Goes
<1>3. Finish(e) = IF f.verdict = "" THEN Encapsulate(f) ELSE f BY DEF Finish
<1> HIDE DEF f
<1> QED BY <1>1, <1>2, <1>3, Encapsulated

\* One run of the balancer, on any packet.
LEMMA Balanced ==
  ASSUME NEW p, Entries(lru_mapping), KConfigured
  PROVE  /\ Outcome(balancer_ingress(KRun(p)), p)
         /\ Outcome(KEnd(KRun(p), "XDP_PASS"), p)
<1> DEFINE k == KRun(p)
<1>1. Fresh0(k, p)
  BY DEF Fresh0, Open, Goes, KRec, KFields, KFlowFields, KRun
<1> HIDE DEF k
<1>2. Open(k, p) /\ k.vips = vip_map BY <1>1 DEF Fresh0
<1>3. VipsAreRecords BY DEF KConfigured, VipsAreRecords
<1>4. Outcome(KEnd(k, "XDP_DROP"), p) /\ Outcome(KEnd(k, "XDP_PASS"), p)
  BY <1>2, <1>3, EndEarly, EarlyIsLate, EndsIsOutcome
<1>5. Outcome(process_packet(k), p) BY <1>1, ProcessPacket
<1> QED BY <1>4, <1>5 DEF balancer_ingress, k

\* A packet's journey ends with such a run, of the packet or of the one in it.
LEMMA Delivered ==
  ASSUME NEW p, Entries(lru_mapping), KConfigured
  PROVE  \E q : Outcome(Deliver(p), q)
<1>1. ASSUME NEW q PROVE Outcome(xdp_root(KRun(q)), q)
  BY Balanced DEF xdp_root, pktcntr
<1> QED BY <1>1 DEF Deliver, Again
-----------------------------------------------------------------------------
(* The connection table.                                                   *)

\* What home says of a group, the connection table says too.
Held(g) ==
  /\ Clean(VipKey(g)) /\ g \in DOMAIN lru_mapping
  /\ lru_mapping[g].pos = home[g].real
  /\ g.proto = "UDP" => lru_mapping[g].atime = home[g].seen
\* The inductive invariant.
KatranInv == KConfigured /\ Entries(lru_mapping) /\ \A g \in DOMAIN home : Held(g)
\* What a step that gives a packet to a server keeps.
Affinity ==
  LET g == klast'.group
  IN  klast' # klast /\ g # KNone /\ ~klast'.syn /\ g \in DOMAIN home =>
        \/ klast'.real = home[g].real
        \/ g.proto = "UDP" /\ ktime - home[g].seen > LRU_UDP_TIMEOUT

\* Whether a VIP keeps connections together does not change.
LEMMA CleanKept ==
  ASSUME SameVips(vip_map') PROVE \A v : Clean(v)' <=> Clean(v)
BY DEF Clean, SameVips

\* An entry that is written and the group it is written for go together.
LEMMA TableKept ==
  ASSUME KatranInv, NEW g, NEW r, r \in DOMAIN reals, Clean(VipKey(g)), reals' = reals, \A v : Clean(v)' <=> Clean(v),
         DOMAIN lru_mapping' = DOMAIN lru_mapping \cup {g}, DOMAIN home' = DOMAIN home \cup {g},
         \A x \in DOMAIN lru_mapping : x # g => lru_mapping'[x] = lru_mapping[x],
         \A x \in DOMAIN home : x # g => home'[x] = home[x],
         DOMAIN lru_mapping'[g] = {"pos", "atime"}, lru_mapping'[g].pos = r,
         g.proto = "UDP" => lru_mapping'[g].atime = ktime, home'[g] = [real |-> r, seen |-> ktime]
  PROVE  Entries(lru_mapping)' /\ \A h \in DOMAIN home' : Held(h)'
<1>1. ASSUME NEW f \in DOMAIN lru_mapping'
      PROVE  DOMAIN lru_mapping'[f] = {"pos", "atime"} /\ lru_mapping'[f].pos \in DOMAIN reals
  BY <1>1 DEF KatranInv, Entries
<1>2. Entries(lru_mapping)' BY <1>1 DEF Entries
<1>3. Held(g)'
  <2>1. home'[g].real = r /\ home'[g].seen = ktime OBVIOUS
  <2> QED BY <2>1 DEF Held, VipKey
<1>4. ASSUME NEW h \in DOMAIN home, h # g PROVE Held(h)'
  <2>1. Held(h) BY DEF KatranInv
  <2>2. home'[h] = home[h] /\ lru_mapping'[h] = lru_mapping[h] BY <1>4, <2>1 DEF Held
  <2> QED BY <2>1, <2>2 DEF Held, VipKey
<1> QED BY <1>2, <1>3, <1>4

\* A run keeps the table and the homes together, and follows them.
LEMMA OutcomeKeeps ==
  ASSUME KatranInv, NEW k, NEW p, Outcome(k, p), KOutcome(k)
  PROVE  KatranInv' /\ Affinity
<1>1. /\ lru_mapping' = k.lru /\ vip_map' = k.vips /\ reals' = reals /\ ch_rings' = ch_rings
      /\ lpm_src' = lpm_src /\ SameVips(vip_map')
  BY DEF KOutcome, kconfig, Outcome
<1>2. KConfigured' BY <1>1 DEF KatranInv, KConfigured, SameVips
<1>3. \A v : Clean(v)' <=> Clean(v) BY <1>1, CleanKept
<1> DEFINE g == IF Tracked(k) THEN Group(k.pkt) ELSE KNone
<1>4. /\ klast' = [group |-> g, real |-> k.real, by |-> k.by, verdict |-> k.verdict,
                   syn |-> "F_SYN_SET" \in k.flags]
      /\ home' = NewHome(k, g)
  BY DEF KOutcome
<1>5. CASE Quiet(k)
  <2>1. ~Tracked(k) BY <1>5 DEF Quiet, Tracked
  <2>2. home' = home /\ lru_mapping' = lru_mapping BY <1>1, <1>4, <1>5, <2>1 DEF NewHome, Quiet
  <2>3. klast'.group = KNone BY <1>4, <2>1
  <2>4. \A h \in DOMAIN home : Held(h)' BY <1>3, <2>2 DEF KatranInv, Held, VipKey
  <2> QED BY <1>1, <1>2, <2>2, <2>3, <2>4 DEF KatranInv, Entries, Affinity
<1>6. CASE Apart(k)
  <2>1. ~Tracked(k) BY <1>6 DEF Apart, Tracked, Clean
  <2>2. home' = home BY <1>4, <2>1 DEF NewHome
  <2>3. klast'.group = KNone BY <1>4, <2>1
  <2>4. \A h \in DOMAIN home : Held(h)' BY <1>1, <1>3, <1>6, <2>2 DEF KatranInv, Held, Apart, VipKey
  <2>5. Entries(lru_mapping)' BY <1>1, <1>6 DEF Apart, Entries
  <2> QED BY <1>1, <1>2, <2>2, <2>3, <2>4, <2>5 DEF KatranInv, Affinity
<1>7. CASE Joins(k, p)
  <2>1. Tracked(k) /\ k.pkt = p /\ g = Group(p) /\ Clean(VipKey(g)) /\ k.real \in DOMAIN reals
    BY <1>7 DEF Joins, Tracked, Follows, Chooses, Clean
  <2>2. Follows(k, g) \/ Chooses(k, g) BY <1>7, <2>1 DEF Joins
  <2> HIDE DEF g
  <2>3. home' = IF k.flood THEN [x \in DOMAIN home \ {g} |-> home[x]]
                ELSE KMapSet(home, g, [real |-> k.real, seen |-> ktime])
    BY <1>4, <2>1 DEF NewHome
  <2>4. klast'.group = g /\ klast'.real = k.real /\ (klast'.syn <=> "F_SYN_SET" \in k.flags) BY <1>4
  <2>5. CASE Follows(k, g)
    <3> DEFINE M == IF g.proto = "UDP" THEN [lru_mapping EXCEPT ![g].atime = ktime] ELSE lru_mapping
    <3>1. /\ lru_mapping' = M /\ k.flood = FALSE /\ g \in DOMAIN lru_mapping /\ k.real = lru_mapping[g].pos
      BY <1>1, <2>5 DEF Follows
    <3>2. /\ DOMAIN M = DOMAIN lru_mapping /\ \A x \in DOMAIN lru_mapping : x # g => M[x] = lru_mapping[x]
          /\ DOMAIN M[g] = {"pos", "atime"} /\ M[g].pos = k.real
          /\ g.proto = "UDP" => M[g].atime = ktime
      BY <3>1 DEF KatranInv, Entries
    <3>3. /\ DOMAIN home' = DOMAIN home \cup {g} /\ home'[g] = [real |-> k.real, seen |-> ktime]
          /\ \A x \in DOMAIN home : x # g => home'[x] = home[x]
      BY <2>3, <3>1 DEF KMapSet
    <3> HIDE DEF M
    <3>5. /\ DOMAIN lru_mapping' = DOMAIN lru_mapping \cup {g}
          /\ \A x \in DOMAIN lru_mapping : x # g => lru_mapping'[x] = lru_mapping[x]
          /\ DOMAIN lru_mapping'[g] = {"pos", "atime"} /\ lru_mapping'[g].pos = k.real
          /\ g.proto = "UDP" => lru_mapping'[g].atime = ktime
      BY <3>1, <3>2
    <3>4. Entries(lru_mapping)' /\ \A h \in DOMAIN home' : Held(h)'
      BY <1>1, <1>3, <2>1, <3>3, <3>5, TableKept
    <3>6. Affinity BY <2>4, <3>1 DEF Affinity, KatranInv, Held
    <3> QED BY <1>2, <3>4, <3>6 DEF KatranInv
  <2>6. CASE Chooses(k, g)
    <3> DEFINE M == KMapSet(lru_mapping, g, Entry(k, g))
    <3>1. lru_mapping' = IF k.flood THEN lru_mapping ELSE M BY <1>1, <2>6 DEF Chooses
    <3>2. /\ DOMAIN M = DOMAIN lru_mapping \cup {g} /\ \A x \in DOMAIN lru_mapping : x # g => M[x] = lru_mapping[x]
          /\ DOMAIN M[g] = {"pos", "atime"} /\ M[g].pos = k.real
          /\ g.proto = "UDP" => M[g].atime = ktime
      BY DEF KMapSet, Entry
    <3> HIDE DEF M
    <3>3. Affinity BY <2>4, <2>6 DEF Affinity, KatranInv, Held, Chooses, NoEntry
    <3>4. CASE k.flood
      <4>1. lru_mapping' = lru_mapping /\ home' = [x \in DOMAIN home \ {g} |-> home[x]] BY <2>3, <3>1, <3>4
      <4>2. \A h \in DOMAIN home' : Held(h)' BY <1>3, <4>1 DEF KatranInv, Held, VipKey
      <4> QED BY <1>1, <1>2, <3>3, <4>1, <4>2 DEF KatranInv, Entries
    <3>5. CASE ~k.flood
      <4>1. /\ lru_mapping' = M /\ DOMAIN home' = DOMAIN home \cup {g}
            /\ home'[g] = [real |-> k.real, seen |-> ktime]
            /\ \A x \in DOMAIN home : x # g => home'[x] = home[x]
        BY <2>3, <3>1, <3>5 DEF KMapSet
      <4>3. /\ DOMAIN lru_mapping' = DOMAIN lru_mapping \cup {g}
            /\ \A x \in DOMAIN lru_mapping : x # g => lru_mapping'[x] = lru_mapping[x]
            /\ DOMAIN lru_mapping'[g] = {"pos", "atime"} /\ lru_mapping'[g].pos = k.real
            /\ g.proto = "UDP" => lru_mapping'[g].atime = ktime
        BY <3>2, <4>1
      <4>2. Entries(lru_mapping)' /\ \A h \in DOMAIN home' : Held(h)'
        BY <1>1, <1>3, <2>1, <4>1, <4>3, TableKept
      <4> QED BY <1>2, <3>3, <4>2 DEF KatranInv
    <3> QED BY <3>4, <3>5
  <2> QED BY <2>2, <2>5, <2>6
<1> QED BY <1>5, <1>6, <1>7 DEF Outcome

\* A position of the ring is given to another server.
LEMMA RingSet ==
  ASSUME KatranInv, NEW i \in DOMAIN ch_rings, NEW r \in DOMAIN reals, KSetRing(i, r)
  PROVE  KatranInv' /\ Affinity
<1>1. ch_rings' = [ch_rings EXCEPT ![i] = r] /\ UNCHANGED <<vip_map, lru_mapping, klast, home, reals, lpm_src>>
  BY DEF KSetRing, kconfig
<1>2. KConfigured' BY <1>1 DEF KatranInv, KConfigured
<1>3. Entries(lru_mapping)' /\ \A g \in DOMAIN home' : Held(g)'
  BY <1>1 DEF KatranInv, Entries, Held, Clean, VipKey
<1> QED BY <1>1, <1>2, <1>3 DEF KatranInv, Affinity

\* Every step of Katran.
LEMMA KatranStep ==
  ASSUME KatranInv, [KatranNext]_kvars
  PROVE  KatranInv' /\ Affinity
<1>1. ASSUME NEW p, KArrive(p) PROVE KatranInv' /\ Affinity
  <2>1. PICK q : Outcome(Deliver(p), q) BY Delivered DEF KatranInv
  <2> QED BY <1>1, <2>1, OutcomeKeeps DEF KArrive
<1>2. ASSUME NEW p, KProbe(p) PROVE KatranInv' /\ Affinity
  <2>1. klast'.group = KNone BY <1>2 DEF KProbe
  <2>2. UNCHANGED <<vip_map, lru_mapping, ch_rings, home, reals, lpm_src>> BY <1>2 DEF KProbe, kconfig
  <2> QED BY <2>1, <2>2 DEF KatranInv, KConfigured, Entries, Held, Clean, VipKey, Affinity
<1>3. ASSUME NEW i \in DOMAIN ch_rings, NEW r \in DOMAIN reals, KSetRing(i, r) PROVE KatranInv' /\ Affinity
  BY <1>3, RingSet
<1>4. ASSUME NEW f, KEvict(f) PROVE KatranInv' /\ Affinity
  <2>1. /\ lru_mapping' = [x \in DOMAIN lru_mapping \ {f} |-> lru_mapping[x]]
        /\ home' = [x \in DOMAIN home \ {f} |-> home[x]]
        /\ UNCHANGED <<vip_map, ch_rings, klast, reals, lpm_src>>
    BY <1>4 DEF KEvict, kconfig
  <2>2. KConfigured' BY <2>1 DEF KatranInv, KConfigured
  <2>3. Entries(lru_mapping)' BY <2>1 DEF KatranInv, Entries
  <2>4. \A g \in DOMAIN home' : Held(g)' BY <2>1 DEF KatranInv, Held, Clean, VipKey
  <2> QED BY <2>1, <2>2, <2>3, <2>4 DEF KatranInv, Affinity
<1>5. ASSUME KTick \/ UNCHANGED kvars PROVE KatranInv' /\ Affinity
  <2>1. UNCHANGED <<vip_map, lru_mapping, ch_rings, klast, home, reals, lpm_src>>
    BY <1>5 DEF KTick, kvars, kconfig
  <2> QED BY <2>1 DEF KatranInv, KConfigured, Entries, Held, Clean, VipKey, Affinity
<1> QED BY <1>1, <1>2, <1>3, <1>4, <1>5 DEF KatranNext

\* It holds of a balancer that has seen no connection.
LEMMA KatranStart == KatranInit => KatranInv
BY DEF KatranInit, KatranInv, Entries

\* A connection stays with its server (ConnectionAffinity) for any VIPs, rings,
\* reals, packets and switches, whatever the control plane does to the rings:
\* where home has a server for a group, the connection table has it too, under
\* the flow that every packet of the group asks for (process_packet,
\* connection_table_lookup, get_packet_dst).
THEOREM KatranAffinity == KatranSpec => ConnectionAffinity
<1>1. KatranInit => KatranInv BY KatranStart
<1>2. KatranInv /\ [KatranNext]_kvars => KatranInv' BY KatranStep
<1>3. KatranInv /\ [KatranNext]_kvars => [LET g == klast'.group
     IN  klast' # klast /\ g # KNone /\ ~klast'.syn /\ g \in DOMAIN home =>
           \/ klast'.real = home[g].real
           \/ g.proto = "UDP" /\ ktime - home[g].seen > LRU_UDP_TIMEOUT]_kvars
  BY KatranStep DEF Affinity
<1> QED BY <1>1, <1>2, <1>3, PTL DEF KatranSpec, ConnectionAffinity
-----------------------------------------------------------------------------
(* What leaves the balancer.                                               *)

\* A run that has its server, and has not touched the packet.
Bare(k, p) == KRec(k) /\ k.pkt = p /\ k.verdict \in {"", "XDP_DROP"}
\* A packet with headers.
HasPorts(p) == "proto" \in DOMAIN p /\ "dport" \in DOMAIN p
Sealed(k) == k.verdict = "XDP_TX" => Hides(k.out)

\* The search for a server leaves the packet alone.
LEMMA TableLeavesPacket ==
  ASSUME NEW k, NEW p, Bare(k, p) PROVE Bare(connection_table_lookup(k), p)
BY DEF connection_table_lookup, Bare, KRec, KFields

\* is_under_flood.
LEMMA FloodLeavesPacket ==
  ASSUME NEW k, NEW p, Bare(k, p), k.verdict = "" PROVE Bare(is_under_flood(k), p) /\ is_under_flood(k).verdict = ""
BY DEF is_under_flood, Bare, KRec, KFields

\* KRingKey.
LEMMA RingLeavesPacket ==
  ASSUME NEW k, NEW p, Bare(k, p), k.verdict = "" PROVE Bare(KRingKey(k), p) /\ KRingKey(k).verdict = ""
<1> DEFINE f == IF "F_HASH_DPORT_ONLY" \in k.vips[k.vip].flags
                THEN [k EXCEPT !.flow.sport = k.flow.dport, !.flow.src = 0] ELSE k
           n == RING_SIZE * k.vips[k.vip].vip_num + (get_packet_hash(f) % RING_SIZE)
<1>1. Bare(f, p) /\ f.verdict = "" BY DEF Bare, KRec, KFields, KFlowFields
<1>2. KRingKey(k) = [f EXCEPT !.key = n] BY DEF KRingKey
<1> HIDE DEF f, n
<1> QED BY <1>1, <1>2 DEF Bare, KRec, KFields

\* KRecord.
LEMMA RecordLeavesPacket ==
  ASSUME NEW k, NEW p, Bare(k, p) PROVE Bare(KRecord(k), p)
BY DEF KRecord, Bare, KRec, KFields

\* get_packet_dst.
LEMMA SearchLeavesPacket ==
  ASSUME NEW k, NEW p, Bare(k, p), k.verdict = "" PROVE Bare(get_packet_dst(k), p)
<1> DEFINE f == is_under_flood(k)
           r == KRingKey(f)
           s == IF KSrcRoute(f) # KNone THEN [f EXCEPT !.real = KSrcRoute(f), !.by = "source"]
                ELSE IF r.key \notin DOMAIN ch_rings THEN KEnd(r, "XDP_DROP")
                ELSE [r EXCEPT !.real = ch_rings[r.key], !.by = "ring"]
<1>1. get_packet_dst(k) = IF s.verdict # "" THEN s
                          ELSE IF s.real \notin DOMAIN reals THEN KEnd(s, "XDP_DROP") ELSE KRecord(s)
  BY DEF get_packet_dst
<1>2. Bare(f, p) /\ f.verdict = "" BY FloodLeavesPacket
<1> HIDE DEF f
<1>3. Bare(r, p) /\ r.verdict = "" BY <1>2, RingLeavesPacket
<1> HIDE DEF r
<1>4. Bare(s, p) BY <1>2, <1>3 DEF Bare, KRec, KFields, KEnd
<1> HIDE DEF s
<1>5. Bare(KEnd(s, "XDP_DROP"), p) BY <1>4 DEF Bare, KRec, KFields, KEnd
<1>6. Bare(KRecord(s), p) BY <1>4, RecordLeavesPacket
<1> QED BY <1>1, <1>4, <1>5, <1>6

\* ChooseReal.
LEMMA ChoiceLeavesPacket ==
  ASSUME NEW k, NEW p, Goes(k, p) PROVE Bare(ChooseReal(k), p)
<1> DEFINE f == IF "F_HASH_NO_SRC_PORT" \in k.vips[k.vip].flags THEN [k EXCEPT !.flow.sport = 0] ELSE k
           l == IF "F_SYN_SET" \in k.flags \/ "F_LRU_BYPASS" \in k.vips[k.vip].flags THEN f
                ELSE connection_table_lookup(f)
<1>1. ChooseReal(k) = IF k.real # KNone THEN k ELSE IF l.real # KNone THEN l ELSE get_packet_dst(l)
  BY DEF ChooseReal
<1>2. Bare(k, p) /\ Bare(f, p) /\ f.verdict = "" BY DEF Goes, Bare, KRec, KFields, KFlowFields
<1> HIDE DEF f
<1>3. Bare(l, p) /\ l.verdict = ""
  <2>1. connection_table_lookup(f).verdict = f.verdict
    BY <1>2 DEF connection_table_lookup, Bare, KRec, KFields
  <2> QED BY <1>2, <2>1, TableLeavesPacket
<1> HIDE DEF l
<1> QED BY <1>1, <1>2, <1>3, SearchLeavesPacket

\* Every tunnel hides the port of the packet.
LEMMA TunnelSeals ==
  ASSUME NEW k, NEW p, Bare(k, p), HasPorts(p) PROVE Sealed(Encapsulate(k))
<1>1. ASSUME NEW o, Hides(o) PROVE Sealed(KSend(k, o))
  BY <1>1 DEF KSend, KEnd, Bare, KRec, KFields, Sealed
<1>2. ASSUME NEW eth, NEW proto, NEW src, NEW real, NEW dport, proto # "UDP" \/ dport = GUE_DPORT
      PROVE  Hides(KOuter(k, eth, proto, src, real, dport))
  BY <1>2 DEF KOuter, Bare, HasPorts, Hides
<1>3. Sealed(encap_v4(k)) BY <1>1, <1>2 DEF encap_v4, create_v4_hdr
<1>4. Sealed(gue_encap_v4(k)) BY <1>1, <1>2 DEF gue_encap_v4, create_v4_hdr, create_udp_hdr
<1>5. Sealed(gue_encap_v6(k)) BY <1>1, <1>2 DEF gue_encap_v6, create_v6_hdr, create_udp_hdr
<1>6. Sealed(encap_v6(k))
  <2>1. (IF KV6(k.pkt) THEN "IPV6" ELSE "IPIP") # "UDP" OBVIOUS
  <2> QED BY <1>1, <1>2, <2>1 DEF encap_v6, create_v6_hdr
<1> QED BY <1>3, <1>4, <1>5, <1>6 DEF Encapsulate

\* process_packet: what is sent shows no port of p.
LEMMA ProcessSeals ==
  ASSUME NEW k, NEW p, Fresh0(k, p), KConfigured, HasPorts(p)
  PROVE  Sealed(process_packet(k))
<1>1. PICK e : process_packet(k) = Finish(e) /\ (EndsLate(e, p) \/ Routed(e, p)) BY Staged
<1> DEFINE f == IF e.verdict = "" THEN ChooseReal(e) ELSE e
<1>2. (Sealed(f) /\ f.verdict # "") \/ Bare(f, p)
  BY <1>1, ChoiceLeavesPacket DEF Routed, Goes, EndsLate, Ends, HasPorts, Sealed
<1>3. Finish(e) = IF f.verdict = "" THEN Encapsulate(f) ELSE f BY DEF Finish
<1> HIDE DEF f
<1>4. Bare(f, p) => Sealed(Encapsulate(f)) BY TunnelSeals
<1>5. Bare(f, p) /\ f.verdict # "" => Sealed(f) BY DEF Bare, Sealed
<1> QED BY <1>1, <1>2, <1>3, <1>4, <1>5

\* One run of the balancer on a packet with headers.
LEMMA BalancerSeals ==
  ASSUME NEW p, KConfigured, HasPorts(p) PROVE Sealed(XBalance(p))
<1> DEFINE k == KRun(p)
<1>1. Fresh0(k, p)
  BY DEF Fresh0, Open, Goes, KRec, KFields, KFlowFields, KRun
<1> HIDE DEF k
<1>2. Sealed(process_packet(k)) BY <1>1, ProcessSeals
<1>3. Sealed(KEnd(k, "XDP_DROP")) /\ Sealed(KEnd(k, "XDP_PASS"))
  BY <1>1 DEF Sealed, KEnd, Fresh0, Open, Goes, KRec, KFields
<1> QED BY <1>2, <1>3 DEF XBalance, balancer_ingress, k

\* The leader has its map of quorums.
Leads == ELeader \in DOMAIN erep /\ "quorum" \in DOMAIN erep[ELeader]

\* EStore keeps the map that the program has written.
LEMMA Stored ==
  ASSUME Leads, NEW s, "quorum" \in DOMAIN s, EStore(ELeader, s)
  PROVE  Leads' /\ erep'[ELeader].quorum = s.quorum
BY DEF Leads, EStore

\* fastPaxos_main leaves a map of quorums.
LEMMA CountKeepsMap ==
  ASSUME NEW s, "quorum" \in DOMAIN s, NEW p, NEW e PROVE "quorum" \in DOMAIN XFastPaxos(s, p, e)
<1> DEFINE t == [s EXCEPT !.msg_lastOp = "offset"]
<1>1. "quorum" \in DOMAIN t OBVIOUS
<1> HIDE DEF t
<1>2. "quorum" \in DOMAIN XHandlePrepareOK(t, e)
  BY <1>1 DEF XHandlePrepareOK, CountAck, XdpPass, XdpDrop
<1> QED BY <1>2 DEF XFastPaxos, t

\* The inductive invariant, and what a step leaves alone.
CrossInv == KatranInv /\ Leads
Left == klast' # klast /\ klast'.verdict = "XDP_TX" => erep'[ELeader].quorum = erep[ELeader].quorum

\* Every step of the two programs.
LEMMA CrossStep ==
  ASSUME CrossInv, [CrossNext]_<<kvars, evars>> PROVE CrossInv' /\ Left
<1>1. ASSUME NEW x \in XPackets, XArrive(x) PROVE CrossInv' /\ Left
  <2> DEFINE k == XBalance(x.pkt)
             s == XFastPaxos(erep[ELeader], XBuffer(k), x.msg)
  <2>1. KOutcome(k) /\ EStore(ELeader, s) BY <1>1 DEF XArrive
  <2>2. Outcome(k, x.pkt) BY Balanced DEF XBalance, CrossInv, KatranInv
  <2>3. Sealed(k)
    BY XPacketsHaveHeaders, BalancerSeals DEF HasPorts, CrossInv, KatranInv
  <2>4. "quorum" \in DOMAIN s BY CountKeepsMap DEF CrossInv, Leads
  <2>5. k.verdict = "XDP_TX" => s = erep[ELeader]
    BY <2>3 DEF Sealed, Hides, GUE_DPORT, PaxosPort, XFastPaxos, XBuffer, XIsPaxos
  <2> HIDE DEF k, s
  <2>6. KatranInv' BY <2>1, <2>2, OutcomeKeeps DEF CrossInv
  <2>7. Leads' /\ erep'[ELeader].quorum = s.quorum BY <2>1, <2>4, Stored DEF CrossInv
  <2>8. klast'.verdict = k.verdict BY <2>1 DEF KOutcome
  <2> QED BY <2>5, <2>6, <2>7, <2>8 DEF CrossInv, Left
<1>2. ASSUME NEW got, FastBroadCast_main(1, got), UNCHANGED kvars PROVE CrossInv' /\ Left
  <2> DEFINE s == OpenEntry(erep[ELeader], EPrepare(EView, 1, 1, "fits", ELeader))
  <2>1. EStore(ELeader, s) BY <1>2 DEF FastBroadCast_main
  <2>2. "quorum" \in DOMAIN s BY DEF OpenEntry, CrossInv, Leads
  <2> HIDE DEF s
  <2>3. Leads' BY <2>1, <2>2, Stored DEF CrossInv
  <2>4. KatranInv' BY <1>2, KatranStep DEF CrossInv
  <2>5. klast' = klast BY <1>2 DEF kvars
  <2> QED BY <2>3, <2>4, <2>5 DEF CrossInv, Left
<1>3. ASSUME NEW i \in DOMAIN ch_rings, NEW r \in DOMAIN reals, KSetRing(i, r), UNCHANGED evars
      PROVE  CrossInv' /\ Left
  <2>1. klast' = klast /\ erep' = erep BY <1>3 DEF KSetRing, evars
  <2>2. KatranInv' BY <1>3, RingSet DEF CrossInv
  <2> QED BY <2>1, <2>2 DEF CrossInv, Leads, Left
<1>4. ASSUME UNCHANGED <<kvars, evars>> PROVE CrossInv' /\ Left
  <2>1. klast' = klast /\ erep' = erep BY <1>4 DEF kvars, evars
  <2>2. KatranInv' BY <1>4, KatranStep DEF CrossInv
  <2> QED BY <2>1, <2>2 DEF CrossInv, Leads, Left
<1> QED BY <1>1, <1>2, <1>3, <1>4 DEF CrossNext

\* It holds when both programs have just been loaded.
LEMMA CrossStart == KatranInit /\ ElectrodeInit => CrossInv
<1>1. ASSUME ElectrodeInit PROVE Leads
  <2>1. PICK progs : erep = [r \in 0..CLUSTER_SIZE - 1 |-> EMaps(r, progs)] BY <1>1 DEF ElectrodeInit
  <2>2. ELeader \in 0..CLUSTER_SIZE - 1 BY ElectrodeAssumption DEF ELeader
  <2>3. "quorum" \in DOMAIN EMaps(ELeader, progs) BY DEF EMaps
  <2> QED BY <2>1, <2>2, <2>3 DEF Leads
<1> QED BY <1>1, KatranStart DEF CrossInv

\* main.c of cross_prog: what balancer_ingress sends, a reply of its own or a
\* packet in one of its tunnels, never reaches the count of acknowledgements
\* (ForwardedIsLeftAlone), for any configuration and any packets with headers.
THEOREM CrossLeavesForwardedAlone == CrossSpec => ForwardedIsLeftAlone
<1>1. KatranInit /\ ElectrodeInit => CrossInv BY CrossStart
<1>2. CrossInv /\ [CrossNext]_<<kvars, evars>> => CrossInv' BY CrossStep
<1>3. CrossInv /\ [CrossNext]_<<kvars, evars>> =>
        [klast' # klast /\ klast'.verdict = "XDP_TX" =>
           erep'[ELeader].quorum = erep[ELeader].quorum]_<<klast, erep>>
  BY CrossStep DEF Left
<1> QED BY <1>1, <1>2, <1>3, PTL DEF CrossSpec, ForwardedIsLeftAlone

================================================================================
