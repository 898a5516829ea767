------------------------------- MODULE PacketSym -------------------------------
(***************************************************************************)
(* SelectivePacketSymPass (lifting_tools/llvm_selective_packet_sym/        *)
(* selective_packet_sym.cpp): right after the harness makes the packet     *)
(* symbolic, the fields an irrelevance specification lists are stored over *)
(* with zero, unless the policy is about them.                             *)
(*                                                                         *)
(* A packet type is a tree of structs, arrays and integers with sizes; a   *)
(* field is reached by indices into the tree, and the policy speaks of     *)
(* byte offsets from the Ethernet header.                                  *)
(***************************************************************************)
EXTENDS SpecValue, FiniteSets

CONSTANTS
  PolicyTexts, IrrelevanceTexts, Harnesses,
  ReadSpec(_)  \* what the parser makes of a text: [ok, threw, root]

\* The elements of the array under a key, no matter what else is there.
ArrayAt(v, key) ==
  IF HasMember(v, key) /\ find(v, key).type = "Array"
  THEN LET a == find(v, key).arr IN {a[i] : i \in DOMAIN a} ELSE {}
IsA(v, key, type) == HasMember(v, key) /\ find(v, key).type = type
Conditions(root) ==
  LET conds == find(root, "conditional_policies")
  IN  IF ~IsA(root, "conditional_policies", "Object") THEN {}
      ELSE UNION {ArrayAt(conds.obj[i].v, "memory_conditions") : i \in DOMAIN conds.obj}

\* Offsets and sizes in the conditions of a policy, which the pass converts
\* to uint64_t: so far from its end that their sum does not wrap.
ASSUME SpecNumbers ==
  \A t \in PolicyTexts : \A c \in Conditions(ReadSpec(t).root) :
    \A key \in {"offset", "size"} : IsA(c, key, "Number") => find(c, key).n \in Nat

VARIABLES
  policyText, irrelevanceText,
  harness,        \* the calls of the module, in order
  sphase,         \* "load", "calls", "done", or "aborted" by an exception
  concretized,    \* concretizedFields
  zeroed,         \* bytes stored over, from the start of the object, call by call
  snext
pvars == <<policyText, irrelevanceText, harness, sphase, concretized, zeroed, snext>>

Scalar(size) == [kind |-> "int", size |-> size, elems |-> << >>]
Array(elem, n) == [kind |-> "array", size |-> n * elem.size, elems |-> <<elem>>]
SizeUpTo(elems, k) == LET sum[i \in 0..k] == IF i = 0 THEN 0 ELSE sum[i - 1] + elems[i].size IN sum[k]
Struct(elems) == [kind |-> "struct", size |-> SizeUpTo(elems, Len(elems)), elems |-> elems]

Range2(lo, hi) == [lo |-> lo, hi |-> hi]
knownFieldRanges ==
  [ethertype |-> Range2(12, 13), ihl_version |-> Range2(14, 14), tos |-> Range2(15, 15),
   tot_len |-> Range2(16, 17), ip_id |-> Range2(18, 19), frag_off |-> Range2(20, 21),
   ttl |-> Range2(22, 22), protocol |-> Range2(23, 23), ip_check |-> Range2(24, 25),
   sIP |-> Range2(26, 29), dIP |-> Range2(30, 33), sPort |-> Range2(34, 35), dPort |-> Range2(36, 37),
   tcp_seq |-> Range2(38, 41), tcp_ack_seq |-> Range2(42, 45), tcp_flags |-> Range2(46, 47),
   tcp_window |-> Range2(48, 49), tcp_check |-> Range2(50, 51), tcp_urg_ptr |-> Range2(52, 53)]
Fields == DOMAIN knownFieldRanges

\* Mutant: only the field of the first byte.
markFieldRelevantForOffset_first(off, size) ==
  {f \in Fields : knownFieldRanges[f].lo <= off /\ off <= knownFieldRanges[f].hi}
markFieldRelevantForOffset(off, size) ==
  LET hi == off + (IF size = 0 THEN 0 ELSE size - 1)
  IN  {f \in Fields : knownFieldRanges[f].lo <= hi /\ off <= knownFieldRanges[f].hi}

collectDirectRelevantFields(root) ==
  {f \in {"sIP", "dIP", "sPort", "dPort"} : \E e \in ArrayAt(root, "packet_constraints") :
     IsA(e, f, "String") /\ find(e, f).s # "*"}
  \cup UNION {markFieldRelevantForOffset(find(c, "offset").n, find(c, "size").n) :
                c \in {d \in Conditions(root) : IsA(d, "offset", "Number") /\ IsA(d, "size", "Number")}}
collectIrrelevantFields(root) ==
  {v.s : v \in {w \in ArrayAt(root, "irrelevant_packet_items") : w.type = "String"}}

\* LLVM indices count from 0.
IpRegions(ip) ==
  {<<"ihl_version", <<ip, 0>>>>, <<"tos", <<ip, 1>>>>, <<"tot_len", <<ip, 2>>>>, <<"ip_id", <<ip, 3>>>>,
   <<"frag_off", <<ip, 4>>>>, <<"ttl", <<ip, 5>>>>, <<"protocol", <<ip, 6>>>>, <<"ip_check", <<ip, 7>>>>,
   <<"sIP", <<ip, 8, 0, 0>>>>, <<"dIP", <<ip, 8, 0, 1>>>>}
standardPacketRegions ==
  {<<"ethertype", <<0, 2>>>>, <<"sPort", <<2, 0>>>>, <<"dPort", <<2, 1>>>>} \cup IpRegions(1)
katranIpv4PacketRegions ==
  {<<"ethertype", <<1, 2>>>>, <<"sPort", <<3, 0>>>>, <<"dPort", <<3, 1>>>>, <<"tcp_seq", <<3, 2>>>>,
   <<"tcp_ack_seq", <<3, 3>>>>, <<"tcp_flags", <<3, 4>>>>, <<"tcp_window", <<3, 5>>>>,
   <<"tcp_check", <<3, 6>>>>, <<"tcp_urg_ptr", <<3, 7>>>>} \cup IpRegions(2)

detectPacketLayout(name) ==
  IF name \in {"constraint_access_user_pkt", "constraint_access_user_buf", "constraint_access_packet"}
  THEN "StandardIpv4Tcp"
  ELSE IF name = "constraint_access_lb_pkt" THEN "KatranIpv4Tcp" ELSE "Unsupported"
isHarnessPacketSymbolic(c) ==
  /\ c.callee = "klee_make_symbolic" /\ c.constantSize
  /\ detectPacketLayout(c.name) # "Unsupported"
Regions(c) == IF detectPacketLayout(c.name) = "StandardIpv4Tcp" THEN standardPacketRegions
              ELSE katranIpv4PacketRegions

\* The place indices lead to, or bad: a struct with too few elements, or an
\* index into an integer.  An array is not checked against its length.
Gep(type, path) ==
  LET walk[i \in 0..Len(path)] ==
        IF i = 0 THEN [type |-> type, off |-> 0, bad |-> FALSE]
        ELSE LET w == walk[i - 1]
                 k == path[i]
             IN  IF w.bad \/ w.type.kind = "int" \/ (w.type.kind = "struct" /\ k >= Len(w.type.elems))
                 THEN [w EXCEPT !.bad = TRUE]
                 ELSE IF w.type.kind = "struct"
                 THEN [w EXCEPT !.type = w.type.elems[k + 1], !.off = @ + SizeUpTo(w.type.elems, k)]
                 ELSE [w EXCEPT !.type = w.type.elems[1], !.off = @ + k * w.type.elems[1].size]
  IN  walk[Len(path)]
StoredBytes(c) ==
  UNION {LET w == Gep(c.type, r[2]) IN IF w.bad THEN {} ELSE w.off..(w.off + w.type.size - 1) :
           r \in {q \in Regions(c) : q[1] \in concretized}}

loadJsonRoot == [t \in PolicyTexts \cup IrrelevanceTexts |-> ReadSpec(t)]
LoadSpecs ==
  LET policy == loadJsonRoot[policyText]
      irrelevance == loadJsonRoot[irrelevanceText]
  IN  /\ sphase = "load"
      /\ IF policy.threw \/ (policy.ok /\ irrelevance.threw)
         THEN sphase' = "aborted" /\ UNCHANGED concretized
         ELSE IF ~policy.ok \/ ~irrelevance.ok
         THEN sphase' = "done" /\ UNCHANGED concretized
         ELSE /\ concretized' = (collectIrrelevantFields(irrelevance.root) \cap Fields)
                                  \ collectDirectRelevantFields(policy.root)
              /\ sphase' = IF concretized' = {} THEN "done" ELSE "calls"
      /\ UNCHANGED <<policyText, irrelevanceText, harness, zeroed, snext>>
ConcretizeCall ==
  /\ sphase = "calls" /\ snext <= Len(harness)
  /\ zeroed' = [zeroed EXCEPT ![snext] =
                  IF isHarnessPacketSymbolic(harness[snext]) THEN StoredBytes(harness[snext]) ELSE {}]
  /\ snext' = snext + 1
  /\ sphase' = IF snext = Len(harness) THEN "done" ELSE "calls"
  /\ UNCHANGED <<policyText, irrelevanceText, harness, concretized>>

PacketSymInit ==
  /\ policyText \in PolicyTexts
  /\ irrelevanceText \in IrrelevanceTexts
  /\ harness \in Harnesses
  /\ sphase = "load"
  /\ concretized = {}
  /\ zeroed = [i \in DOMAIN harness |-> {}]
  /\ snext = 1
PacketSymNext == LoadSpecs \/ ConcretizeCall
PacketSymSpec == PacketSymInit /\ [][PacketSymNext]_pvars

-----------------------------------------------------------------------------
(* Properties.                                                             *)

\* A byte of the packet the policy is about, from the Ethernet header: of an
\* address or a port it fixes, or one its conditions compare.
addressBytes == [sIP |-> 26..29, dIP |-> 30..33, sPort |-> 34..35, dPort |-> 36..37]
PolicyByte(root, x) ==
  \/ \E f \in DOMAIN addressBytes :
       /\ x \in addressBytes[f]
       /\ \E e \in ArrayAt(root, "packet_constraints") : IsA(e, f, "String") /\ find(e, f).s # "*"
  \/ \E c \in Conditions(root) :
       /\ IsA(c, "offset", "Number") /\ IsA(c, "size", "Number")
       /\ x \in find(c, "offset").n..(find(c, "offset").n + find(c, "size").n - 1)

\* The layout of a packet agrees with the table of offsets: what the indices of
\* a field lead to lies within the bytes the table gives it.
LayoutAgrees(c) ==
  /\ c.ether \in Nat
  /\ \A r \in Regions(c) :
       LET w == Gep(c.type, r[2])
           f == knownFieldRanges[r[1]]
       IN  w.bad \/ (/\ w.off \in Nat /\ w.type.size \in Nat
                     /\ \A b \in w.off..(w.off + w.type.size - 1) : b - c.ether \in f.lo..f.hi)
\* The packets of the harnesses do.
LayoutsAgree(harnesses) ==
  \A h \in harnesses : \A i \in DOMAIN h : isHarnessPacketSymbolic(h[i]) => LayoutAgrees(h[i])

(***************************************************************************)
(* No byte the policy is about is given a value: the indices, the table of *)
(* offsets and the layout of every harness with this packet agree, so a    *)
(* verdict about the rewritten harness is one about all packets the policy *)
(* can tell apart.                                                         *)
(***************************************************************************)
PolicyBytesStaySymbolic ==
  sphase = "done" /\ concretized # {} =>
    LET root == loadJsonRoot[policyText].root
    IN  \A i \in DOMAIN zeroed : \A b \in zeroed[i] : ~PolicyByte(root, b - harness[i].ether)
=============================================================================
