------------------------------- MODULE MCPasses -------------------------------
(***************************************************************************)
(* Small instances of the LLVM passes.  Each behaviour is a run of one     *)
(* pass: pass names it.                                                    *)
(***************************************************************************)
EXTENDS PolicyPrune, FuncPass, PacketSym, SpecJson, ClamBridge, TLC

VARIABLE pass
pvars_all == <<pass, vars, fvars, pvars, bvars>>

(* All call graphs of three functions, without self calls, with at most    *)
(* one function that calls through a pointer.                              *)
M(calls, hits, entry, taken, indirect, defined, helpers, reserved) ==
  [calls |-> {e \in calls : e[1] \in defined}, hits |-> hits \cap defined,
   entry |-> entry, taken |-> taken, indirect |-> indirect \cap defined,
   defined |-> defined, helpers |-> helpers, reserved |-> reserved]

Edges  == {e \in Funcs \X Funcs : e[1] # e[2]}
\* The modules are the same up to the names of the functions.
AnEntry == CHOOSE f \in Funcs : TRUE
Single == {{}} \cup {{f} : f \in Funcs}

\* Every function has a body; one function may call through a pointer.
Dispatch ==
  {M(calls, hits, entry, taken, indirect, Funcs, {}, {}) :
     calls \in SUBSET Edges, hits \in Single, entry \in {AnEntry},
     taken \in SUBSET Funcs, indirect \in Single}

\* Declarations, helper implementations and klee_ functions, no pointers.
Linked ==
  {M(calls, hits, entry, {}, {}, defined, helpers, reserved) :
     calls \in SUBSET Edges, hits \in Single, entry \in {AnEntry, None},
     defined \in {Funcs} \cup {Funcs \ {f} : f \in Funcs}, helpers \in Single,
     reserved \in Single}

SomeModule == M({}, {}, None, {}, {}, {}, {}, {})
PruneModules == Dispatch \cup Linked \cup {SomeModule}

(* Objects with up to three functions, two of which refer to maps.         *)
Ref(at, map) == [at |-> at, map |-> Real(map)]
HelperCall(h, at, start, constant) == [helper |-> h, at |-> at, start |-> start, constant |-> constant]
Obj(starts, relocs, calls) ==
  [starts |-> starts, relocs |-> relocs, calls |-> calls,
   globals |-> {Real("m1"), Real("m2"), Real("data")}, functions |-> {Real("main"), Real("sub")}]
Starts == {<<0>>, <<0, 4>>, <<2>>, <<0, 3, 5>>, <<0, 2, 6, 7>>}
StartOf(starts, at) == LET below == {starts[i] : i \in {j \in DOMAIN starts : starts[j] <= at}}
                       IN  CHOOSE s \in below : \A t \in below : t <= s
ObjectWith(starts, a1, m1, a2, m2, h, c) ==
  Obj(starts, <<Ref(a1, m1), Ref(a2, m2)>>,
      <<HelperCall(h, a1, StartOf(starts, a1), TRUE), HelperCall(h, a2, StartOf(starts, a2), c)>>)
TwoRefs ==
  {ObjectWith(s, a1, m1, a2, m2, h, c) :
     s \in Starts, a1 \in 2..4, m1 \in {"m1"}, a2 \in 5..9, m2 \in {"m1", "m2"}, h \in MapHelpers, c \in BOOLEAN}
\* A call with a reference to a map, with none, and one of a helper the
\* pass does not know, beside references to a function and to a section.
OneCall == {Obj(<<0>>, <<Ref(1, "m1"), Ref(2, "sub"), Ref(3, "")>>,
                <<HelperCall(h, at, 0, TRUE), HelperCall("bpf_redirect_map", 5, 0, TRUE)>>) :
              h \in Helpers, at \in {1, 4}}
SomeObject == Obj(<<0>>, <<Ref(1, "m1")>>, << >>)
MCObjects == TwoRefs \cup OneCall \cup {SomeObject}

(* Texts of specifications: every short one, and real policies.            *)
Tokens == {Tok(t) : t \in {"{", "}", "[", "]", ":", ",", "word", "cut", "true"}} \cup {Str("a"), Num(1)}
ShortTexts == UNION {[1..n -> Tokens] : n \in 0..3}
                \cup {<<Tok("[")>> \o t : t \in [1..3 -> Tokens]}
                \cup {<<Tok("{"), Str("a"), Tok(":")>> \o t : t \in [1..2 -> Tokens]}
M1(k, v) == [k |-> k, v |-> v]
SpecObj(k, v) == JsonObject(<<M1(k, v)>>)
Flat == {JsonNull, JsonBool(TRUE), JsonNumber(1), JsonString("a"), JsonArray(<< >>), JsonObject(<< >>)}
MCJsonValues == Flat \cup {JsonArray(<<v>>) : v \in Flat} \cup {JsonArray(<<v, w>>) : v \in Flat, w \in Flat}
                  \cup {SpecObj("a", v) : v \in Flat}
                  \cup {JsonObject(<<M1("a", v), M1("a", w)>>) : v \in Flat, w \in Flat}
Constraint(f, s) ==
  SpecObj("packet_constraints", JsonArray(<<JsonObject(<<M1(f, JsonString(s)), M1("read-access", JsonArray(<< >>))>>)>>))
Condition(off, size) ==
  SpecObj("conditional_policies", SpecObj("check", SpecObj("memory_conditions",
    JsonArray(<<JsonObject(<<M1("offset", JsonNumber(off)), M1("size", JsonNumber(size))>>)>>))))
Policies == {Text(Constraint(f, s)) : f \in {"sIP", "dIP", "sPort", "dPort"}, s \in {"*", "12345"}}
              \cup {Text(Condition(off, size)) : off \in {12, 14, 17, 20, 25, 26, 29, 30, 33, 34, 35, 36, 38, 45, 53}, size \in {1, 4}}
Irrelevances ==
  {Text(SpecObj("irrelevant_packet_items", JsonArray(<<JsonString(f), JsonString(g), JsonString("unknown"), JsonNumber(1)>>))) :
     f \in Fields, g \in {"dPort"}}
AllTexts == ShortTexts \cup Policies \cup {Text(v) : v \in MCJsonValues}
AllIrrelevances == Irrelevances \cup {<<Tok("[")>>, <<Tok("{"), Tok("}")>>, <<Tok("}")>>}

(* The packets of the examples' harnesses.                                 *)
EthT == Struct(<<Array(Scalar(1), 6), Array(Scalar(1), 6), Scalar(2)>>)
IpT == Struct(<<Scalar(1), Scalar(1), Scalar(2), Scalar(2), Scalar(2), Scalar(1), Scalar(1), Scalar(2),
               Struct(<<Struct(<<Scalar(4), Scalar(4)>>)>>)>>)
TcpT == Struct(<<Scalar(2), Scalar(2), Scalar(4), Scalar(4), Scalar(2), Scalar(2), Scalar(2), Scalar(2)>>)
UdpT == Struct(<<Scalar(2), Scalar(2), Scalar(2), Scalar(2)>>)
Payload == Array(Scalar(1), 8)
Sym(name, type, ether) ==
  [callee |-> "klee_make_symbolic", constantSize |-> TRUE, name |-> name, type |-> type, ether |-> ether]
FwPkt == Sym("constraint_access_user_buf", Struct(<<EthT, IpT, TcpT, Payload>>), 0)
BmcPkt == Sym("constraint_access_user_pkt", Struct(<<EthT, IpT, UdpT, Payload>>), 0)
FluviaPkt == Sym("constraint_access_packet", Struct(<<EthT, IpT, Payload>>), 0)
KatranPkt == Sym("constraint_access_lb_pkt", Struct(<<IpT, EthT, IpT, TcpT, Payload>>), 20)
CrabPkt == Sym("constraint_access_lb_pkt", Struct(<<Array(Scalar(1), 12), EthT, IpT, TcpT, Payload>>), 12)
RawPkt == Sym("constraint_access_user_pkt", Scalar(1), 0)
Other == {Sym("user_buf", FwPkt.type, 0), [FwPkt EXCEPT !.callee = "klee_assume"],
          [FwPkt EXCEPT !.constantSize = FALSE]}
\* fluvia's packet has no transport header where the layout expects one; it
\* has a run of its own.
MCHarnesses == {<<p>> : p \in {FwPkt, BmcPkt, KatranPkt, CrabPkt, RawPkt} \cup Other}
                 \cup {<<FwPkt, KatranPkt>>}
FluviaHarness == {<<RawPkt>>, <<FluviaPkt>>}
\* The layouts agree with the table of offsets, byte by byte.
ASSUME LayoutsOfTheExamples == LayoutsAgree(MCHarnesses)

(* Calls Clam leaves in a module, up to three.                             *)
Assume(callee, tagged, args, boolean, cond) ==
  [callee |-> callee, tagged |-> tagged, args |-> args, boolean |-> boolean, cond |-> cond]
BridgeCalls ==
  {Assume(callee, t, 1, TRUE, c) : callee \in {"verifier.assume", "llvm.assume"}, t \in BOOLEAN,
                                   c \in {"true", "false", "x < y"}}
  \cup {Assume("verifier.assume", TRUE, 1, FALSE, "n"), Assume("verifier.assume", TRUE, 0, FALSE, ""),
        Assume("klee_assume", FALSE, 1, FALSE, "z"), Assume("printf", FALSE, 1, FALSE, "")}
MCBridgeModules ==
  {[calls |-> s, linkage |-> [f \in {"main", "verifier.assume"} |-> "internal"]] :
     s \in UNION {[1..n -> BridgeCalls] : n \in 0..3}}

\* The passes that do not run have one state.
NoCalls == [calls |-> << >>, linkage |-> [f \in {"main", "verifier.assume"} |-> "internal"]]
IdlePrune == mod = SomeModule /\ Init
IdleFuncPass == fobj = SomeObject /\ FuncPassInit
IdlePacketSym == policyText = << >> /\ irrelevanceText = <<Tok("[")>> /\ harness = <<RawPkt>> /\ PacketSymInit
IdleBridge == bmod = NoCalls /\ BridgeInit
\* Policies meet every harness; the other texts are about the parser.
SomePacketSym ==
  \/ policyText \in Policies /\ PacketSymInit
  \/ /\ policyText \in AllTexts \ Policies
     /\ irrelevanceText = <<Tok("{"), Tok("}")>> /\ harness = <<FwPkt>>
     /\ PacketSymInit
\* Only the packets of fluvia's harness.
OneModule == {SomeModule}
OneObject == {SomeObject}
OneBridgeModule == {NoCalls}
FluviaPolicies == Policies \cup {<< >>}
PassesInit ==
  \/ pass = "policy-prune" /\ IdleFuncPass /\ IdlePacketSym /\ IdleBridge /\ Init
  \/ pass = "custom-bpf-pass" /\ IdlePrune /\ IdlePacketSym /\ IdleBridge /\ FuncPassInit
  \/ pass = "selective-packet-sym" /\ IdlePrune /\ IdleFuncPass /\ IdleBridge /\ SomePacketSym
  \/ pass = "clam-bridge" /\ IdlePrune /\ IdleFuncPass /\ IdlePacketSym /\ BridgeInit
PruneStep == pass = "policy-prune" /\ Next /\ UNCHANGED <<pass, fvars, pvars, bvars>>
PassesNext ==
  \/ PruneStep
  \/ UNCHANGED pass /\
     (\/ pass = "custom-bpf-pass" /\ FuncPassNext /\ UNCHANGED <<vars, pvars, bvars>>
      \/ pass = "selective-packet-sym" /\ PacketSymNext /\ UNCHANGED <<vars, fvars, bvars>>
      \/ pass = "clam-bridge" /\ BridgeNext /\ UNCHANGED <<vars, fvars, pvars>>)
\* opt runs a pass until it returns.
PassesSpec == PassesInit /\ [][PassesNext]_pvars_all /\ WF_pvars_all(PruneStep)

(***************************************************************************)
(* policy-prune ends: both closures reach a sweep without a change for     *)
(* every call graph, recursion included.                                   *)
(***************************************************************************)
PruneEnds == (pass = "policy-prune") ~> (phase = "done")

(***************************************************************************)
(* The hand-written parser is one for JSON (JsonParser::parseValue): what  *)
(* it accepts is the text of the value it returns, and it accepts the text *)
(* of every value.                                                         *)
(***************************************************************************)
ParserReadsJson == sphase \in {"done", "aborted"} => ReadAsJson(policyText)
=============================================================================
