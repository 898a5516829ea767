--------------------------- MODULE AssertExample --------------------------
(***************************************************************************)
(* The program of examples/assert_map_example/test.c, which uses every     *)
(* kind of assertion of AssertSpec: it passes a TCP packet whose payload   *)
(* does not start with a zero, and sends any other one back, after it has  *)
(* set a byte of the payload.  It and Crab are the programs that carry     *)
(* assertions.                                                             *)
(***************************************************************************)
EXTENDS Crab

VARIABLE exampleRun  \* the run that ended last: packet, memory, verdict, failed asserts

\* The driver's packet has every header and a long payload; the transport
\* and the first bytes of the payload, 0, 1 or 2, are arbitrary.
ExamplePackets == [headers : {"udp", "tcp"}, p0 : 0..2, p1 : 0..2, p2 : 0..2]

\* What the program registers before it looks at the packet.
AtEntry == _set_expected_not_return(_set_expected_not_return(NoAsserts, "XDP_ABORTED"), "XDP_REDIRECT")

\* What it registers about the payload, and the verdict that goes with it.
AtPayload(m) ==
  LET a == BPF_ASSERT_IF_THEN_EQ(AtEntry, m.p0 # 0, "p1", 0)
      b == BPF_ASSERT_IF_THEN_NEQ(a, m.p0 # 0, "p0", 0)
      c == BPF_ASSERT_IF_THEN_EQ(b, m.p0 = 0, "p2", 1)
      d == _add_leads_to(_add_leads_to(c, m.p0 # 0, "XDP_PASS"), m.p0 = 0, "XDP_TX")
      e == _add_if_action(d, "XDP_PASS", "p1", 0, TRUE)
      f == _add_if_action(e, "XDP_PASS", "p0", 0, FALSE)
  IN _add_if_action(f, "XDP_TX", "p2", 1, TRUE)

ExampleReturn(p, a, m, action) ==
  [pkt |-> p, mem |-> m, action |-> action, failed |-> _run_unrestricted_asserts(a, m, action)]

xdp_main(p) ==
  LET m == [p0 |-> p.p0, p1 |-> p.p1, p2 |-> p.p2, value |-> 0]
      a == AtPayload(m)
  IN CASE p.headers = "udp" -> ExampleReturn(p, AtEntry, m, "XDP_PASS")
       [] p.headers = "tcp" /\ m.p0 = 0 ->
            ExampleReturn(p, _set_expected_return(a, "XDP_TX"), [m EXCEPT !.p2 = 1, !.value = 1], "XDP_TX")
       [] OTHER ->
            LET r == _set_expected_return(a, "XDP_PASS") IN
            ExampleReturn(p, _add_constant(r, m, {"value"}), [m EXCEPT !.p1 = 0], "XDP_PASS")

ExampleInit == exampleRun = [pkt |-> [headers |-> ""], mem |-> [p0 |-> 0], action |-> "", failed |-> {}]
ExampleNext == \E p \in ExamplePackets : exampleRun' = xdp_main(p)
ExampleSpec == ExampleInit /\ [][ExampleNext]_exampleRun
-----------------------------------------------------------------------------
\* Whatever packet the program meets, the assertions it has registered by the
\* time it returns agree with each other and with what it did.
ExampleAssertionsHold == exampleRun.failed = {}

\* The assertions that the programs of crab_assert and assert_map_example
\* register, and the ones of the header itself, hold in every run.
AllAssertionsHold == AssertionsHold /\ ExampleAssertionsHold
=============================================================================
