---------------------------- MODULE AssertSpec ----------------------------
(***************************************************************************)
(* The run-time assertions of verification_tools/assert_spec.h.  A program *)
(* under verification registers what has to hold when it returns; the      *)
(* checks run in BPF_RETURN.  The tables the header keeps in static        *)
(* variables are the record asserts, and mem is the memory the program     *)
(* works on, a function from the cells it names to their contents.  An     *)
(* assert() that fails is recorded in asserts.failed with its name.        *)
(***************************************************************************)
EXTENDS Integers, Sequences, FiniteSets

MAX_CONSTANTS == 10
MAX_LEADS_TO_ACTION == 10
MAX_IF_ACTIONS == 10
MAX_IFS == 10
XdpActions == {"XDP_ABORTED", "XDP_DROP", "XDP_PASS", "XDP_TX", "XDP_REDIRECT"}

\* The tables before anything is registered: expected_return is -1.
NoAsserts ==
  [expected_return |-> "", expected_not_returns |-> {}, constants |-> <<>>, leads_to |-> <<>>,
   if_actions |-> <<>>, ifs |-> <<>>, failed |-> {}]

Fail(a, why) == [a EXCEPT !.failed = @ \cup {why}]

_set_expected_return(a, value) ==
  IF value \in a.expected_not_returns THEN Fail(a, "contradiction")
  ELSE [a EXCEPT !.expected_return = value]

_set_expected_not_return(a, value) ==
  IF value = a.expected_return THEN Fail(a, "contradiction")
  ELSE [a EXCEPT !.expected_not_returns = @ \cup {value}]

\* The bytes of a range are copied into the buffer of the header; a range is
\* the set of the cells in it.  The size of that buffer is left out.
Contents(mem, range) == [cell \in range |-> mem[cell]]
_add_constant(a, mem, range) ==
  IF Len(a.constants) >= MAX_CONSTANTS THEN Fail(a, "MAX_CONSTANTS")
  ELSE [a EXCEPT !.constants = Append(@, [range |-> range, value |-> Contents(mem, range)])]

_add_leads_to(a, condition, value) ==
  IF ~condition THEN a
  ELSE IF Len(a.leads_to) >= MAX_LEADS_TO_ACTION THEN Fail(a, "MAX_LEADS_TO")
  ELSE [a EXCEPT !.leads_to = Append(@, value)]

_add_if_action(a, return_value, cell, value, eq) ==
  IF Len(a.if_actions) >= MAX_IF_ACTIONS THEN Fail(a, "MAX_IF_ACTIONS")
  ELSE [a EXCEPT !.if_actions =
          Append(@, [return_value |-> return_value, cell |-> cell, value |-> value, eq |-> eq])]

\* Mutant: the table is one entry too short for the SYN of Crab.
_add_if_short(a, cell, value, eq) ==
  IF Len(a.ifs) >= 4 THEN Fail(a, "MAX_IFS")
  ELSE [a EXCEPT !.ifs = Append(@, [cell |-> cell, value |-> value, eq |-> eq])]

_add_if(a, cell, value, eq) ==
  IF Len(a.ifs) >= MAX_IFS THEN Fail(a, "MAX_IFS")
  ELSE [a EXCEPT !.ifs = Append(@, [cell |-> cell, value |-> value, eq |-> eq])]

BPF_ASSERT_IF_THEN_EQ(a, condition, cell, value) ==
  IF condition THEN _add_if(a, cell, value, TRUE) ELSE a
\* Mutant: registered as an equality.
BPF_ASSERT_IF_THEN_NEQ_eq(a, condition, cell, value) ==
  IF condition THEN _add_if(a, cell, value, TRUE) ELSE a
BPF_ASSERT_IF_THEN_NEQ(a, condition, cell, value) ==
  IF condition THEN _add_if(a, cell, value, FALSE) ELSE a
BPF_ASSERT_END_EQ(a, cell, value) == _add_if(a, cell, value, TRUE)

\* What BPF_RETURN finds wrong when the program returns return_value.
_run_unrestricted_asserts(a, mem, return_value) ==
  a.failed
  \cup (IF a.expected_return \notin {"", return_value} THEN {"return"} ELSE {})
  \cup (IF return_value \in a.expected_not_returns THEN {"not_return"} ELSE {})
  \cup {"constant" : i \in {j \in DOMAIN a.constants :
                              Contents(mem, a.constants[j].range) # a.constants[j].value}}
  \cup {"leads_to" : i \in {j \in DOMAIN a.leads_to : a.leads_to[j] # return_value}}
  \cup {"if_action" : i \in {j \in DOMAIN a.if_actions :
          /\ a.if_actions[j].return_value = return_value
          /\ (mem[a.if_actions[j].cell] = a.if_actions[j].value) # a.if_actions[j].eq}}
  \cup {"if" : i \in {j \in DOMAIN a.ifs :
          (mem[a.ifs[j].cell] = a.ifs[j].value) # a.ifs[j].eq}}
=============================================================================
