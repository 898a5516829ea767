------------------------------- MODULE FwNat ------------------------------
(***************************************************************************)
(* The firewall and NAT that examples/evaluation-two-program-fw-nat chains *)
(* (xdp_fw_nat_combined in main_lifter.c).  The firewall passes a source   *)
(* address of the whitelist; the NAT gives it an inner address and keeps   *)
(* the mapping both ways, in two maps that it writes one after the other.  *)
(* Runs on several CPUs interleave between the accesses to the maps, and   *)
(* the operator changes the whitelist meanwhile.                           *)
(***************************************************************************)
EXTENDS Integers, FiniteSets

CONSTANTS
  NatCpus,          \* the CPUs that run the programs
  Outer,            \* source addresses
  MaxWhitelist,     \* entries of whitelist_addresses (10)
  MaxMappings       \* entries of outer2inner and of inner2outer (12)

ASSUME NatCapacity == MaxWhitelist \in Nat /\ MaxMappings \in Nat \ {0}

VARIABLES
  whitelist_addresses,
  outer2inner,      \* function from outer to inner addresses
  inner2outer,      \* and back
  natRun,           \* the run of each CPU: the source address and the next step
  sentAs            \* pairs of outer and inner address that packets left with

natVars == <<whitelist_addresses, outer2inner, inner2outer, natRun, sentAs>>
-----------------------------------------------------------------------------
\* Always the same address, whatever is in use.
getNextAvailableIPAddress == 1
Inner == {getNextAvailableIPAddress}
NatIdle == [pc |-> "idle"]
NatRuns == [pc : {"lookup", "update", "reverse"}, saddr : Outer]
Put(f, k, v) == [x \in DOMAIN f \cup {k} |-> IF x = k THEN v ELSE f[x]]
\* A map takes a key it has, or a new one while there is room.
HasRoom(f, k) == k \in DOMAIN f \/ Cardinality(DOMAIN f) < MaxMappings

FwNatInit ==
  /\ whitelist_addresses = {}
  /\ outer2inner = [o \in {} |-> 0]
  /\ inner2outer = [i \in {} |-> 0]
  /\ natRun = [c \in NatCpus |-> NatIdle]
  /\ sentAs = {}

\* The operator adds an address to the whitelist or takes one off.
ChangeWhitelist(o) ==
  /\ \/ o \notin whitelist_addresses /\ Cardinality(whitelist_addresses) < MaxWhitelist
        /\ whitelist_addresses' = whitelist_addresses \cup {o}
     \/ o \in whitelist_addresses /\ whitelist_addresses' = whitelist_addresses \ {o}
  /\ UNCHANGED <<outer2inner, inner2outer, natRun, sentAs>>

\* The firewall: XDP_PASS for a source of the whitelist, and the NAT runs;
\* XDP_DROP for any other, and it does not.
xdp_fw(c, o) ==
  /\ natRun[c].pc = "idle"
  /\ o \in whitelist_addresses
  /\ natRun' = [natRun EXCEPT ![c] = [pc |-> "lookup", saddr |-> o]]
  /\ UNCHANGED <<whitelist_addresses, outer2inner, inner2outer, sentAs>>

\* A source with a mapping leaves with it.
NatLookup(c) ==
  /\ natRun[c].pc = "lookup"
  /\ LET o == natRun[c].saddr IN
     IF o \in DOMAIN outer2inner
     THEN sentAs' = sentAs \cup {<<o, outer2inner[o]>>} /\ natRun' = [natRun EXCEPT ![c] = NatIdle]
     ELSE sentAs' = sentAs /\ natRun' = [natRun EXCEPT ![c].pc = "update"]
  /\ UNCHANGED <<whitelist_addresses, outer2inner, inner2outer>>

\* Mutant: the answer of the first update is ignored.
NatUpdateIgnored(c) ==
  /\ natRun[c].pc = "update"
  /\ LET o == natRun[c].saddr IN
     outer2inner' = IF HasRoom(outer2inner, o)
                    THEN Put(outer2inner, o, getNextAvailableIPAddress) ELSE outer2inner
  /\ natRun' = [natRun EXCEPT ![c].pc = "reverse"]
  /\ UNCHANGED <<whitelist_addresses, inner2outer, sentAs>>

\* The first update; XDP_DROP if the map is full.
NatUpdate(c) ==
  /\ natRun[c].pc = "update"
  /\ LET o == natRun[c].saddr IN
     IF HasRoom(outer2inner, o)
     THEN /\ outer2inner' = Put(outer2inner, o, getNextAvailableIPAddress)
          /\ natRun' = [natRun EXCEPT ![c].pc = "reverse"]
     ELSE outer2inner' = outer2inner /\ natRun' = [natRun EXCEPT ![c] = NatIdle]
  /\ UNCHANGED <<whitelist_addresses, inner2outer, sentAs>>

\* The second update; after it the packet leaves with the inner address.
NatReverse(c) ==
  /\ natRun[c].pc = "reverse"
  /\ LET o == natRun[c].saddr IN
     IF HasRoom(inner2outer, getNextAvailableIPAddress)
     THEN /\ inner2outer' = Put(inner2outer, getNextAvailableIPAddress, o)
          /\ sentAs' = sentAs \cup {<<o, getNextAvailableIPAddress>>}
     ELSE inner2outer' = inner2outer /\ sentAs' = sentAs
  /\ natRun' = [natRun EXCEPT ![c] = NatIdle]
  /\ UNCHANGED <<whitelist_addresses, outer2inner>>

FwNatNext ==
  \/ \E o \in Outer : ChangeWhitelist(o)
  \/ \E c \in NatCpus :
       \/ \E o \in Outer : xdp_fw(c, o)
       \/ NatLookup(c) \/ NatUpdate(c) \/ NatReverse(c)

FwNatSpec == FwNatInit /\ [][FwNatNext]_natVars
-----------------------------------------------------------------------------
\* The way back leads to an address that has the mapping: the reverse entry is
\* written after the forward one and no forward entry is ever lost, so that an
\* answer is never given to an address that no packet was sent for.
ReverseLeadsBack ==
  \A i \in DOMAIN inner2outer :
    inner2outer[i] \in DOMAIN outer2inner /\ outer2inner[inner2outer[i]] = i

\* A source leaves under the same inner address for good: a mapping that was
\* used is never changed or dropped.
MappingIsKept ==
  \A x \in sentAs : x[1] \in DOMAIN outer2inner /\ outer2inner[x[1]] = x[2]

\* Both: the two maps agree with each other and with what was sent.
MappingsAgree == ReverseLeadsBack /\ MappingIsKept
=============================================================================
