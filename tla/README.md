# KrakenGuard: TLA+ models, checks and proofs

KrakenGuard verifies eBPF programs against a policy. A daemon receives an object
file and a policy over a Unix socket, lifts the object to LLVM IR, runs KLEE on
it, reads KLEE's result files and answers; a `load` request that passes is
handed to a loader. Around it are LLVM passes that prepare the IR and a search
that replaces functions KLEE cannot cope with by generated stubs. Most of the
repository is the programs under verification: the Cilium datapath, Katran,
Electrode and some small ones.

This directory models the verifier where order, failure and left-over state
decide whether a verdict can be trusted, and the programs where several
packets, CPUs and maps meet. Paths are relative to the repository root.

## 1. Inventory

| Component | State | Operations | What is hard | What makes it correct |
|---|---|---|---|---|
| Daemon server (`daemon/krakenguard.py`) | `running`, the listening socket and its file, the connection and request in progress | `start`, accept loop, `_signal_handler`, `stop`, `_handle_client`, `_receive_request`, `_save_request_files`, `_handle_request`, `_handle_cross_program_request` | one thread serves everyone; signals and crashes at any point; clients that vanish; exceptions on every step | a success answer rests on this request's own proof; answers go to their call; the daemon can be stopped |
| Client library (`daemon/draco_client.py`) | one connection per call | `connect`, upload, `_receive`, `disconnect` in `load`, `verify`, `verify_cross_program`, `health` | blocking writes, broken connections, a full accept queue | every call ends |
| Wire protocol (`daemon/protocol.py`) | none | framing, `Request`, `Response` | partial reads, undecodable data | a bad message is an error of its own call only |
| Pipeline (`daemon/pipeline.py`) | files of the request | lifting, KLEE run, result parsing | tools that fail, time out or write only part of their output | no verdict from missing or foreign files |
| Storage (`daemon/utils.py`) | `requests_dir/<id>/{input,intermediate,output}` | create directory, save file | directories survive crashes and are reused | a directory belongs to one request |
| Loader (`daemon/loader.py`) | none (a stub) | `load_program` | given a path, not bytes | loads only what was proved |
| Policy-prune pass (`lifting_tools/llvm_policy_pass`) | set of relevant functions | scan, upward closure, address-taken rule, helper rule, downward closure, stubbing | iteration order of a pointer-keyed map; indirect calls | keeps what KLEE has to run; result independent of the order |
| Other passes (`llvm_func_pass`, `llvm_selective_packet_sym`, `llvm_clam_bridge`, `llvm_ext_sym_pass`) | module being rewritten | map references, selective symbolisation, assumptions, linkage | offsets and names that are ambiguous; lists changed while they are walked | calls get their own maps, the module links, policy bytes stay symbolic, no assumption is lost or made up |
| Lifting scripts (`lifting_tools/generateIR.py`, `generateCrossProgramIR.py`, templates) | files in the request's directories | dump, lift, passes, harness, link, prune | optional steps silently skipped; merging two configurations | the IR is of the program that was sent |
| Stub search (`lifting_tools/summarizer/auto_stub.py`) | work directory, accepted stubs | baseline, summarise, compile, link, verify, report | tools failing half way over a work directory that holds old files | stubs accepted on new evidence |
| Stub generation (`summarize.py`, `ir_analyzer.py`, `hash_bounds.py`, `stub_emitter.py`, `detect.py`) | none | pure analyses | bounds that must over-approximate | a stub allows every result of the function |
| Read/write sets (`verification_tools/`) | none | parse, overlap | hexadecimal parsing, empty sets | overlap found if and only if there is one |
| Cilium datapath (`examples/cilium-lxc/bpf`) | connection tracking, NAT, service, policy, endpoint and ipcache maps; per packet the mark, the meta slots and the tail-call buffer | programs of the pods' interfaces, the network and host devices, the tunnel and XDP; `lib/*.h` below them | a packet crosses several programs on several CPUs while the agent changes the maps; entries expire, are evicted and are reused by another connection | policy is enforced on every path; a reply comes from where the request went; chains of programs end |
| Socket load balancing (`bpf_sock.c`) | reverse NAT per socket, services, affinity | connect, sendmsg, recvmsg, getpeername, bind | services that change between a send and its answer | an application sees the address it used |
| Katran (`examples/katran`) | VIPs, rings, connection table, connection rate | `balancer_ingress`, the health-check programs | the ring changes in the middle of connections; floods; ICMP errors about a connection | a connection stays with its server |
| Electrode (`examples/electrode`, `examples/cross_prog`) | last operation, view, quorum bits, ring buffer | prepare, acknowledgement and quorum programs; broadcast, in `cross_prog` only | answers before user space has seen anything; several CPUs on one map; lost and repeated packets; a program that relies on an earlier one having moved the head of the packet | what is acknowledged is held by its sender |
| Small programs (`examples/crab`, `crab_assert`, `assert_map_example`, `fw`, `evaluation-two-program-fw-nat`, `bmc-cache`) | a map or two each; the assertions of `assert_spec.h` in some | one program per packet | a counter that wraps, two maps that have to agree, several CPUs between a lookup and the update that follows it | servers in turn, assertions hold, maps agree |
| KLEE, bpflifter, ebpf-se | external | | submodules, not in this repository | |

How they interact. Client and daemon share a socket and its backlog; the daemon
and its tools share directories named by the request id; the daemon reads KLEE's
verdict only from two files; `generateIR.py` runs the passes as separate
processes over one IR file; `auto_stub.py` drives four tools through files whose
names depend only on the function. The programs of the datapath call each other
by tail calls, which never return, and otherwise share only maps, the packet,
its mark and its meta slots; the kernel takes a packet from the hook of one
device to that of another; the agent writes most maps and knows nothing of the
packets on the way. Socket load balancing shares the service maps with the
packet path. Katran and Electrode stand alone, but for `examples/cross_prog`,
which runs one after the other on the same packet.

The hazards that follow are listed in `PROJECT.json`, each at its line and with
the properties that cover it.

## 2. Modules

| Module | Models |
|---|---|
| `KrakenGuard` | daemon, clients, storage, pipeline and loader calls, in one state machine |
| `VerifierService` | what the daemon promises: each call opened once, examined at most once and alone, answered at most once and only as its examination justifies, loaded only on a valid one |
| `KrakenGuardRefinement` | the mapping under which `KrakenGuard` implements `VerifierService` |
| `PolicyPrune` | `PolicyPrunePass::run` on an abstract call graph, any visiting order |
| `FuncPass` | `gen_reloc_dump` of `generateIR.py` and `CustomModulePass`, which reads its file |
| `SpecValue`, `SpecJson`, `PacketSym` | the values of a JSON specification, the reader the prune pass and the packet pass share, and the selective packet pass |
| `ClamBridge` | the bridge from Clam's assumptions to KLEE's, and the pass that makes functions external |
| `AutoStub` | `auto_stub.py`, several invocations over one work directory |
| `Conntrack`, `LoadBalancer`, `Policy`, `Forward`, `Nat` | the libraries of the Cilium datapath, each extending the one before |
| `NodePort`, `Lxc`, `Host`, `Overlay` | `nodeport.h`, `bpf_lxc.c`, `bpf_host.c` with the host firewall, `bpf_overlay.c` with `bpf_xdp.c` |
| `Node` | the programs composed: packets on several CPUs, the tail-call table, the maps, the agent, the kernel between the hooks |
| `SnatMapping` | the choice of a source port of `nat.h`, map operation by map operation, on several CPUs |
| `Sock`, `Katran`, `Electrode` | `bpf_sock.c`, Katran, Electrode |
| `CrossProgram` | the driver of `examples/cross_prog`: Katran and then Electrode on one packet |
| `AssertSpec`, `AssertExample`, `Crab` | the assertions of `assert_spec.h`, and the two programs that register some |
| `Firewall`, `FwNat`, `Bmc` | the stateful firewall, the firewall chained with a NAT, the memcached cache |
| `KrakenGuardProofs`, `KrakenGuardRefinementProofs`, `PassProofs`, `AutoStubProofs`, `SnatMappingProofs`, `CrossProgramProofs`, `NodeProofs`, `ExampleProofs` | theorems and their proofs |
| `MCKrakenGuard`, `MCAutoStub`, `MCPasses`, `MCNode`, `MCNodePort`, `MCHost`, `MCApps` | small instances for TLC |

Definitions called "Variant" or "Mutant" in the modules are plausible slips of
the code next to the definition they vary. No specification uses them;
substituted for that definition they show that a property can fail.

### KrakenGuard

One element of `Calls` is one call of a client method, with one connection.
`pc` is the place of the daemon's only thread (`processing_lock` adds nothing:
there is one thread); `cur`, `got`, `reqId`, `ir`, `rc`, `resp` are the locals of
`_handle_client` and of the functions below it; `input`, `results`, `dirs` the
disk; `inbox` and `closed` the daemon's end of each connection; `path` the file
at `socket_path`. `loads` and `ran` are records for the properties: what was
given to the loader, and what each KLEE run was given and wrote. `cut` records
connections broken by a crash or by closing the listener.

| Code | Action |
|---|---|
| `connect`, the uploads, `_receive`, `disconnect` | `Connect`, `Send`, `Receive`, `Abandon` |
| `start`, `_signal_handler`, end of the loop and `stop` | `Start`, `Signal`, `Stop` |
| `accept`, `_receive_request` | `Accept`, `ReceiveUnit`, `ReceiveEOF` |
| `create_request_directory`, `_save_request_files` | `StoreRequest` |
| dispatch of `_handle_request`, checks of the cross-program handler | `Handle` |
| the three stages of the pipeline | `Lift`, `RunKlee`, `Conclude` |
| `write_message` and `conn.close`, normal and error path | `Respond`, `RespondError` |
| the container is killed | `Crash` |

Abstractions. A request is a header unit and one unit per file; a file is
readable, empty or undecodable. Its content is known only by who uploaded it and
under which key. A result file says "valid" or something else, or is missing.
KLEE may write any combination, exit with 0 or 1, time out, or be missing. An
exception inside the pipeline is possible at every stage. The directory KLEE
writes to is one place: the code follows `klee-last` inside it, which KLEE
recreates in each run.

From the environment: a connection's data can be read after the other end
closed; writing to a closed one raises; closing a listener breaks the queued
connections. `docker-compose` runs the daemon as process 1 of its container, so
tools die with it, and restarts it over the same volumes: `Crash` keeps the disk
and the socket file, with whatever the step in progress had written. Tools do
not run on after a crash. `Start` succeeds: it removes the file an earlier life
left, without which `bind` would raise (`krakenguard.py:60`).

### PolicyPrune

A module is its direct calls, the functions with a body, those whose address is
taken, those that call through a pointer, and what the instruction scan reports.
`VisitUp(f)` and `VisitDown(f)` are one iteration of the inner loops, `EndSweep`
the end of an outer iteration; any order of visits is allowed because the call
graph is a map keyed by pointers.

### The other passes

`FuncPass` follows one object through the relocation dump and the pass: the
lines of the dump in their order, the map definitions made from them, then call
by call the rewriting of each helper, and the removal of the old declarations.
An LLVM value is its type, so that a rebuilt call whose operands do not fit shows.
`PacketSym` works on bytes: a packet type is a tree with sizes, a layout gives
the indices of each field, and the property compares the bytes stored over with
the bytes the policy speaks of. It takes the reader as a parameter (`ReadSpec`),
which the runs set to that of `SpecJson`, the recursive-descent parser over
tokens (blanks, escapes and digits are below the tokens), compared with the text
of every small value and of every prefix of it. `ClamBridge` walks the calls and
erases the collected ones at the end, as the code does.

### AutoStub

Every file carries the number of the invocation whose input it was made from. A
kept work directory (`--work-dir`) holds what earlier invocations left; tools may
fail at each step, and the search may be interrupted at each step.

### The Cilium datapath

A program is a pure operator on a record `m`, the state one run of it sees: the
packet, the program's variables, the compile-time options, the maps. The header
of each module lists the fields it uses. `Drop(m, reason)` ends a run with an
error, `ep_tail_call(m, p)` with a tail call, `CTX_ACT_OK` and `ctx_redirect`
with a verdict; `Then` and `Continue` go on only when the run has not ended.
`#ifdef` is `On(m, "OPTION")`, so that one model stands for all builds. The
IPv4 and IPv6 twins share an operator where the code is the same but for the
address, and are apart where it differs.

| Code | Model |
|---|---|
| a program up to its next tail call | one step of a CPU in `Node` (`Execute`) |
| a packet at a hook | `Arriving`, with the mark and the tunnel key it may have |
| the kernel between two hooks | `Onward`, `HandedOver` (external) |
| changes of the maps by the agent | `Agent`, and `Collect` for its garbage collector (external) |
| `bpf_mono_now` | `now`, which a step of its own advances |

So another CPU or the agent may come between two programs of one packet, but not
into the middle of one; the clock and the collector step between packets, which
take far less than a second. Inside a program the code makes several map
operations, and only for the port search of `nat.h`, where two of them have
to agree, does `SnatMapping` make each a step. `opened` and `served` are
records for the properties: which connections a pod or the host was let open,
and what a request from outside was when it arrived and when it left.

Abstractions. Checksums, MAC addresses that decide nothing, traces, metrics and
notifications are left out. Names that share a meta slot have a field each. The
maps of both families are one table, the TCP map and the other map of connection
tracking too. A map update fails or does not (`Fulls`), LRU eviction is modelled
in `SnatMapping`, `Sock` and `Katran`. `sk_assign` does not fail and
`ctx_store_bytes` does not return `DROP_WRITE_ERROR`.

Options no run turns on (IPsec, WireGuard, SRv6, egress gateway, VTEP, L7 load
balancing in the packet path, NAT46x64 and others) are modelled but not checked.
`srv6_reply` is not modelled: nothing calls it.

### Programs that stand alone

`Sock`: a step is a system call with its program, a change of the services, an
eviction or a tick. `sent` records the address by which a socket last reached a
backend. `Katran`: a packet runs to its end in one step, because the packets of
a flow are handled by one CPU in order; ring changes, evictions and the clock
come between. `home` records the real a connection went to.

`Electrode` is `examples/electrode/fast_kern.c`: a step is one program of a
chain; three replicas, a network that loses, repeats and reorders, and the user
space of each replica, which takes what is passed to it (external). Views do not
change within a behaviour; packets of other views arrive. `fastPaxos_main` takes
only packets of protocol 10 whose port field reads 12345 in host order (`:200`,
`:202`); the exchange of the model is made of such packets, others are passed up.
No program of this file moves the head of the packet, so `HandlePrepareOK_main`
reads view, operation and replica from the MAC addresses (`FrameStart`). The
broadcast program is not in this file, so no entry of the quorum map is ever
opened in `Electrode`. Acknowledgements are assumed to go to the leader: at a
follower one would overwrite the slot its own are built from (`:238`).
`CrossProgram` is the chain of `examples/cross_prog`, whose copy of Electrode
does move the head (a failure to is not noticed), checks for UDP and a port in
network order, and broadcasts. The driver calls both programs whatever the first
one answers, so Electrode may be given what Katran made of the packet.

`AssertSpec`: the tables of `assert_spec.h` are a record; a program registers
ranges that stay constant, values and verdicts that go together, and the checks
run when it returns. An assertion that fails is recorded, not an abort.
`AssertExample` uses every kind of assertion, `Crab` those of its verified copy;
`crabLoad` records the SYNs a CPU gave to each server since its counter was 0.
A SYN may have no room in front of it (`room`): `bpf_xdp_adjust_head` fails and the
run is aborted before a server is chosen. IP headers have no options, as in the
driver (`ihl` 5).
`Firewall` and `FwNat` make every map access a step, so that other CPUs come
between the lookup and the update; `opened`, `admitted` and `sentAs` are records
for the properties. The address pool of `FwNat` has one address, as
`getNextAvailableIPAddress` returns a constant.

`Bmc`: in this repository the tail calls and `bpf_spin_lock` are commented out,
and `hash_keys` does not copy the bytes of a key. Each program is therefore an
entry point of its own, and `update_cache` takes two steps, the copy
(`CopyReply`) and what follows it (`PublishEntry`). The copy starts before it is
known that the reply is whole (`bmc_kern.c:605`): a reply that is cut short
leaves an entry that was valid before valid over part of it (`:611`), and two
CPUs may leave the data of one key under the hash of another of the same slot.
The model has both behaviours; no property speaks against them, because nothing
in the repository promises more. `ValidEntriesAreFilled` says what is left: a
valid entry holds a reply that was copied, and both its hash and its data are of
keys of that slot.

## 3. Runs

| Run | Instance | Shows |
|---|---|---|
| `daemon` | queue of 1, socket buffer of 1 unit, under `MCFairSpec`; two calls that are each a good load or a verify whose constraints cannot be decoded, with 1 fault and 2 starts; and one call with each of sixteen kinds of request, with 2 faults and 3 starts; 313,425 states | `OwnVerdict`, `LoadsWhatWasVerified`, `AnswerIsAddressed`, `OnlyShutdownLosesCalls`, `ImplementsService`, `CallEnds`, `ShutdownCompletes` |
| `passes` | one pass per behaviour: call graphs of 3 functions with address-taken functions, declarations and a dispatcher; objects with up to four functions and two map references; the packets of the harnesses with every pair of specifications; small JSON values; modules with up to a few assumes | `TypeOK`, `KeepsWhatRuns`, `KeepsDirectCallers`, `OrderIndependent`, `PruneEnds`, `BoundToOwnMap`, `RewrittenModuleLinks`, `PolicyBytesStaySymbolic`, `ParserReadsJson`, `AssumesWhatClamProved` |
| `auto_stub` | 2 functions, 2 invocations, paths 0..1, threshold 0 | `FreshEvidence`, `SuccessIsConclusive` |
| `pods` | 3 pods, a service with two backends, 2 CPUs (symmetric), 3 packets, 1 change by the agent; 169,807 states | `TypeOK`, `PolicyEnforced`, `RepliesFromPeer` |
| `ct_time` | one connection opened, used, closed, reset and reopened; 4 packets, 3 ticks; 469,344 states | `DyingEntriesDie` |
| `nodeport` | fifteen builds, a local and a remote backend, a client with two ports, a range of two NAT ports, 3 packets; 86,235 states | `TailCallsEnd`, `RepliesMatchRequests` |
| `host` | eight builds with the host firewall, 3 packets through any device, 1 change of the host's policy; 25,921 states | `PolicyEnforced`, `HostGuarded` |
| `apps` | one program per behaviour: SNAT with 2 CPUs and 2 flows to a peer; Electrode with 3 replicas, one of them with two CPUs; Katran with 2 reals and 4 events; both on one hook; two sockets with 4 calls; Crab with 3 servers, 2 CPUs, a counter of 8 values and SYNs without room; the assertion example on every packet; the firewalls with 2 CPUs and maps of 2 entries; BMC with 2 slots, 3 keys and 4 packets; 943,251 states | `RepliesComeBack`, `NoPortLeaks`, `AcknowledgedIsHeld`, `ConnectionAffinity`, `PeerIsService`, `ForwardedIsLeftAlone`, `AllAssertionsHold`, `SynsReachServersInTurn`, `FlowsStayOpen`, `MappingsAgree`, `ValidEntriesAreFilled` |

Four runs end in a violation, on purpose: they check a sentence of the
repository against the code, and show the disagreement.

| Run | The sentence | What the code does |
|---|---|---|
| `dsr` | `nodeport.h:2082`: a connection that is no longer DSR must leave the DSR path | the flag is cleared under a key of the other direction, so it stays; IPv6 alike |
| `cross_namesakes` | `draco_client.py`: two programs linked | equal base names: the second object replaces the first |
| `packet_fields` | `selective_packet_sym.cpp:2`: pins fields "the main policy does not mark" | in the packet of `examples/fluvia` the indices of `dPort` are a byte of `sPort` |
| `prepare_ok` | `electrode/fast_kern.c:312`: "now data points to `fastPaxos header`" | data points to the Ethernet header: nothing has moved the head, and an acknowledgement is counted by its MAC addresses |

`passes` checks `PolicyBytesStaySymbolic` for the harnesses whose packet has the
layout its name announces, `packet_fields` for the one that has not.

Bounds. Two calls are enough for one to be served while another waits, is cut off
or comes after a restart; a queue and a buffer of one make connecting and writing
block; a fault puts a crash or a signal into every stage, and the second one of a
call that is alone comes after an earlier one. Two calls of all sixteen kinds with
two faults are out of reach, so `MCNext` gives the larger bounds to a call whose
neighbour never connects. `Backlog` is 1 where the code has 5, so that the queue
is full in the small instance. In `PolicyPrune` three functions allow chains that
need two sweeps in a bad order, cycles, and a dispatcher between them. In
`AutoStub` two invocations are one that leaves files and one that could mistake
them. Three packets are a request, its reply and a third that reuses or disturbs
the entries of the first two; reopening needs a fourth (`ct_time`, `dsr`).
Lifetimes are shortened in proportion, so that three ticks outlast a SYN entry
and a closing one and not an established one. A range of two or three NAT ports
makes two flows collide. One change by the agent falls between any two programs.
`MaxFaults`, `MaxStarts`, `MaxPaths`, `MaxRuns`, `MaxArrivals`, `MaxTime`,
`MaxChanges`, `MaxKTime`, `MaxKEvents`, `MaxSockSteps`, `MaxElectrodeSteps`,
`MaxBmcEvents` bound TLC only; the theorems hold for every value. A counter of 8
values and 3 servers wraps in the middle of a round. A map of 2 entries is full
before the third flow or source.

Deadlock is not checked: after the last allowed start the daemon stays down, a
pass or a search ends, and the other models stop at their bounds.

Fairness (`FairSpec` of `KrakenGuard`, the same conjuncts in `MCFairSpec`). `WF(Serve)`: the thread runs, KLEE has a
timeout (300 s by default), and the lifting scripts are assumed to end, for which
the code has no limit. `WF(Send(c))`, `WF(Receive(c))`: the library writes its
request and reads the response without pausing. Nothing is assumed of `Abandon`,
faults, `Start` or `Connect`. A client that stalls in the middle of an upload
blocks the daemon for ever; `CallEnds` does not speak about that case, which is a
hazard of the code. `PolicyPrune`: the pass runs, so its next step is weakly fair.
The datapath has no liveness property: packets may be lost everywhere, and that a
chain of programs ends is the invariant `TailCallsEnd`.

Two properties take a sentence to be read with care. `PolicyEnforced` judges a
packet by the policy at the moment it is delivered or, for a reply, by the
connection having been opened; a policy that is withdrawn does not end
connections, nor does the code mean to. `BoundToOwnMap` speaks of calls whose
offset is not also the offset of another reference: `gen_reloc_dump` prints a
line for offsets from the section and from every function, and where two of them
are equal the file cannot tell them apart.

### Observations

Met while modelling and not turned into runs:

- `pipeline.py:283` logs KLEE's return code, the docstring at `:216` says that a
  failure raises; `krakenguard.py:145` keeps request directories for ever,
  `ARCHITECTURE.md:419` speaks of retention.
- `policy_pass.cpp:490` stubs a function that reaches a relevant one only through
  a pointer, against the comment at `:3`; the harness that `generateIR.py` writes
  has no such function. The lifter's list of helpers is longer than the list the
  function pass rewrites.
- `auto_stub.py:245` stops with exit code 0 on any conclusive result,
  `docs/architecture.md:375` says when SAFE; `auto_stub.py:436` deletes the
  variant that was just reported, which `:82` calls the output.
- `ext_sym_pass.cpp:25` makes every internal function external, namesakes in
  other modules included.
- Katran: `balancer_kern.h:481` sets `vip_num` to 7, so all services share a ring;
  with `F_HASH_DPORT_ONLY` (`:113`) the connection table is filled under a key no
  lookup uses. `ConnectionAffinity` leaves these services to the ring.
- Electrode: `fast_kern.c:202` compares the protocol with 10 where its comment
  says UDP, and `:200` the port with 12345 without `htons`, so the UDP packets to
  port 12345 that the comments speak of are passed up unhandled. `:331` sets a
  quorum bit by a read and a write; a `PrepareOK` at a follower overwrites the
  slot its own acknowledgements are built from (`:238`).
  `cross_prog/fast_kern.c:597` reads a four-byte key from one byte.
- Crab: `BPF_ASSERT_RETURN(XDP_TX)` (`crab_assert/lb_kern.c:96`) is registered
  before `bpf_xdp_adjust_head`, whose failure returns `XDP_ABORTED` (`:141`).
  `AllAssertionsHold` allows that run and no other to fail.
- `nat.h:50` never picks the last port of the range first; `conntrack.h:1193`
  changes one bit of a word two CPUs may write; `nodeport.h:2171` leaves the port
  offset of an SCTP packet unset; `bpf_sock.c:584` reports an answer under a
  service's address even if the socket also sent to the backend directly, which
  `lb.h:2120` calls negligible.

## 4. Theorems

All are checked by TLAPS for arbitrary constants.

`KrakenGuardProofs`
- `TypeCorrect`: `Spec => []TypeOK`.
  Type correctness needs `PipelineInv`, that the stages of the pipeline are only
  reached by a complete request: the paths they open would not exist otherwise.
- `SuccessIsProved`, `LoadIsVerified`: with `UniqueIds` (the library uses uuid4),
  `Spec => []OwnVerdict` and `Spec => []LoadsWhatWasVerified`. The inductive
  invariant `VerdictInv` adds: `ConnInv`, a connection waits once, unserved and
  open, so a call is served at most once; `FreshInv`, until the request of a call
  is stored its directory is empty; `JobInv`, what each stage hands to the next
  (the stored files are this call's, the IR is what was found at the objects'
  paths, the result files hold what this KLEE run wrote); `LoadInv`, a load is on
  record only once its call is concluded. Without `FreshInv` a result file of an
  earlier life of the directory could decide; it holds because of `UniqueIds`
  (`DiskStep`) and because a crash closes the connection it interrupts.

`PassProofs`, the prune pass
- `PruneOrderIndependent`: the loops end in the least fixpoints `Up` and `Down`.
  The invariant bounds the relevant set by the fixpoint from above, and says that
  a sweep that changed nothing has left every visited function closed.
- `PruneKeepsWhatRuns`, `PruneKeepsDirectCallers` follow from closure of the
  result; `PruneTypeCorrect` says that only functions with a body are stubbed.

`AutoStubProofs`
- `EvidenceIsFresh`: the tag of a file becomes the current invocation step by
  step (source, bitcode, variant, KLEE output), which the invariant states per
  phase. `SuccessConclusive`: an accepted result is an improvement over the
  baseline of this invocation. `TypeCorrect`.

`SnatMappingProofs`
- `SnatRepliesComeBack`: a reply to a port a flow uses is translated to that flow,
  for any number of CPUs, flows, peers and ports, any random numbers, and the LRU
  taking entries at any time. `SnatNoPortLeaks`: a reverse entry without its flow
  is one a CPU is about to complete or to take back, or the LRU took the other
  half. The inductive invariant `SnatInv` adds: `RightPeer`, a reverse entry is
  filed under its flow's own peer; `OwnsKey`, between its two updates a CPU owns
  the reverse entry it made, because the first update is `BPF_NOEXIST` and nobody
  but the owner deletes a key it failed to complete; `TornStays`, a flow that
  lost its reverse entry gets it back only from a CPU that will take it away
  again. Without
  `OwnsKey` the deletion by key could take another CPU's entry.

`KrakenGuardProofs`, what clients see
- `AnswersAreAddressed`, `ShutdownAloneLosesCalls`: `Spec => []AnswerIsAddressed`
  and `Spec => []OnlyShutdownLosesCalls`, whatever the ids are. The inductive
  invariant `AnswerInv` adds to the answers and to `ConnInv`: `SentInv`, a client
  has not sent more than its request; `AddressInv`, `request_id` in
  `_handle_client` is unset until a request is complete and then its own, so the
  error path answers without an id only if the request cannot be read or its
  client is gone; `ClosedInv`, a connection is closed with an answer, by a
  shutdown, or after its client gave up.

`KrakenGuardRefinementProofs`
- `DaemonImplementsService`: with `UniqueIds`, `Spec => ImplementsService`. The
  initial states map to the initial state of the service; every action of the
  model is one of its steps or leaves it alone, one lemma per action. The
  invariant `ServiceInv` adds to `VerdictInv`: `RanInv`, a KLEE run is on record
  for closed calls and for the one in the last two stages; `RespInv`, the
  response about to be written follows from what KLEE wrote.

`PassProofs`, the other passes
- `CallsKeepTheirMaps`, `RewrittenModulesLink`: `FuncPassSpec => []BoundToOwnMap`
  and `FuncPassSpec => []RewrittenModuleLinks`, for any object. The invariant
  `ModuleInv` follows the pass: `ConfigInv`, the dump holds the lines of every
  relocation and no other; `NumbersInv`, the number of an unambiguous call leads
  to its own map or to none; `GlobalsInv`, each map has its definition unless a
  function has its name; `FunctionsInv`, the declarations are those of the object
  and of the helpers it calls; `SitesInv`, a rebuilt call fits its helper;
  `MapsInv`, the calls already visited have their maps. The dump is a
  concatenation of sequences; that it has the elements of its parts needs an
  induction over their number, which is done as a proof by smallest
  counterexample: `NoSmallest` takes the set of counterexamples, not a predicate,
  so the provers can instantiate it.
- `KleeAssumesWhatClamProved`: `BridgeSpec => []AssumesWhatClamProved`, for any
  module and both settings of the option. A `klee_assume` put in front of a call
  moves what follows, so the places to erase and the place of the scan are
  numbers in a module that has changed; `BridgeInv` relates it to the module as
  it was: the calls from the place of the scan on are the last ones of the
  original, and what is left of those before it tells KLEE exactly what Clam
  proved in the others. Each step adds one element to the concatenations
  (`KeptNext`, `KleeNext`, `ProvedNext`, all from `FlattenAppend`).
- `PinnedBytesAreIrrelevant`: `PacketSymSpec /\ LayoutsAgree(Harnesses) =>
  []PolicyBytesStaySymbolic`, for any reader of the specifications and any
  harness. `PinInv`: the pass stores only over fields it holds irrelevant, and a
  field in which the policy has a byte is not one of them. This rests on two facts
  about the tables of the pass: the ranges of two known fields do not meet
  (`FieldsApart`), and the region of a layout has the bytes the specification
  counts from (`IrrelevantByte`). The second is `LayoutsAgree`, a hypothesis,
  because it is not true of every packet: TLC evaluates it for the harnesses of
  the repository (`LayoutsOfTheExamples`), and the packet of the run
  `packet_fields` is the one it fails for.

`CrossProgramProofs`, Electrode
- `AcknowledgementsAreHeld`: `ElectrodeSpec => []AcknowledgedIsHeld` for any number
  of replicas, CPUs and operations. The inductive invariant `ElectrodeInv`: a
  follower's `lastOp` and `msg_lastOp` are `Backed`, that is, user space has or
  will have every operation up to them (`FollowInv`), where the packet between
  the update of the map and the ring buffer counts because it is in
  `WriteBuffer`'s hands; so an acknowledgement on the network is backed when it is
  sent (`NetInv`), and stays so: the packets a replica was given are never taken
  away (`Grows`). `CpuInv` says which programs run on which replica: a follower
  that handled acknowledgements would put an offset into `msg_lastOp`.

`CrossProgramProofs`, Katran and the chain
- `KatranAffinity`: `KatranSpec => ConnectionAffinity`, for any services, reals,
  rings and packets. `KatranInv`: the maps are filled as the loader fills them
  (`KConfigured`), an entry of the connection table names a real that exists, and
  the real a group was last given to is the one its entry names, whichever of the
  ways through `process_packet` wrote it (`Held`).
- `CrossLeavesForwardedAlone`: `CrossSpec => ForwardedIsLeftAlone`. `CrossInv` adds
  to `KatranInv` that the leader exists and keeps its quorum map (`Leads`). The
  packets given to the chain have the headers their kind says
  (`XPacketsHaveHeaders`), so the port Electrode reads in an encapsulated packet is
  that of the tunnel.

`NodeProofs`
- `NodeDyingEntriesDie`: `Spec => []DyingEntriesDie` of `Node`, for any CPUs, builds,
  arrivals, tables and changes of the tables. A state of a program is `Sound` if its
  clock is the node's and every entry of its connection tracking map has the fields
  the programs read and a lifetime that ends in time. One lemma per operator of
  `Conntrack`, `LoadBalancer`, `Policy`, `Forward`, `Nat`, `NodePort`, `Lxc`, `Host`,
  `Overlay` and `Node` says that it leads from a sound state to a sound one, along
  the calls of the code. Only `ct_update_timeout`, `ct_lookup_tuple` (close and
  reopen), the creation of entries and the updates of their flags change an entry;
  their lemmas carry the argument, that no refresh of a lifetime gives more than
  the closing timeout to an entry both sides have closed, or more than the SYN
  timeout to one that has seen SYNs only. All other steps change
  other fields (`SetSound`). The inductive invariant `NodeInv` says this of the map
  of the node: every entry has a lifetime and the flags it depends on, which the
  property alone does not say of entries that are alive, and which a program relies
  on when it closes or refreshes them. `TimeoutAssumption` is needed: closing an entry
  that was never answered gives it the closing timeout, which has to end within the
  SYN timeout.

`ExampleProofs`
- `NatMappingsAgree`: the invariant adds that a run between its two updates has
  its forward entry. `FwFlowsStayOpen`: `biflow` gives a packet and its reply the
  same key and no other pair of addresses (`BiflowPairs`, `BiflowReply`), and the
  table holds keys of opened flows only. `BmcValidEntriesAreFilled`: data, once
  copied, is replaced but never removed, so a run that is about to mark a slot
  finds one that is filled (`Copied`), whatever other CPUs did to it in between;
  what is copied or marked is of the slot (`Fits`). `CrabSynsReachServersInTurn`:
  the counter is so many whole rounds and so many servers of the next
  (`CrabShare`), also when it wraps, because `crabLoad` starts again with it; the
  maps the driver filled lead from a number to the address and from there to the
  MAC of the same server.
- `EveryAssertionHolds`: `CrabSpec /\ ExampleSpec => []AllAssertionsHold`. Every
  assertion is looked up in the table of those registered before it, so the proof
  follows the tables: what is registered when an assertion is evaluated, and that
  the value it names is the one the program used. For a SYN without room only the
  cause is shown, that it is such a SYN and is aborted (`AssertionsHold`).

Assumptions: `CallAssumption`, `RequestAssumption` (a request has one file per
key, being a dictionary), `BoundAssumption`, `NoneAssumption` of `KrakenGuard`;
`ModuleAssumption` (a function without a body has no instructions),
`NoneAssumption` of `PolicyPrune`; `ConstAssumption`, `NoneAssumption` of
`AutoStub`; `FlowAssumption`, `PortAssumption`, `RandomAssumption`,
`TriesAssumption` of `SnatMapping`; `ObjectAssumption` of `FuncPass` (offsets are
natural numbers, an instruction has at most one relocation, a call is inside its
function, and the map argument of a helper is not a function);
`BridgeAssumption` of `ClamBridge` (a module is a sequence of calls);
`ElectrodeAssumption` (there is a replica and an entry, a frame begins with three
numbers, and the packets that do not come from the exchange go to followers and
are no acknowledgements); `FwNumbers`, `FwPacketKeys`,
`FwCapacity`, `NatCapacity`, `BmcSlots`, `BmcKeys`,
`BmcNoReply` (an entry nothing was copied to holds no reply), `CrabCpusNotEmpty`,
`TargetCount`, `CounterRange`, `TargetAddresses` of the small programs;
`KatranConstants`, `XPacketsHaveHeaders` (a packet given to the chain has an
Ethernet header, a protocol and a port) of `Katran` and `CrossProgram`;
`SpecNumbers` of `PacketSym`; `LifetimeAssumption` (the lifetimes are natural
numbers) and `TimeoutAssumption` (the closing timeout is not longer than the SYN
timeout; 10 s and 60 s in the code) of `Conntrack`. TLC evaluates all of them on the instances.

Only model-checked: liveness (`CallEnds`, `ShutdownCompletes`, `PruneEnds`), which
is out of the prover's reach; `ParserReadsJson`, because the reader is recursive
and what it computes needs an induction over texts; `PeerIsService`; and of
`Node`, `TypeOK`, `PolicyEnforced`, `RepliesFromPeer`, `RepliesMatchRequests`,
`HostGuarded` and `TailCallsEnd`. For these it is not enough
that an operator leaves one map sound: they need what every operator of the
programs does to the packet, the tuple and the marks, on every path, and
`TailCallsEnd` a rank over the tail calls and the hooks of each build.

## 5. Not modelled, and the plan

Not modelled: the daemon's configuration, logging, the test clients, the harness
templates (text), the specification headers other than
`assert_spec.h` (their meaning is KLEE's), stub
generation and candidate detection (pure analyses of IR text), the read and write
sets, the cross-program lifting but for its place in the pipeline, tracing,
metrics and checksums of the datapath, vendored headers. Of the examples,
`fluvia` and the demonstrations keep no state or only counters.

In this order:
1. `SocketPath`: two daemons with one socket path, each removing the other's file
   on start and stop; clients that connect in between.
2. `LiftingPipeline`: the steps of `generateIR.py` and `generateCrossProgramIR.py`
   over the files of a request, with `merge_cross_program_configs` as an operator
   checked against a reference (no entry of either program lost).
3. `MessageFraming`: `read_message` and the upload byte by byte, composed with
   `KrakenGuard`'s units.
4. `ReadWriteSet`, `HashBounds`: pure algorithms against reference definitions.
5. Instances of `Node` with egress gateway, WireGuard and NAT46x64 turned on.
