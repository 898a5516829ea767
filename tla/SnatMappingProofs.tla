--------------------------- MODULE SnatMappingProofs ---------------------------
(***************************************************************************)
(* Proofs about SnatMapping for any number of CPUs, flows and ports.       *)
(*                                                                         *)
(* RepliesComeBack is not inductive: the delete that takes a reverse entry *)
(* back works on a key, not on an entry, so it has to be known that a CPU  *)
(* still owns the key it has written.                                      *)
(***************************************************************************)
EXTENDS SnatMapping, TLAPS

Holds(c) == ncpu[c].at \in {"insert_fwd", "undo"}
KeyOf(f) == <<PeerOf[f], nfwd[f]>>

\* A reverse entry is at a key of its flow's peer.
RightPeer == \A k \in SnatKeys : nrev[k] # NoFlow => k[1] = PeerOf[nrev[k]]
\* A CPU owns the key it has written: the entry is still its own, no other
\* CPU holds the key, and no flow relies on it.
OwnsKey ==
  \A c \in SnatCpus : Holds(c) =>
    /\ nrev[Key(c)] = ncpu[c].flow
    /\ \A d \in SnatCpus : Holds(d) /\ Key(d) = Key(c) => d = c
    /\ \A f \in SnatFlows : nfwd[f] # NoPort /\ f \notin torn => KeyOf(f) # Key(c)
\* A flow without its reverse entry gets it back only from a CPU that will
\* take it away again.
TornStays ==
  \A f \in torn : /\ nfwd[f] # NoPort
                  /\ nrev[KeyOf(f)] = f => KeyOf(f) \in FreshKeys
SnatInv == SnatTypeOK /\ RightPeer /\ RepliesComeBack /\ OwnsKey /\ TornStays /\ NoPortLeaks

LEMMA PortTypes == SnatMinPort \in Nat /\ SnatMaxPort \in Nat /\ SnatMinPort < SnatMaxPort
BY PortAssumption

LEMMA ClampInRange ==
  ASSUME NEW v \in Nat PROVE ClampPort(v) \in SnatPorts
<1> DEFINE n == SnatMaxPort - SnatMinPort
<1>1. n \in Nat \ {0}
  BY PortTypes
<1>2. v % n \in 0..(n - 1)
  <2> HIDE DEF n
  <2> QED BY <1>1
<1> DEFINE r == v % n
<1>3. r \in 0..(n - 1)
  BY <1>2
<1>4. r + SnatMinPort \in SnatPorts
  <2> HIDE DEF r
  <2> QED BY <1>3, PortTypes DEF SnatPorts
<1> QED BY <1>4 DEF ClampPort

LEMMA KeyInKeys ==
  ASSUME SnatTypeOK, NEW c \in SnatCpus, ncpu[c].at # "idle"
  PROVE  /\ ncpu[c].flow \in SnatFlows /\ ncpu[c].port \in SnatPorts
         /\ Key(c) \in SnatKeys
BY FlowAssumption DEF SnatTypeOK, Key, SnatKeys

\* Finish, Goto and a new port change one CPU.
LEMMA TypeOKStep == ASSUME SnatTypeOK, [SnatNext]_nvars PROVE SnatTypeOK'
<1>0. NoPort \notin SnatPorts
  BY PortAssumption DEF SnatPorts
<1>1. ASSUME NEW c \in SnatCpus, NEW rnd \in SnatRandoms, NEW f \in SnatFlows, SnatPacket(c, f, rnd)
      PROVE  SnatTypeOK'
  <2>1. TryKeepPort(SportOf[f], rnd) \in SnatPorts
    BY ClampInRange, FlowAssumption, RandomAssumption DEF TryKeepPort
  <2> QED BY <1>1, <2>1 DEF SnatPacket, SnatTypeOK
<1>2. ASSUME NEW c \in SnatCpus, NEW rnd \in SnatRandoms, SnatProbe(c, rnd)
      PROVE  SnatTypeOK'
  <2>0. ncpu[c].port \in SnatPorts /\ ncpu[c].port \in Nat /\ ncpu[c].flow \in SnatFlows /\ ncpu[c].tries \in Nat
    BY <1>2, KeyInKeys, PortTypes DEF SnatProbe, SnatTypeOK, SnatPorts
  <2>1. (ncpu[c].port + 1) % 65536 \in Nat /\ rnd \in Nat
    BY <2>0, RandomAssumption
  <2>2. NextPort(ncpu[c], rnd) \in SnatPorts
    BY <2>1, ClampInRange DEF NextPort
  <2>3. CASE Goto(c, "insert_rev")
    BY <1>2, <2>3 DEF SnatProbe, SnatTypeOK, Goto
  <2>4. CASE Finish(c)
    BY <1>2, <2>4 DEF SnatProbe, SnatTypeOK, Finish, Asleep
  <2>5. CASE ncpu' = [ncpu EXCEPT ![c] = [at |-> "probe", flow |-> ncpu[c].flow,
                                          port |-> NextPort(ncpu[c], rnd), tries |-> ncpu[c].tries + 1]]
    BY <1>2, <2>0, <2>2, <2>5 DEF SnatProbe, SnatTypeOK
  <2> QED BY <1>2, <2>3, <2>4, <2>5 DEF SnatProbe
<1>3. ASSUME NEW c \in SnatCpus, SnatInsertRev(c) PROVE SnatTypeOK'
  BY <1>3, KeyInKeys DEF SnatInsertRev, SnatTypeOK, Goto, Finish, Asleep
<1>4. ASSUME NEW c \in SnatCpus, SnatInsertFwd(c) PROVE SnatTypeOK'
  BY <1>4, KeyInKeys DEF SnatInsertFwd, SnatTypeOK, Goto, Finish, Asleep
<1>5. ASSUME NEW c \in SnatCpus, SnatUndo(c) PROVE SnatTypeOK'
  BY <1>5, KeyInKeys DEF SnatUndo, SnatTypeOK, Finish, Asleep
<1>6. ASSUME NEW k \in SnatKeys, SnatEvictRev(k) PROVE SnatTypeOK'
  BY <1>6 DEF SnatEvictRev, SnatTypeOK
<1>7. ASSUME NEW f \in SnatFlows, SnatEvictFwd(f) PROVE SnatTypeOK'
  BY <1>7, FlowAssumption DEF SnatEvictFwd, SnatTypeOK, SnatKeys
<1>8. CASE UNCHANGED nvars
  BY <1>8 DEF nvars, SnatTypeOK
<1> QED BY <1>1, <1>2, <1>3, <1>4, <1>5, <1>6, <1>7, <1>8 DEF SnatNext

-----------------------------------------------------------------------------
(* The invariant, action by action.                                        *)

\* A CPU that starts, probes, or gives up before it has written anything.
LEMMA LookingForPort ==
  ASSUME SnatInv, SnatTypeOK', NEW c \in SnatCpus, ~Holds(c), ~Holds(c)',
         \A d \in SnatCpus \ {c} : ncpu'[d] = ncpu[d],
         UNCHANGED <<nfwd, nrev, torn, orphans>>
  PROVE  SnatInv'
<1>1. \A d \in SnatCpus : Holds(d) = Holds(d)' /\ (Holds(d) => Key(d)' = Key(d) /\ ncpu'[d] = ncpu[d])
  BY DEF Holds, Key
<1>2. FreshKeys' = FreshKeys
  BY <1>1 DEF FreshKeys, Holds
<1>3. OwnsKey'
  BY <1>1 DEF SnatInv, OwnsKey, KeyOf
<1>4. TornStays' /\ NoPortLeaks'
  BY <1>2 DEF SnatInv, TornStays, NoPortLeaks, KeyOf
<1> QED BY <1>3, <1>4 DEF SnatInv, RightPeer, RepliesComeBack

LEMMA InsertRevStep ==
  ASSUME SnatInv, SnatTypeOK', NEW c \in SnatCpus, SnatInsertRev(c), nrev[Key(c)] = NoFlow,
         Goto(c, "insert_fwd"), nrev' = [nrev EXCEPT ![Key(c)] = ncpu[c].flow]
  PROVE  SnatInv'
<1> DEFINE k == Key(c)
<1>1. k \in SnatKeys /\ ncpu[c].flow \in SnatFlows /\ ~Holds(c) /\ ncpu \in [SnatCpus -> [at : {"idle", "probe", "insert_rev", "insert_fwd", "undo"},
                            flow : SnatFlows \cup {NoFlow}, port : SnatPorts \cup {NoPort}, tries : Nat]]
  BY KeyInKeys DEF SnatInv, SnatInsertRev, Holds, SnatTypeOK
<1>2. /\ Holds(c)' /\ Key(c)' = k /\ ncpu'[c].flow = ncpu[c].flow
      /\ \A d \in SnatCpus \ {c} : ncpu'[d] = ncpu[d] /\ Holds(d)' = Holds(d) /\ Key(d)' = Key(d)
  BY <1>1 DEF Goto, Holds, Key
<1>3. UNCHANGED <<nfwd, torn, orphans>>
  BY DEF SnatInsertRev
<1>4. k[1] = PeerOf[ncpu[c].flow]
  BY DEF Key
<1>5. /\ nrev'[k] = ncpu[c].flow
      /\ \A j \in SnatKeys \ {k} : nrev'[j] = nrev[j]
  BY <1>1 DEF SnatInv, SnatTypeOK
<1>6. \A f \in SnatFlows : nfwd[f] # NoPort => KeyOf(f) \in SnatKeys
  BY FlowAssumption DEF SnatInv, SnatTypeOK, KeyOf, SnatKeys
<1>7. RightPeer'
  BY <1>4, <1>5 DEF SnatInv, RightPeer
<1>8. \A f \in SnatFlows : nfwd[f] # NoPort /\ f \notin torn => KeyOf(f) # k
  BY FlowAssumption DEF SnatInv, RepliesComeBack, KeyOf
<1>9. RepliesComeBack'
  BY <1>3, <1>5, <1>6, <1>8 DEF SnatInv, RepliesComeBack, KeyOf
<1>10. \A d \in SnatCpus : Holds(d) => Key(d) # k /\ Key(d) \in SnatKeys
  BY KeyInKeys, FlowAssumption DEF SnatInv, OwnsKey, Holds
<1>11. OwnsKey'
  <2> SUFFICES ASSUME NEW d \in SnatCpus, Holds(d)'
               PROVE  /\ nrev'[Key(d)'] = ncpu'[d].flow
                      /\ \A e \in SnatCpus : Holds(e)' /\ Key(e)' = Key(d)' => e = d
                      /\ \A f \in SnatFlows : nfwd'[f] # NoPort /\ f \notin torn' => KeyOf(f)' # Key(d)'
    BY DEF OwnsKey
  <2>1. CASE d = c
    BY <2>1, <1>2, <1>3, <1>5, <1>8, <1>10 DEF KeyOf
  <2>2. CASE d # c
    BY <2>2, <1>2, <1>3, <1>5, <1>10 DEF KeyOf, SnatInv, OwnsKey
  <2> QED BY <2>1, <2>2
<1>12. k \in FreshKeys' /\ FreshKeys \subseteq FreshKeys'
  BY <1>1, <1>2 DEF FreshKeys, Holds
<1>13. TornStays'
  BY <1>3, <1>5, <1>6, <1>12 DEF SnatInv, TornStays, KeyOf, SnatTypeOK
<1>14. NoPortLeaks'
  BY <1>3, <1>5, <1>12 DEF SnatInv, NoPortLeaks
<1> QED BY <1>7, <1>9, <1>11, <1>13, <1>14 DEF SnatInv

LEMMA InsertFwdStep ==
  ASSUME SnatInv, SnatTypeOK', NEW c \in SnatCpus, SnatInsertFwd(c), nfwd[ncpu[c].flow] = NoPort,
         nfwd' = [nfwd EXCEPT ![ncpu[c].flow] = ncpu[c].port], torn' = torn \ {ncpu[c].flow}, Finish(c)
  PROVE  SnatInv'
<1> DEFINE k == Key(c)
           f == ncpu[c].flow
<1>1. k \in SnatKeys /\ f \in SnatFlows /\ ncpu[c].port \in SnatPorts /\ Holds(c)
  BY KeyInKeys DEF SnatInv, SnatInsertFwd, Holds, SnatTypeOK
<1>2. /\ ~Holds(c)'
      /\ \A d \in SnatCpus \ {c} : ncpu'[d] = ncpu[d] /\ Holds(d)' = Holds(d) /\ Key(d)' = Key(d)
  BY DEF SnatInv, SnatTypeOK, Finish, Asleep, Holds, Key
<1>3. UNCHANGED <<nrev, orphans>>
  BY DEF SnatInsertFwd
<1>3a. /\ nfwd'[f] = ncpu[c].port
       /\ \A g \in SnatFlows \ {f} : nfwd'[g] = nfwd[g]
  BY <1>1 DEF SnatInv, SnatTypeOK
<1>4. /\ nfwd'[f] = ncpu[c].port /\ <<PeerOf[f], nfwd'[f]>> = k
      /\ \A g \in SnatFlows \ {f} : nfwd'[g] = nfwd[g] /\ KeyOf(g)' = KeyOf(g)
  BY <1>3a DEF KeyOf, Key
<1>5. nrev[k] = f
  BY <1>1 DEF SnatInv, OwnsKey
<1>6. RepliesComeBack'
  <2> SUFFICES ASSUME NEW g \in SnatFlows, nfwd'[g] # NoPort, g \notin torn'
               PROVE  nrev'[<<PeerOf[g], nfwd'[g]>>] = g
    BY DEF RepliesComeBack
  <2>1. CASE g = f
    BY <2>1, <1>3, <1>4, <1>5
  <2>2. CASE g # f
    BY <2>2, <1>3, <1>4 DEF SnatInv, RepliesComeBack
  <2> QED BY <2>1, <2>2
<1>7. RightPeer'
  BY <1>3 DEF SnatInv, RightPeer
<1>8. \A d \in SnatCpus \ {c} : Holds(d) => Key(d) # k
  BY <1>1 DEF SnatInv, OwnsKey
<1>9. OwnsKey'
  <2> SUFFICES ASSUME NEW d \in SnatCpus, Holds(d)'
               PROVE  /\ nrev'[Key(d)'] = ncpu'[d].flow
                      /\ \A e \in SnatCpus : Holds(e)' /\ Key(e)' = Key(d)' => e = d
                      /\ \A g \in SnatFlows : nfwd'[g] # NoPort /\ g \notin torn' => KeyOf(g)' # Key(d)'
    BY DEF OwnsKey
  <2>1. d # c /\ Holds(d) /\ Key(d)' = Key(d)
    BY <1>2
  <2>2. nrev'[Key(d)'] = ncpu'[d].flow /\ \A e \in SnatCpus : Holds(e)' /\ Key(e)' = Key(d)' => e = d
    BY <2>1, <1>2, <1>3 DEF SnatInv, OwnsKey
  <2>3. \A g \in SnatFlows : nfwd'[g] # NoPort /\ g \notin torn' => KeyOf(g)' # Key(d)'
    <3> SUFFICES ASSUME NEW g \in SnatFlows, nfwd'[g] # NoPort, g \notin torn' PROVE KeyOf(g)' # Key(d)
      BY <2>1
    <3>1. CASE g = f
      BY <3>1, <2>1, <1>4, <1>8 DEF KeyOf
    <3>2. CASE g # f
      BY <3>2, <2>1, <1>4 DEF SnatInv, OwnsKey
    <3> QED BY <3>1, <3>2
  <2> QED BY <2>2, <2>3
<1>10. \A j \in FreshKeys : j = k \/ j \in FreshKeys'
  BY <1>2 DEF FreshKeys, Holds
<1>11. TornStays'
  <2> SUFFICES ASSUME NEW g \in torn' PROVE nfwd'[g] # NoPort /\ (nrev'[KeyOf(g)'] = g => KeyOf(g)' \in FreshKeys')
    BY DEF TornStays
  <2>1. g \in torn /\ g # f /\ g \in SnatFlows
    BY DEF SnatInv, SnatTypeOK
  <2>2. nfwd[g] # NoPort /\ (nrev[KeyOf(g)] = g => KeyOf(g) \in FreshKeys)
    BY <2>1 DEF SnatInv, TornStays
  <2> QED BY <2>1, <2>2, <1>3, <1>4, <1>5, <1>10
<1>12. NoPortLeaks'
  <2> SUFFICES ASSUME NEW j \in SnatKeys, nrev'[j] # NoFlow
               PROVE  nfwd'[nrev'[j]] = j[2] \/ j \in FreshKeys' \/ j \in orphans'
    BY DEF NoPortLeaks
  <2>1. nrev[j] \in SnatFlows /\ (nfwd[nrev[j]] = j[2] \/ j \in FreshKeys \/ j \in orphans) /\ j[2] \in SnatPorts
    BY <1>3 DEF SnatInv, NoPortLeaks, SnatTypeOK, SnatKeys
  <2>2. CASE j = k
    BY <2>2, <1>3, <1>4, <1>5 DEF Key
  <2>3. CASE j # k /\ nfwd[nrev[j]] = j[2]
    BY <2>1, <2>3, <1>3, <1>4, PortAssumption DEF SnatPorts
  <2>4. CASE j # k /\ (j \in FreshKeys \/ j \in orphans)
    BY <2>4, <1>3, <1>10
  <2> QED BY <2>1, <2>2, <2>3, <2>4
<1> QED BY <1>6, <1>7, <1>9, <1>11, <1>12 DEF SnatInv

\* The second entry is refused.
LEMMA RefusedStep ==
  ASSUME SnatInv, SnatTypeOK', NEW c \in SnatCpus, SnatInsertFwd(c), Goto(c, "undo"),
         UNCHANGED <<nfwd, torn>>
  PROVE  SnatInv'
<1>1. \A d \in SnatCpus : Holds(d)' = Holds(d) /\ Key(d)' = Key(d) /\ ncpu'[d].flow = ncpu[d].flow
  BY DEF SnatInv, SnatTypeOK, SnatInsertFwd, Goto, Holds, Key
<1>2. UNCHANGED <<nrev, orphans>>
  BY DEF SnatInsertFwd
<1>3. FreshKeys' = FreshKeys
  BY <1>1 DEF FreshKeys, Holds
<1>4. OwnsKey'
  BY <1>1, <1>2 DEF SnatInv, OwnsKey, KeyOf
<1>5. TornStays' /\ NoPortLeaks'
  BY <1>2, <1>3 DEF SnatInv, TornStays, NoPortLeaks, KeyOf
<1> QED BY <1>2, <1>4, <1>5 DEF SnatInv, RightPeer, RepliesComeBack

LEMMA UndoStep ==
  ASSUME SnatInv, SnatTypeOK', NEW c \in SnatCpus, SnatUndo(c)
  PROVE  SnatInv'
<1> DEFINE k == Key(c)
<1>1. k \in SnatKeys /\ Holds(c)
  BY KeyInKeys DEF SnatInv, SnatUndo, Holds
<1>2. /\ ~Holds(c)'
      /\ \A d \in SnatCpus \ {c} : ncpu'[d] = ncpu[d] /\ Holds(d)' = Holds(d) /\ Key(d)' = Key(d)
  BY DEF SnatInv, SnatTypeOK, SnatUndo, Finish, Asleep, Holds, Key
<1>3. UNCHANGED <<nfwd, torn, orphans>>
  BY DEF SnatUndo
<1>4. nrev'[k] = NoFlow /\ \A j \in SnatKeys \ {k} : nrev'[j] = nrev[j]
  BY <1>1 DEF SnatUndo, SnatInv, SnatTypeOK
<1>5. \A f \in SnatFlows : nfwd[f] # NoPort => KeyOf(f) \in SnatKeys /\ KeyOf(f)' = KeyOf(f)
  BY <1>3, FlowAssumption DEF SnatInv, SnatTypeOK, KeyOf, SnatKeys
<1>6. RightPeer'
  BY <1>4 DEF SnatInv, RightPeer
<1>7. RepliesComeBack'
  BY <1>1, <1>3, <1>4, <1>5 DEF SnatInv, RepliesComeBack, OwnsKey, KeyOf
<1>8. \A d \in SnatCpus \ {c} : Holds(d) => Key(d) # k /\ Key(d) \in SnatKeys
  BY <1>1, KeyInKeys DEF SnatInv, OwnsKey, Holds
<1>9. OwnsKey'
  <2> SUFFICES ASSUME NEW d \in SnatCpus, Holds(d)'
               PROVE  /\ nrev'[Key(d)'] = ncpu'[d].flow
                      /\ \A e \in SnatCpus : Holds(e)' /\ Key(e)' = Key(d)' => e = d
                      /\ \A f \in SnatFlows : nfwd'[f] # NoPort /\ f \notin torn' => KeyOf(f)' # Key(d)'
    BY DEF OwnsKey
  <2>1. d # c /\ Holds(d) /\ Key(d)' = Key(d) /\ ncpu'[d] = ncpu[d]
    BY <1>2
  <2> QED BY <2>1, <1>2, <1>3, <1>4, <1>5, <1>8 DEF SnatInv, OwnsKey
<1>10. \A j \in FreshKeys : j = k \/ j \in FreshKeys'
  BY <1>2 DEF FreshKeys, Holds
<1>11. TornStays'
  <2> SUFFICES ASSUME NEW f \in torn PROVE nfwd[f] # NoPort /\ (nrev'[KeyOf(f)] = f => KeyOf(f) \in FreshKeys')
    BY <1>3 DEF TornStays, KeyOf
  <2>1. f \in SnatFlows /\ nfwd[f] # NoPort /\ (nrev[KeyOf(f)] = f => KeyOf(f) \in FreshKeys)
    BY DEF SnatInv, SnatTypeOK, TornStays
  <2>2. CASE KeyOf(f) = k
    BY <2>1, <2>2, <1>4, FlowAssumption
  <2>3. CASE KeyOf(f) # k
    BY <2>1, <2>3, <1>4, <1>5, <1>10
  <2> QED BY <2>2, <2>3
<1>12. NoPortLeaks'
  <2> SUFFICES ASSUME NEW j \in SnatKeys, nrev'[j] # NoFlow
               PROVE  nfwd[nrev'[j]] = j[2] \/ j \in FreshKeys' \/ j \in orphans
    BY <1>3 DEF NoPortLeaks
  <2>1. j # k /\ nrev'[j] = nrev[j]
    BY <1>4
  <2> QED BY <2>1, <1>10 DEF SnatInv, NoPortLeaks
<1> QED BY <1>6, <1>7, <1>9, <1>11, <1>12 DEF SnatInv

LEMMA EvictRevStep ==
  ASSUME SnatInv, SnatTypeOK', NEW k \in SnatKeys, SnatEvictRev(k)
  PROVE  SnatInv'
<1>1. UNCHANGED <<ncpu, nfwd>> /\ nrev[k] \in SnatFlows /\ k \notin FreshKeys
  BY DEF SnatEvictRev, SnatInv, SnatTypeOK
<1>2. nrev'[k] = NoFlow /\ \A j \in SnatKeys \ {k} : nrev'[j] = nrev[j]
  BY DEF SnatEvictRev, SnatInv, SnatTypeOK
<1>3. /\ torn \subseteq torn'
      /\ \A f \in torn' : f \in torn \/ (f = nrev[k] /\ nfwd[f] = k[2])
      /\ nfwd[nrev[k]] = k[2] => nrev[k] \in torn'
      /\ \A j \in orphans : j = k \/ j \in orphans'
  BY DEF SnatEvictRev
<1>4. /\ FreshKeys' = FreshKeys
      /\ \A d \in SnatCpus : Holds(d)' = Holds(d) /\ Key(d)' = Key(d)
      /\ \A f \in SnatFlows : KeyOf(f)' = KeyOf(f)
  BY <1>1 DEF FreshKeys, Holds, Key, KeyOf
<1>5. \A f \in SnatFlows : nfwd[f] # NoPort => KeyOf(f) \in SnatKeys
  BY FlowAssumption DEF SnatInv, SnatTypeOK, KeyOf, SnatKeys
<1>6. RightPeer'
  BY <1>2 DEF SnatInv, RightPeer
<1>7. \A f \in SnatFlows : nfwd[f] # NoPort /\ f \notin torn' => KeyOf(f) # k
  BY <1>3 DEF SnatInv, RepliesComeBack, KeyOf
<1>8. RepliesComeBack'
  BY <1>1, <1>2, <1>3, <1>5, <1>7 DEF SnatInv, RepliesComeBack, KeyOf
<1>9. \A d \in SnatCpus : Holds(d) => Key(d) # k /\ Key(d) \in SnatKeys
  BY <1>1, KeyInKeys DEF SnatInv, FreshKeys, Holds
<1>10. OwnsKey'
  <2> SUFFICES ASSUME NEW d \in SnatCpus, Holds(d)'
               PROVE  /\ nrev'[Key(d)'] = ncpu'[d].flow
                      /\ \A e \in SnatCpus : Holds(e)' /\ Key(e)' = Key(d)' => e = d
                      /\ \A f \in SnatFlows : nfwd'[f] # NoPort /\ f \notin torn' => KeyOf(f)' # Key(d)'
    BY DEF OwnsKey
  <2> QED BY <1>1, <1>2, <1>3, <1>4, <1>9 DEF SnatInv, OwnsKey
<1>11. TornStays'
  <2> SUFFICES ASSUME NEW f \in torn' PROVE nfwd[f] # NoPort /\ (nrev'[KeyOf(f)] = f => KeyOf(f) \in FreshKeys)
    BY <1>1, <1>4 DEF TornStays, KeyOf
  <2>1. CASE f \in torn
    <3>1. f \in SnatFlows /\ nfwd[f] # NoPort /\ (nrev[KeyOf(f)] = f => KeyOf(f) \in FreshKeys)
      BY <2>1 DEF SnatInv, SnatTypeOK, TornStays
    <3> QED BY <3>1, <1>2, <1>5, FlowAssumption
  <2>2. CASE f = nrev[k] /\ nfwd[f] = k[2]
    <3>1. nfwd[f] \in SnatPorts /\ PeerOf[f] = k[1] /\ f \in SnatFlows
      BY <2>2, <1>1, FlowAssumption DEF SnatInv, RightPeer, SnatKeys
    <3>2. KeyOf(f) = k
      BY <3>1, <2>2 DEF KeyOf, SnatKeys
    <3> QED BY <3>1, <3>2, <1>2, FlowAssumption, PortAssumption DEF SnatPorts
  <2> QED BY <2>1, <2>2, <1>3
<1>12. NoPortLeaks'
  <2> SUFFICES ASSUME NEW j \in SnatKeys, nrev'[j] # NoFlow
               PROVE  nfwd[nrev'[j]] = j[2] \/ j \in FreshKeys \/ j \in orphans'
    BY <1>1, <1>4 DEF NoPortLeaks
  <2>1. j # k /\ nrev'[j] = nrev[j]
    BY <1>2
  <2> QED BY <2>1, <1>3 DEF SnatInv, NoPortLeaks
<1> QED BY <1>6, <1>8, <1>10, <1>11, <1>12 DEF SnatInv

LEMMA EvictFwdStep ==
  ASSUME SnatInv, SnatTypeOK', NEW f \in SnatFlows, SnatEvictFwd(f)
  PROVE  SnatInv'
<1>1. UNCHANGED <<ncpu, nrev>> /\ nfwd[f] # NoPort /\ torn' = torn \ {f}
  BY DEF SnatEvictFwd
<1>2. nfwd'[f] = NoPort /\ \A g \in SnatFlows \ {f} : nfwd'[g] = nfwd[g] /\ KeyOf(g)' = KeyOf(g)
  BY DEF SnatEvictFwd, SnatInv, SnatTypeOK, KeyOf
<1>3. orphans \subseteq orphans' /\ (f \notin torn => KeyOf(f) \in orphans')
  BY DEF SnatEvictFwd, KeyOf
<1>4. /\ FreshKeys' = FreshKeys
      /\ \A d \in SnatCpus : Holds(d)' = Holds(d) /\ Key(d)' = Key(d)
  BY <1>1 DEF FreshKeys, Holds, Key
<1>5. RightPeer' /\ RepliesComeBack'
  BY <1>1, <1>2 DEF SnatInv, RightPeer, RepliesComeBack
<1>6. OwnsKey'
  <2> SUFFICES ASSUME NEW d \in SnatCpus, Holds(d)'
               PROVE  /\ nrev'[Key(d)'] = ncpu'[d].flow
                      /\ \A e \in SnatCpus : Holds(e)' /\ Key(e)' = Key(d)' => e = d
                      /\ \A g \in SnatFlows : nfwd'[g] # NoPort /\ g \notin torn' => KeyOf(g)' # Key(d)'
    BY DEF OwnsKey
  <2> QED BY <1>1, <1>2, <1>4 DEF SnatInv, OwnsKey
<1>7. TornStays'
  <2> SUFFICES ASSUME NEW g \in torn' PROVE nfwd'[g] # NoPort /\ (nrev[KeyOf(g)'] = g => KeyOf(g)' \in FreshKeys)
    BY <1>1, <1>4 DEF TornStays
  <2>1. g \in torn /\ g # f /\ g \in SnatFlows
    BY <1>1 DEF SnatInv, SnatTypeOK
  <2> QED BY <2>1, <1>2 DEF SnatInv, TornStays
<1>8. NoPortLeaks'
  <2> SUFFICES ASSUME NEW j \in SnatKeys, nrev[j] # NoFlow
               PROVE  nfwd'[nrev[j]] = j[2] \/ j \in FreshKeys \/ j \in orphans'
    BY <1>1, <1>4 DEF NoPortLeaks
  <2>1. nrev[j] \in SnatFlows /\ (nfwd[nrev[j]] = j[2] \/ j \in FreshKeys \/ j \in orphans)
    BY DEF SnatInv, SnatTypeOK, NoPortLeaks
  <2>2. CASE nrev[j] # f
    BY <2>1, <2>2, <1>2, <1>3
  <2>3. CASE nrev[j] = f /\ nfwd[f] = j[2]
    <3>1. KeyOf(f) = j
      BY <2>3 DEF KeyOf, SnatInv, RightPeer, SnatKeys
    <3> QED BY <3>1, <2>3, <1>3 DEF SnatInv, TornStays
  <2> QED BY <2>1, <2>2, <2>3, <1>3
<1> QED BY <1>5, <1>6, <1>7, <1>8 DEF SnatInv

LEMMA SnatInvInit == ASSUME SnatInit PROVE SnatInv
<1>1. SnatTypeOK
  BY FlowAssumption DEF SnatInit, SnatTypeOK, Asleep
<1>2. RightPeer /\ RepliesComeBack /\ OwnsKey /\ TornStays /\ NoPortLeaks
  BY DEF SnatInit, Asleep, RightPeer, RepliesComeBack, OwnsKey, TornStays, NoPortLeaks, Holds
<1> QED BY <1>1, <1>2 DEF SnatInv

LEMMA SnatInvStep == ASSUME SnatInv, [SnatNext]_nvars PROVE SnatInv'
<1>0. SnatTypeOK'
  BY TypeOKStep DEF SnatInv
<1>1. ASSUME NEW c \in SnatCpus, NEW rnd \in SnatRandoms, NEW f \in SnatFlows, SnatPacket(c, f, rnd)
      PROVE  SnatInv'
  BY <1>0, <1>1, LookingForPort DEF SnatPacket, Holds, SnatInv, SnatTypeOK
<1>2. ASSUME NEW c \in SnatCpus, NEW rnd \in SnatRandoms, SnatProbe(c, rnd)
      PROVE  SnatInv'
  <2>1. ~Holds(c) /\ UNCHANGED <<nfwd, nrev, torn, orphans>>
    BY <1>2 DEF SnatProbe, Holds
  <2>2. ~Holds(c)' /\ \A d \in SnatCpus \ {c} : ncpu'[d] = ncpu[d]
    BY <1>2 DEF SnatProbe, Goto, Finish, Asleep, Holds, SnatInv, SnatTypeOK
  <2> QED BY <1>0, <2>1, <2>2, LookingForPort
<1>3. ASSUME NEW c \in SnatCpus, SnatInsertRev(c) PROVE SnatInv'
  <2>1. CASE Finish(c) /\ UNCHANGED nrev
    <3>1. ~Holds(c) /\ ~Holds(c)' /\ \A d \in SnatCpus \ {c} : ncpu'[d] = ncpu[d]
      BY <1>3, <2>1 DEF SnatInsertRev, Finish, Asleep, Holds, SnatInv, SnatTypeOK
    <3> QED BY <1>0, <1>3, <2>1, <3>1, LookingForPort DEF SnatInsertRev
  <2> QED BY <1>0, <1>3, <2>1, InsertRevStep DEF SnatInsertRev
<1>4. ASSUME NEW c \in SnatCpus, SnatInsertFwd(c) PROVE SnatInv'
  BY <1>0, <1>4, InsertFwdStep, RefusedStep DEF SnatInsertFwd
<1>5. CASE UNCHANGED nvars
  BY <1>5 DEF nvars, SnatInv, SnatTypeOK, RightPeer, RepliesComeBack, OwnsKey, TornStays, NoPortLeaks,
              Holds, Key, KeyOf, FreshKeys
<1> QED BY <1>0, <1>1, <1>2, <1>3, <1>4, <1>5, UndoStep, EvictRevStep, EvictFwdStep DEF SnatNext

(***************************************************************************)
(* For any number of CPUs, flows and ports, and whatever the LRU evicts:   *)
(* replies find the flow they belong to (snat_v4_new_mapping).             *)
(***************************************************************************)
THEOREM SnatRepliesComeBack == SnatSpec => []RepliesComeBack
<1>1. SnatInit => SnatInv
  BY SnatInvInit
<1>2. SnatInv /\ [SnatNext]_nvars => SnatInv'
  BY SnatInvStep
<1>3. SnatInv => RepliesComeBack
  BY DEF SnatInv
<1> QED BY <1>1, <1>2, <1>3, PTL DEF SnatSpec

(***************************************************************************)
(* Under the same conditions no reverse entry is left without an owner     *)
(* (__snat_update's map_delete_elem).                                      *)
(***************************************************************************)
THEOREM SnatNoPortLeaks == SnatSpec => []NoPortLeaks
<1>1. SnatInit => SnatInv
  BY SnatInvInit
<1>2. SnatInv /\ [SnatNext]_nvars => SnatInv'
  BY SnatInvStep
<1>3. SnatInv => NoPortLeaks
  BY DEF SnatInv
<1> QED BY <1>1, <1>2, <1>3, PTL DEF SnatSpec
=============================================================================
