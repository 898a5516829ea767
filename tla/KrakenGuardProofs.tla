--------------------------- MODULE KrakenGuardProofs ---------------------------
(***************************************************************************)
(* Proofs about KrakenGuard, for any number of calls, requests, crashes    *)
(* and restarts.                                                           *)
(***************************************************************************)
EXTENDS KrakenGuard, WellFoundedInduction, SequenceTheorems,
        TLAPS

-----------------------------------------------------------------------------
(* What saving the files of a request leaves in its input directory.       *)

\* A non-empty set of positions of a sequence has a last one.
LEMMA LastPosition ==
  ASSUME NEW n \in Nat, NEW W \in SUBSET (1..n), W # {}
  PROVE  \E i \in W : \A j \in W : j <= i
<1> DEFINE T == {n - i : i \in W}
           R == OpToRel(<, Nat)
<1>0. PICK w \in W : TRUE
  OBVIOUS
<1>1. T \subseteq Nat /\ T # {}
  <2>1. \A i \in W : n - i \in Nat
    OBVIOUS
  <2>2. n - w \in T
    BY <1>0
  <2> QED
    BY <2>1, <2>2
<1>2. PICK x \in T : \A y \in T : ~(<<y, x>> \in R)
  BY <1>1, NatLessThanWellFounded, WFMin
<1>3. \A y \in T : ~(y < x)
  BY <1>1, <1>2 DEF OpToRel
<1>4. PICK i \in W : x = n - i
  OBVIOUS
<1>5. \A j \in W : j <= i
  BY <1>3, <1>4
<1> QED
  BY <1>5

\* A request of the model: its files are a sequence of File records.
LEMMA RequestFacts ==
  ASSUME req \in [Calls -> Requests], NEW c \in Calls
  PROVE  /\ req[c] \in Request
         /\ req[c].files \in Seq(File)
         /\ Len(req[c].files) \in Nat
         /\ \A i \in 1..Len(req[c].files) : req[c].files[i] \in File
         /\ IdOf[c] \in Ids
<1>1. req[c] \in Request
  BY RequestAssumption
<1>2. req[c].files \in Seq(File)
  BY <1>1 DEF Request
<1> QED
  BY <1>1, <1>2, CallAssumption

\* Saving files only adds uploads of the request itself, each under the name
\* of one of its files.
LEMMA SavedFacts ==
  ASSUME req \in [Calls -> Requests], NEW c \in Calls,
         NEW k \in 0..Len(req[c].files), NEW n \in Names
  PROVE  \/ Saved(c, k)[n] = input[IdOf[c]][n]
         \/ \E i \in 1..Len(req[c].files) :
              /\ req[c].files[i].name = n
              /\ Saved(c, k)[n] = [by |-> c, key |-> req[c].files[i].key]
<1> DEFINE writes == {i \in 1..k : /\ req[c].files[i].name = n
                                   /\ req[c].files[i].data # "empty"}
           last == CHOOSE i \in writes : \A j \in writes : j <= i
<1>0. k \in Nat /\ Len(req[c].files) \in Nat /\ k <= Len(req[c].files)
  BY RequestFacts
<1>1. Saved(c, k)[n] = IF writes = {} THEN input[IdOf[c]][n]
                       ELSE [by |-> c, key |-> req[c].files[last].key]
  BY DEF Saved
<1>2. CASE writes = {}
  BY <1>1, <1>2
<1>3. CASE writes # {}
  <2>1. \E i \in writes : \A j \in writes : j <= i
    BY <1>0, <1>3, LastPosition
  <2>2. last \in writes
    BY <2>1
  <2>4. Saved(c, k)[n] = [by |-> c, key |-> req[c].files[last].key]
    BY <1>1, <1>3
  <2>5. \A i \in writes : i \in 1..Len(req[c].files) /\ req[c].files[i].name = n
    BY <1>0
  <2> HIDE DEF last, writes
  <2>3. last \in 1..Len(req[c].files) /\ req[c].files[last].name = n
    BY <2>2, <2>5
  <2> QED
    BY <2>3, <2>4
<1> QED
  BY <1>2, <1>3

\* The type of an input directory is preserved.
LEMMA SavedType ==
  ASSUME TypeOK, NEW c \in Calls, NEW k \in 0..Len(req[c].files)
  PROVE  Saved(c, k) \in [Names -> Content \cup {None}]
<1>1. req \in [Calls -> Requests] /\ IdOf[c] \in Ids
  BY RequestFacts DEF TypeOK
<1>2. ASSUME NEW n \in Names PROVE Saved(c, k)[n] \in Content \cup {None}
  <2>0. \/ Saved(c, k)[n] = input[IdOf[c]][n]
        \/ \E i \in 1..Len(req[c].files) :
             Saved(c, k)[n] = [by |-> c, key |-> req[c].files[i].key]
    BY <1>1, SavedFacts
  <2>1. CASE Saved(c, k)[n] = input[IdOf[c]][n]
    BY <1>1, <2>1 DEF TypeOK
  <2>2. CASE \E i \in 1..Len(req[c].files) :
               Saved(c, k)[n] = [by |-> c, key |-> req[c].files[i].key]
    BY <1>1, <2>2, RequestFacts DEF File, Content
  <2> QED
    BY <2>0, <2>1, <2>2
<1> QED
  BY <1>2 DEF Saved

-----------------------------------------------------------------------------
(* Type correctness.                                                       *)

\* The responses _handle_request builds.
LEMMA ReplyType ==
  ASSUME TypeOK, NEW c \in Calls,
         NEW status \in {"success", "verification_failed", "error"},
         NEW code \in {"", "RECEIVE_ERROR", "INVALID_REQUEST", "PROCESSING_ERROR"}
  PROVE  Reply(c, status, code) \in Response
<1>1. IdOf[c] \in Ids /\ rc \in {0, 1}
  BY RequestFacts DEF TypeOK
<1>2. req[c].retain \in BOOLEAN
  BY RequestFacts DEF TypeOK, Request
<1> QED
  BY <1>1, <1>2 DEF Reply, Response

\* The path of a key is the name of the file the request has for it.
LEMMA PathFacts ==
  ASSUME req \in [Calls -> Requests], NEW c \in Calls, NEW key \in KeysOf(c)
  PROVE  \E i \in 1..Len(req[c].files) :
           /\ req[c].files[i].key = key
           /\ req[c].files[i].name = PathOf(c, key)
           /\ PathOf(c, key) \in Names
<1> DEFINE i == CHOOSE j \in 1..Len(req[c].files) : req[c].files[j].key = key
<1>1. i \in 1..Len(req[c].files) /\ req[c].files[i].key = key
  BY DEF KeysOf
<1>2. PathOf(c, key) = req[c].files[i].name
  BY DEF PathOf
<1> HIDE DEF i
<1>3. req[c].files[i] \in File
  BY <1>1, RequestFacts
<1> QED
  BY <1>1, <1>2, <1>3 DEF File

\* What is at the path of an uploaded file is stored content or nothing.
LEMMA AtPathType ==
  ASSUME TypeOK, NEW c \in Calls, NEW key \in KeysOf(c)
  PROVE  AtPath(c, key) \in Content \cup {None}
<1>1. req \in [Calls -> Requests] /\ IdOf[c] \in Ids
  BY RequestFacts DEF TypeOK
<1>2. PathOf(c, key) \in Names
  BY <1>1, PathFacts
<1> QED
  BY <1>1, <1>2 DEF AtPath, TypeOK

(***************************************************************************)
(* The pipeline only runs for a request that has the files and options its *)
(* action needs; without this the paths it opens would not exist.          *)
(***************************************************************************)
PipelineInv ==
  pc \in {"lift", "klee", "parse"} =>
    Complete(cur) /\ req[cur].action # "health"

\* A complete request has the files whose paths the pipeline opens.
LEMMA NeededKeys ==
  ASSUME TypeOK, NEW c \in Calls, Complete(c), req[c].action # "health"
  PROVE  Objects(c) \cup {"constraints"} \subseteq KeysOf(c)
  BY DEF Complete, Objects, Keys

\* Where the client of a call can be.
ClientStates == {"idle", "refused", "sending", "waiting", "answered", "broken",
                 "gone"}

\* Types are preserved by every step.
LEMMA TypeStep == TypeOK /\ PipelineInv /\ [Next]_vars => TypeOK'
<1> SUFFICES ASSUME TypeOK, PipelineInv, [Next]_vars PROVE TypeOK'
  OBVIOUS
<1> USE NoneAssumption
<1> USE DEF clientVars, connVars, procVars, jobVars, diskVars, ghostVars, Goto,
            Live
<1>t. /\ client \in [Calls -> ClientStates] /\ sent \in [Calls -> Nat]
      /\ backlog \in Seq(Calls) /\ closed \in [Calls -> BOOLEAN]
  BY DEF TypeOK, ClientStates
<1>1. ASSUME NEW c \in Calls, Connect(c) PROVE TypeOK'
  <2>1. \/ client' = [client EXCEPT ![c] = "sending"]
        \/ client' = [client EXCEPT ![c] = "refused"]
    BY <1>1 DEF Connect
  <2>2. backlog' = Append(backlog, c) \/ backlog' = backlog
    BY <1>1 DEF Connect
  <2>3. client' \in [Calls -> ClientStates]
    BY <1>t, <2>1 DEF ClientStates
  <2>4. backlog' \in Seq(Calls)
    <3>1. Append(backlog, c) \in Seq(Calls)
      BY <1>t, AppendProperties
    <3> QED
      BY <1>t, <2>2, <3>1
  <2>5. UNCHANGED <<req, sent, connVars, pc, running, path, cut, faults, starts,
                    cur, got, diskVars, jobVars, ghostVars>>
    BY <1>1 DEF Connect
  <2> QED
    BY <2>3, <2>4, <2>5 DEF TypeOK, ClientStates
<1>2. ASSUME NEW c \in Calls, Send(c) PROVE TypeOK'
  <2>1. \/ client' = [client EXCEPT ![c] = "broken"]
        \/ client' = [client EXCEPT ![c] = "waiting"]
        \/ client' = client
    BY <1>2 DEF Send
  <2>2. sent' = [sent EXCEPT ![c] = sent[c] + 1] \/ sent' = sent
    BY <1>2 DEF Send
  <2>3. client' \in [Calls -> ClientStates]
    BY <1>t, <2>1 DEF ClientStates
  <2>4. sent' \in [Calls -> Nat]
    BY <1>t, <2>2
  <2>5. UNCHANGED <<req, connVars, pc, procVars, cur, got, diskVars, jobVars,
                    ghostVars>>
    BY <1>2 DEF Send
  <2> QED
    BY <2>3, <2>4, <2>5 DEF TypeOK, ClientStates
<1>3. ASSUME NEW c \in Calls, Receive(c) PROVE TypeOK'
  BY <1>3 DEF Receive, TypeOK
<1>4. ASSUME NEW c \in Calls, Abandon(c) PROVE TypeOK'
  BY <1>4 DEF Abandon, TypeOK
<1>5. CASE Start
  BY <1>5 DEF Start, TypeOK
<1>q. Queued \subseteq Calls
  BY DEF Queued, TypeOK
<1>6. CASE Signal
  <2>1. closed' \in [Calls -> BOOLEAN] /\ backlog' \in Seq(Calls)
    BY <1>6 DEF Signal, Break
  <2>2. cut' \subseteq Calls /\ faults' \in Nat
    BY <1>6, <1>q DEF Signal, Break, TypeOK
  <2>3. /\ running' = FALSE /\ path' = "stale"
        /\ UNCHANGED <<req, clientVars, inbox, pc, starts, cur, got, diskVars,
                       jobVars, ghostVars>>
    BY <1>6 DEF Signal
  <2> QED
    BY <2>1, <2>2, <2>3 DEF TypeOK
<1>7. CASE Stop
  BY <1>7 DEF Stop, TypeOK
<1>8. CASE Accept
  BY <1>8 DEF Accept, TypeOK
<1>c. cur # None => cur \in Calls /\ IdOf[cur] \in Ids
  BY CallAssumption DEF TypeOK
<1>9. CASE ReceiveUnit
  BY <1>9, <1>c DEF ReceiveUnit, TypeOK
<1>10. CASE ReceiveEOF
  BY <1>10 DEF ReceiveEOF, TypeOK
<1>11. CASE StoreRequest
  <2>1. PICK k \in 0..Len(req[cur].files) : StoreFiles(cur, k)
    BY <1>11 DEF StoreRequest
  <2>2. cur \in Calls /\ IdOf[cur] \in Ids
    BY <1>11, <1>c DEF StoreRequest, TypeOK
  <2>3. input' \in [Ids -> [Names -> Content \cup {None}]] /\ dirs' \subseteq Ids
    BY <2>1, <2>2, SavedType DEF StoreFiles, TypeOK
  <2> QED
    BY <1>11, <2>3 DEF StoreRequest, TypeOK
<1>12. CASE Handle
  <2>1. cur \in Calls
    BY <1>12 DEF Handle, TypeOK
  <2>2. resp' \in Response \cup {None}
    <3>1. /\ Reply(cur, "success", "") \in Response
          /\ Reply(cur, "error", "INVALID_REQUEST") \in Response
      BY <2>1, ReplyType
    <3> QED
      BY <1>12, <3>1 DEF Handle, TypeOK
  <2> QED
    BY <1>12, <2>2 DEF Handle, TypeOK
<1>p. ASSUME cur \in Calls
      PROVE  /\ Reply(cur, "success", "") \in Response
             /\ Reply(cur, "verification_failed", "") \in Response
             /\ Reply(cur, "error", "PROCESSING_ERROR") \in Response
  BY <1>p, ReplyType
<1>13. CASE Lift
  <2>1. cur \in Calls
    BY <1>13 DEF Lift, TypeOK
  <2>2. resp' \in Response \cup {None}
    BY <1>13, <1>p, <2>1 DEF Lift, PipelineError, TypeOK
  <2>3. \A k \in Objects(cur) : AtPath(cur, k) \in Content \cup {None}
    BY <1>13, <2>1, NeededKeys, AtPathType DEF Lift, PipelineInv
  <2>4. ir' \subseteq Content
    BY <1>13, <2>3 DEF Lift, TypeOK
  <2> QED
    BY <1>13, <2>2, <2>4 DEF Lift, PipelineError, TypeOK
<1>k. ASSUME NEW c \in Calls, NEW w \in KleeOutput, KleeWrites(c, w)
      PROVE  results' \in [Ids -> [ResultFiles -> Result \cup {None}]]
  <2>1. IdOf[c] \in Ids
    BY CallAssumption
  <2>2. \A f \in ResultFiles : w[f] \in Texts \cup {None}
    BY DEF KleeOutput
  <2>3. \A f \in ResultFiles :
          (IF w[f] = None THEN results[IdOf[c]][f] ELSE [by |-> c, text |-> w[f]])
            \in Result \cup {None}
    BY <2>1, <2>2 DEF TypeOK, Result
  <2> QED
    BY <1>k, <2>1, <2>3 DEF KleeWrites, TypeOK
<1>14. CASE RunKlee
  <2>1. cur \in Calls
    BY <1>14 DEF RunKlee, TypeOK
  <2>2. resp' \in Response \cup {None} /\ rc' \in {0, 1}
    BY <1>14, <1>p, <2>1 DEF RunKlee, PipelineError, TypeOK
  <2>3. results' \in [Ids -> [ResultFiles -> Result \cup {None}]]
    BY <1>14, <1>k, <2>1 DEF RunKlee, TypeOK
  <2>4. AtPath(cur, "constraints") \in Content \cup {None}
    BY <1>14, <2>1, NeededKeys, AtPathType DEF RunKlee, PipelineInv
  <2>5. ran' \in [Calls -> Run \cup {None}]
    <3>1. ASSUME NEW w \in KleeOutput, Record(cur, w)
          PROVE  ran' \in [Calls -> Run \cup {None}]
      <4>1. [ir |-> ir, constraints |-> AtPath(cur, "constraints"), wrote |-> w] \in Run
        BY <2>4 DEF TypeOK, Run
      <4> QED
        BY <2>1, <3>1, <4>1 DEF Record, TypeOK
    <3>2. CASE ran' = ran
      BY <3>2 DEF TypeOK
    <3> QED
      BY <1>14, <3>1, <3>2 DEF RunKlee
  <2> QED
    BY <1>14, <2>2, <2>3, <2>5 DEF RunKlee, PipelineError, TypeOK
<1>15. CASE Conclude
  <2>1. cur \in Calls
    BY <1>15 DEF Conclude, TypeOK
  <2>2. resp' \in Response \cup {None}
    BY <1>15, <1>p, <2>1 DEF Conclude, PipelineError, TypeOK
  <2>3. ShouldLoad(cur) => AtPath(cur, "object") \in Content \cup {None}
    BY <1>15, <2>1, NeededKeys, AtPathType DEF Conclude, PipelineInv, ShouldLoad,
       Objects
  <2>4. loads' \subseteq [by : Calls, object : Content \cup {None}]
    <3>1. CASE loads' = loads
      BY <3>1 DEF TypeOK
    <3>2. CASE /\ ShouldLoad(cur)
               /\ loads' = loads \cup {[by |-> cur, object |-> AtPath(cur, "object")]}
      BY <2>1, <2>3, <3>2 DEF TypeOK
    <3> QED
      BY <1>15, <3>1, <3>2 DEF Conclude
  <2> QED
    BY <1>15, <2>2, <2>4 DEF Conclude, PipelineError, TypeOK
<1>f. ASSUME NEW m \in Response \cup {None}, Finish(m), cur \in Calls PROVE TypeOK'
  BY <1>f DEF Finish, ResetJob, TypeOK
<1>16. CASE Respond
  BY <1>16, <1>f DEF Respond, TypeOK
<1>17. CASE RespondError
  <2>1. [id |-> reqId, status |-> "error", code |-> "RECEIVE_ERROR",
         returnCode |-> 0, retained |-> FALSE] \in Response
    BY DEF TypeOK, Response
  <2> QED
    BY <1>17, <1>f, <2>1 DEF RespondError, TypeOK
<1>18. CASE Crash
  <2>1. input' \in [Ids -> [Names -> Content \cup {None}]] /\ dirs' \subseteq Ids
    <3>1. CASE pc = "store"
      <4>1. PICK k \in 0..Len(req[cur].files) : StoreFiles(cur, k)
        BY <1>18, <3>1 DEF Crash
      <4>2. cur \in Calls /\ IdOf[cur] \in Ids
        BY <3>1, <1>c DEF TypeOK
      <4> QED
        BY <4>1, <4>2, SavedType DEF StoreFiles, TypeOK
    <3> QED
      BY <1>18, <3>1 DEF Crash, TypeOK
  <2>2. results' \in [Ids -> [ResultFiles -> Result \cup {None}]]
    BY <1>18, <1>k, <1>c DEF Crash, TypeOK
  <2> QED
    <3>1. closed' \in [Calls -> BOOLEAN] /\ backlog' \in Seq(Calls)
      BY <1>18 DEF Crash, Break
    <3>2. cut' \subseteq Calls
      BY <1>18, <1>q DEF Crash, Break, TypeOK
    <3>3. /\ pc' = "down" /\ running' = FALSE /\ path' = "stale"
          /\ ResetJob /\ UNCHANGED <<req, clientVars, inbox, starts, ghostVars>>
      BY <1>18 DEF Crash
    <3>4. faults' \in Nat
      BY <1>18 DEF Crash, TypeOK
    <3> QED
      BY <2>1, <2>2, <3>1, <3>2, <3>3, <3>4 DEF ResetJob, TypeOK
<1>19. CASE UNCHANGED vars
  BY <1>19 DEF vars, TypeOK
<1> QED
  BY <1>1, <1>2, <1>3, <1>4, <1>5, <1>6, <1>7, <1>8, <1>9, <1>10, <1>11, <1>12,
     <1>13, <1>14, <1>15, <1>16, <1>17, <1>18, <1>19 DEF Next, Serve

\* The pipeline's precondition is preserved by every step.
LEMMA PipelineStep == TypeOK /\ PipelineInv /\ [Next]_vars => PipelineInv'
<1> SUFFICES ASSUME TypeOK, PipelineInv, [Next]_vars PROVE PipelineInv'
  OBVIOUS
<1> USE DEF clientVars, connVars, procVars, jobVars, diskVars, ghostVars, Goto
<1>1. (req' = req /\ cur' = cur) =>
        /\ req'[cur'] = req[cur]
        /\ Complete(cur)' = Complete(cur)
  BY DEF Complete, KeysOf, Keys
<1>2. ASSUME req' = req, cur' = cur, pc' = pc PROVE PipelineInv'
  BY <1>1, <1>2 DEF PipelineInv
<1>3. ASSUME pc' \notin {"lift", "klee", "parse"} PROVE PipelineInv'
  BY <1>3 DEF PipelineInv
<1>4. ASSUME NEW c \in Calls, Connect(c) \/ Send(c) \/ Receive(c) \/ Abandon(c)
      PROVE  PipelineInv'
  BY <1>2, <1>4 DEF Connect, Send, Receive, Abandon
<1>5. CASE Start \/ Stop \/ Accept \/ Crash
  BY <1>3, <1>5 DEF Start, Stop, Accept, Crash
<1>6. CASE Signal
  BY <1>2, <1>6 DEF Signal
<1>7. CASE ReceiveUnit \/ ReceiveEOF \/ StoreRequest
  BY <1>3, <1>7 DEF ReceiveUnit, ReceiveEOF, StoreRequest
<1>8. CASE Handle
  BY <1>1, <1>8 DEF Handle, PipelineInv
<1>9. CASE Lift
  BY <1>1, <1>9 DEF Lift, PipelineError, PipelineInv
<1>10. CASE RunKlee
  BY <1>1, <1>10 DEF RunKlee, PipelineError, PipelineInv
<1>11. CASE Conclude \/ Respond \/ RespondError
  BY <1>3, <1>11 DEF Conclude, PipelineError, Respond, RespondError, Finish
<1>12. CASE UNCHANGED vars
  BY <1>2, <1>12 DEF vars
<1> QED
  BY <1>4, <1>5, <1>6, <1>7, <1>8, <1>9, <1>10, <1>11, <1>12 DEF Next, Serve

\* Types, and the precondition of the pipeline, always hold.
LEMMA TypedPipeline == Spec => [](TypeOK /\ PipelineInv)
<1>1. Init => TypeOK /\ PipelineInv
  <2> SUFFICES ASSUME Init PROVE TypeOK /\ PipelineInv
    OBVIOUS
  <2>1. /\ input \in [Ids -> [Names -> Content \cup {None}]]
        /\ results \in [Ids -> [ResultFiles -> Result \cup {None}]]
    BY DEF Init
  <2>2. /\ inbox \in [Calls -> Response \cup {None}]
        /\ ran \in [Calls -> Run \cup {None}]
    BY DEF Init
  <2>3. backlog \in Seq(Calls) /\ closed \in [Calls -> BOOLEAN]
    BY DEF Init
  <2> QED
    BY <2>1, <2>2, <2>3 DEF Init, TypeOK, PipelineInv
<1>2. TypeOK /\ PipelineInv /\ [Next]_vars => (TypeOK /\ PipelineInv)'
  BY TypeStep, PipelineStep
<1> QED
  BY <1>1, <1>2, PTL DEF Spec

\* Every variable of the daemon and its clients keeps its type, and the locals
\* of _handle_client are set exactly while a connection is served.
THEOREM TypeCorrect == Spec => []TypeOK
  BY TypedPipeline, PTL

-----------------------------------------------------------------------------
(***************************************************************************)
(* The verdict.  Request ids are unique, so the directory of a call is     *)
(* only ever written on behalf of that call, and a connection is served at *)
(* most once: until it is, the directory is empty.                         *)
(***************************************************************************)

\* Connections in the accept queue are waiting for the first time: each is
\* there once, open, and not being served.
ConnInv ==
  /\ \A i \in 1..Len(backlog) :
       /\ client[backlog[i]] \notin {"idle", "refused"}
       /\ ~closed[backlog[i]]
       /\ backlog[i] # cur
  /\ \A i, j \in 1..Len(backlog) : backlog[i] = backlog[j] => i = j
  /\ \A c \in Calls :
       /\ closed[c] \/ c = cur => client[c] \notin {"idle", "refused"}
       /\ closed[c] => c # cur
       /\ inbox[c] # None => closed[c]

NoInput(c)   == \A n \in Names : input[IdOf[c]][n] = None
NoResults(c) == \A f \in ResultFiles : results[IdOf[c]][f] = None

\* Nothing was stored for a call before its own request was stored.
FreshInv ==
  \A c \in Calls :
    ~closed[c] /\ (c = cur => pc \in {"receive", "store"})
      => NoInput(c) /\ NoResults(c)

\* Whatever is in c's input directory is an upload of c.
Owned(c) ==
  \A n \in Names :
    \/ input[IdOf[c]][n] = None
    \/ \E i \in 1..Len(req[c].files) :
         /\ req[c].files[i].name = n
         /\ input[IdOf[c]][n] = Upload(c, req[c].files[i].key)

\* S is what the lifter found at the paths of c's object files.
Lifted(c, S) ==
  /\ S = {AtPath(c, k) : k \in Objects(c)}
  /\ \A k \in Objects(c) : AtPath(c, k) # None

\* KLEE ran for c and the result files hold what it wrote.
Examined(c) ==
  /\ ran[c] # None
  /\ Lifted(c, ran[c].ir)
  /\ ran[c].constraints = AtPath(c, "constraints")
  /\ \A f \in ResultFiles :
       results[IdOf[c]][f] = IF ran[c].wrote[f] = None THEN None
                             ELSE [by |-> c, text |-> ran[c].wrote[f]]

\* A success response for c is justified.
Justified(c, m) ==
  m # None /\ m.status = "success" /\ req[c].action # "health" /\ DistinctNames(c)
    => OwnProof(c)

\* What each stage of the request being served relies on.
JobInv ==
  \A c \in Calls : c = cur =>
    /\ pc \in {"handle", "lift", "klee", "parse"} => Owned(c)
    /\ pc \in {"handle", "lift", "klee"} => NoResults(c)
    /\ pc = "klee" => Lifted(c, ir)
    /\ pc = "parse" => Examined(c)
    /\ pc = "respond" => Justified(c, resp)

\* A load is on record only once its call is concluded.
LoadInv ==
  \A l \in loads : closed[l.by] \/ (l.by = cur /\ pc = "respond")

VerdictInv ==
  ConnInv /\ FreshInv /\ JobInv /\ LoadInv /\ OwnVerdict /\ LoadsWhatWasVerified

\* With distinct base names, the path of a key leads to the upload of that key.
LEMMA OwnedPath ==
  ASSUME TypeOK, NEW c \in Calls, Owned(c), DistinctNames(c), NEW key \in KeysOf(c)
  PROVE  AtPath(c, key) \in {None, Upload(c, key)}
<1>1. req \in [Calls -> Requests]
  BY DEF TypeOK
<1>2. PICK i \in 1..Len(req[c].files) :
        /\ req[c].files[i].key = key
        /\ req[c].files[i].name = PathOf(c, key)
        /\ PathOf(c, key) \in Names
  BY <1>1, PathFacts
<1>3. CASE AtPath(c, key) = None
  BY <1>3
<1>4. CASE AtPath(c, key) # None
  <2>1. PICK j \in 1..Len(req[c].files) :
          /\ req[c].files[j].name = PathOf(c, key)
          /\ AtPath(c, key) = Upload(c, req[c].files[j].key)
    BY <1>2, <1>4 DEF Owned, AtPath
  <2>2. i = j
    BY <1>2, <2>1 DEF DistinctNames
  <2> QED
    BY <1>2, <2>1, <2>2
<1> QED
  BY <1>3, <1>4

\* An examination whose result files pass is a proof of c's own programs.
LEMMA PassedIsProof ==
  ASSUME TypeOK, NEW c \in Calls, Owned(c), Examined(c), Passed(c),
         DistinctNames(c), Complete(c), req[c].action # "health"
  PROVE  /\ OwnProof(c)
         /\ req[c].action = "load" => AtPath(c, "object") = Upload(c, "object")
<1>1. Objects(c) \cup {"constraints"} \subseteq KeysOf(c)
  BY NeededKeys
<1>2. \A k \in Objects(c) : AtPath(c, k) = Upload(c, k)
  <2> SUFFICES ASSUME NEW k \in Objects(c) PROVE AtPath(c, k) = Upload(c, k)
    OBVIOUS
  <2>1. AtPath(c, k) \in {None, Upload(c, k)}
    BY <1>1, OwnedPath
  <2>2. AtPath(c, k) # None
    BY DEF Examined, Lifted
  <2> QED
    BY <2>1, <2>2
<1>3. ran[c].ir = {Upload(c, k) : k \in Objects(c)}
  BY <1>2 DEF Examined, Lifted
<1>4. ran[c].constraints \in {Upload(c, "constraints"), None}
  BY <1>1, OwnedPath DEF Examined
<1>5. \A f \in ResultFiles : ran[c].wrote[f] = "valid"
  <2> SUFFICES ASSUME NEW f \in ResultFiles PROVE ran[c].wrote[f] = "valid"
    OBVIOUS
  <2>1. results[IdOf[c]][f] # None /\ results[IdOf[c]][f].text = "valid"
    BY DEF Passed
  <2>2. results[IdOf[c]][f] = IF ran[c].wrote[f] = None THEN None
                              ELSE [by |-> c, text |-> ran[c].wrote[f]]
    BY DEF Examined
  <2> QED
    BY <2>1, <2>2
<1>6. req[c].action = "load" => "object" \in Objects(c)
  BY DEF Objects
<1> QED
  BY <1>2, <1>3, <1>4, <1>5, <1>6 DEF OwnProof, Examined

\* What is said about c only depends on c's request, directory and KLEE run.
LEMMA StableFacts ==
  ASSUME NEW c \in Calls, req' = req
  PROVE  /\ DistinctNames(c)' <=> DistinctNames(c)
         /\ Objects(c)' = Objects(c)
         /\ ran'[c] = ran[c] => (OwnProof(c)' <=> OwnProof(c))
         /\ input'[IdOf[c]] = input[IdOf[c]] =>
              /\ Owned(c)' <=> Owned(c)
              /\ NoInput(c)' <=> NoInput(c)
              /\ \A k : AtPath(c, k)' = AtPath(c, k)
         /\ results'[IdOf[c]] = results[IdOf[c]] => (NoResults(c)' <=> NoResults(c))
<1>1. DistinctNames(c)' <=> DistinctNames(c)
  BY DEF DistinctNames
<1>2. Objects(c)' = Objects(c)
  BY DEF Objects
<1>3. ASSUME ran'[c] = ran[c] PROVE OwnProof(c)' <=> OwnProof(c)
  BY <1>2, <1>3 DEF OwnProof
<1>4. ASSUME input'[IdOf[c]] = input[IdOf[c]] PROVE Owned(c)' <=> Owned(c)
  BY <1>4 DEF Owned
<1>5. ASSUME input'[IdOf[c]] = input[IdOf[c]] PROVE NoInput(c)' <=> NoInput(c)
  BY <1>5 DEF NoInput
<1>6. ASSUME input'[IdOf[c]] = input[IdOf[c]], NEW k
      PROVE  AtPath(c, k)' = AtPath(c, k)
  <2>1. PathOf(c, k)' = PathOf(c, k)
    BY DEF PathOf
  <2> QED
    BY <1>6, <2>1 DEF AtPath
<1>7. ASSUME results'[IdOf[c]] = results[IdOf[c]] PROVE NoResults(c)' <=> NoResults(c)
  BY <1>7 DEF NoResults
<1> QED
  BY <1>1, <1>2, <1>3, <1>4, <1>5, <1>6, <1>7

\* No step changes a request.
LEMMA ReqFixed == [Next]_vars => req' = req
<1> SUFFICES ASSUME [Next]_vars PROVE req' = req
  OBVIOUS
<1> USE DEF Goto
<1>1. ASSUME NEW c \in Calls, Connect(c) \/ Send(c) \/ Receive(c) \/ Abandon(c)
      PROVE  req' = req
  BY <1>1, Zenon DEF Connect, Send, Receive, Abandon
<1>2. CASE Start \/ Signal \/ Crash \/ Stop \/ Accept
  BY <1>2, Zenon DEF Start, Signal, Crash, Stop, Accept
<1>3. CASE ReceiveUnit \/ ReceiveEOF \/ StoreRequest \/ Handle \/ Lift
  BY <1>3, Zenon DEF ReceiveUnit, ReceiveEOF, StoreRequest, Handle, Lift,
     PipelineError
<1>4. CASE RunKlee \/ Conclude \/ Respond \/ RespondError
  BY <1>4, Zenon DEF RunKlee, Conclude, PipelineError, Respond, RespondError, Finish
<1>5. CASE UNCHANGED vars
  BY <1>5 DEF vars
<1> QED
  BY <1>1, <1>2, <1>3, <1>4, <1>5 DEF Next, Serve

\* Between Accept and the response the connections are left alone.
LEMMA InnerFrame ==
  ASSUME ReceiveUnit \/ ReceiveEOF \/ StoreRequest \/ Handle \/ Lift \/ RunKlee
           \/ Conclude
  PROVE  UNCHANGED <<client, backlog, closed, inbox, cur>>
<1> USE DEF Goto, clientVars, connVars, procVars
<1>1. CASE ReceiveUnit \/ ReceiveEOF \/ StoreRequest \/ Handle
  BY <1>1 DEF ReceiveUnit, ReceiveEOF, StoreRequest, Handle
<1>2. CASE Lift \/ RunKlee \/ Conclude
  BY <1>2 DEF Lift, RunKlee, Conclude, PipelineError
<1> QED
  BY <1>1, <1>2

\* The client of a call whose connection exists does not go back to idle.
LEMMA ConnStep ==
  ASSUME TypeOK, TypeOK', ConnInv, [Next]_vars
  PROVE  ConnInv'
<1> USE DEF clientVars, connVars, procVars, Goto, Live
<1>t. /\ backlog \in Seq(Calls) /\ Len(backlog) \in Nat
      /\ \A i \in 1..Len(backlog) : backlog[i] \in Calls
      /\ client \in [Calls -> ClientStates] /\ closed \in [Calls -> BOOLEAN]
      /\ inbox \in [Calls -> Response \cup {None}]
      /\ cur \in Calls \cup {None}
  BY DEF TypeOK, ClientStates
<1>1. ASSUME UNCHANGED <<backlog, closed, inbox, cur>>,
             \A c \in Calls : \/ client'[c] = client[c]
                             \/ client'[c] \notin {"idle", "refused"}
      PROVE  ConnInv'
  BY <1>t, <1>1 DEF ConnInv
<1>2. ASSUME NEW c \in Calls, Connect(c) PROVE ConnInv'
  <2>0. /\ client[c] = "idle" /\ ~closed[c] /\ c # cur
        /\ \A i \in 1..Len(backlog) : backlog[i] # c
        /\ UNCHANGED <<closed, inbox, cur>>
    BY <1>2 DEF Connect, ConnInv
  <2>1. CASE backlog' = Append(backlog, c) /\ client' = [client EXCEPT ![c] = "sending"]
    <3>1. /\ Len(backlog') = Len(backlog) + 1
          /\ \A i \in 1..Len(backlog) : backlog'[i] = backlog[i]
          /\ backlog'[Len(backlog) + 1] = c
      BY <1>t, <2>1, AppendProperties
    <3>2. \A d \in Calls : client'[d] = IF d = c THEN "sending" ELSE client[d]
      BY <1>t, <2>1
    <3>3. \A i \in 1..Len(backlog') : i \in 1..Len(backlog) \/ i = Len(backlog) + 1
      BY <1>t, <3>1
    <3>4. \A i, j \in 1..Len(backlog') : backlog'[i] = backlog'[j] => i = j
      BY <2>0, <3>1, <3>3 DEF ConnInv
    <3>5. \A i \in 1..Len(backlog') :
            /\ client'[backlog'[i]] \notin {"idle", "refused"}
            /\ ~closed[backlog'[i]]
            /\ backlog'[i] # cur
      BY <1>t, <2>0, <3>1, <3>2, <3>3 DEF ConnInv
    <3>6. \A d \in Calls :
            /\ closed[d] \/ d = cur => client'[d] \notin {"idle", "refused"}
            /\ closed[d] => d # cur
            /\ inbox[d] # None => closed[d]
      BY <2>0, <3>2 DEF ConnInv
    <3> QED
      BY <2>0, <3>4, <3>5, <3>6 DEF ConnInv
  <2>2. CASE backlog' = backlog /\ client' = [client EXCEPT ![c] = "refused"]
    <3>1. \A d \in Calls : client'[d] = IF d = c THEN "refused" ELSE client[d]
      BY <1>t, <2>2
    <3> QED
      BY <1>t, <2>0, <2>2, <3>1 DEF ConnInv
  <2> QED
    BY <1>2, <2>1, <2>2 DEF Connect
<1>3. ASSUME NEW c \in Calls, Send(c) \/ Receive(c) \/ Abandon(c) PROVE ConnInv'
  <2>1. UNCHANGED <<backlog, closed, inbox, cur>>
    BY <1>3 DEF Send, Receive, Abandon
  <2>2. \/ client' = client
        \/ \E x \in {"broken", "waiting", "answered", "gone"} :
             client' = [client EXCEPT ![c] = x]
    BY <1>3 DEF Send, Receive, Abandon
  <2>3. \A d \in Calls : \/ client'[d] = client[d]
                        \/ client'[d] \notin {"idle", "refused"}
    BY <1>t, <2>2
  <2> QED
    BY <1>1, <2>1, <2>3
<1>4. CASE Start \/ Stop
  BY <1>1, <1>4 DEF Start, Stop
<1>5. ASSUME NEW S, Break(S), client' = client, inbox' = inbox,
             \A c \in Calls : c \in S => client[c] \notin {"idle", "refused"},
             cur' = None \/ (cur' = cur /\ cur \notin S)
      PROVE  ConnInv'
  <2>1. \A c \in Calls : closed'[c] <=> closed[c] \/ c \in S
    BY <1>5 DEF Break
  <2>2. backlog' = <<>>
    BY <1>5 DEF Break
  <2>3. \A c \in Calls : cur' = c => cur = c /\ c \notin S
    BY <1>5, NoneAssumption
  <2> QED
    BY <1>5, <2>1, <2>2, <2>3 DEF ConnInv
<1>q. /\ \A c \in Queued : c \in Calls /\ client[c] \notin {"idle", "refused"} /\ c # cur
      /\ cur \in Calls => client[cur] \notin {"idle", "refused"}
  BY <1>t DEF Queued, ConnInv
<1>6. CASE Signal
  <2>1. Break(Queued) /\ UNCHANGED <<client, inbox, cur>>
    BY <1>6 DEF Signal
  <2> QED
    BY <1>5, <1>q, <2>1
<1>7. CASE Crash
  <2>1. Break(Queued \cup ({cur} \ {None})) /\ UNCHANGED <<client, inbox>> /\ cur' = None
    BY <1>7 DEF Crash, ResetJob
  <2>2. \A c \in Queued \cup ({cur} \ {None}) : client[c] \notin {"idle", "refused"}
    BY <1>t, <1>q
  <2> QED
    BY <1>5, <2>1, <2>2
<1>8. CASE Accept
  <2>1. /\ cur = None /\ backlog # <<>> /\ cur' = Head(backlog)
        /\ backlog' = Tail(backlog) /\ UNCHANGED <<client, closed, inbox>>
    BY <1>8 DEF Accept, TypeOK
  <2>2. Len(backlog) \in Nat \ {0}
    BY <1>t, <2>1, EmptySeq
  <2>3. /\ cur' = backlog[1] /\ Len(backlog') = Len(backlog) - 1
        /\ \A i \in 1..Len(backlog') : /\ backlog'[i] = backlog[i + 1]
                                       /\ i + 1 \in 1..Len(backlog)
    BY <1>t, <2>1, <2>2
  <2>4. 1 \in 1..Len(backlog)
    BY <2>2
  <2>5. \A i \in 1..Len(backlog') :
          /\ client'[backlog'[i]] \notin {"idle", "refused"}
          /\ ~closed'[backlog'[i]]
          /\ backlog'[i] # cur'
    BY <2>1, <2>3, <2>4 DEF ConnInv
  <2>6. \A i, j \in 1..Len(backlog') : backlog'[i] = backlog'[j] => i = j
    <3> SUFFICES ASSUME NEW i \in 1..Len(backlog'), NEW j \in 1..Len(backlog'),
                        backlog'[i] = backlog'[j]
                 PROVE  i = j
      OBVIOUS
    <3>1. /\ i + 1 \in 1..Len(backlog) /\ j + 1 \in 1..Len(backlog)
          /\ backlog[i + 1] = backlog[j + 1]
      BY <2>3
    <3>2. \A m, n \in 1..Len(backlog) : backlog[m] = backlog[n] => m = n
      BY DEF ConnInv
    <3>3. i + 1 = j + 1
      BY <3>1, <3>2
    <3>4. Len(backlog') \in Nat
      BY <2>2, <2>3
    <3> QED
      BY <3>3, <3>4
  <2>7. \A c \in Calls :
          /\ closed'[c] \/ c = cur' => client'[c] \notin {"idle", "refused"}
          /\ closed'[c] => c # cur'
          /\ inbox'[c] # None => closed'[c]
    BY <2>1, <2>3, <2>4 DEF ConnInv
  <2> QED
    BY <2>5, <2>6, <2>7 DEF ConnInv
<1>9. CASE ReceiveUnit \/ ReceiveEOF \/ StoreRequest \/ Handle \/ Lift \/ RunKlee
             \/ Conclude
  BY <1>1, <1>9, InnerFrame
<1>10. ASSUME NEW m, Finish(m), cur \in Calls PROVE ConnInv'
  <2>1. /\ cur' = None /\ UNCHANGED <<client, backlog>>
        /\ \A c \in Calls : closed'[c] <=> closed[c] \/ c = cur
        /\ \A c \in Calls : inbox'[c] # None => inbox[c] # None \/ c = cur
    BY <1>t, <1>10 DEF Finish, ResetJob
  <2> QED
    BY <1>t, <1>10, <2>1, NoneAssumption DEF ConnInv
<1>11. CASE Respond \/ RespondError
  BY <1>10, <1>11 DEF Respond, RespondError, TypeOK
<1>12. CASE UNCHANGED vars
  BY <1>1, <1>12 DEF vars
<1> QED
  BY <1>2, <1>3, <1>4, <1>6, <1>7, <1>8, <1>9, <1>11, <1>12 DEF Next, Serve
\* The steps that touch neither the directories nor the KLEE records.
LEMMA DiskFrame ==
  ASSUME [Next]_vars, ~StoreRequest, ~RunKlee, ~Crash
  PROVE  UNCHANGED <<input, results, ran>>
<1> USE DEF diskVars, ghostVars
<1>1. ASSUME NEW c \in Calls, Connect(c) \/ Send(c) \/ Receive(c) \/ Abandon(c)
      PROVE  UNCHANGED <<input, results, ran>>
  BY <1>1 DEF Connect, Send, Receive, Abandon
<1>2. CASE Start \/ Signal \/ Stop \/ Accept
  BY <1>2 DEF Start, Signal, Stop, Accept
<1>3. CASE ReceiveUnit \/ ReceiveEOF \/ Handle \/ Lift \/ Conclude
  BY <1>3 DEF ReceiveUnit, ReceiveEOF, Handle, Lift, Conclude
<1>4. CASE Respond \/ RespondError
  BY <1>4 DEF Respond, RespondError, Finish
<1>5. CASE UNCHANGED vars
  BY <1>5 DEF vars
<1> QED
  BY <1>1, <1>2, <1>3, <1>4, <1>5 DEF Next, Serve

\* The directory and the KLEE record of a call only change while the call is
\* served, in the two stages that write them.
LEMMA DiskStep ==
  ASSUME UniqueIds, TypeOK, [Next]_vars, NEW c \in Calls
  PROVE  /\ \/ input'[IdOf[c]] = input[IdOf[c]]
            \/ c = cur /\ pc = "store" /\ pc' # "store"
         /\ \/ results'[IdOf[c]] = results[IdOf[c]]
            \/ c = cur /\ pc = "klee" /\ pc' # "klee"
         /\ ran'[c] = ran[c] \/ (c = cur /\ pc = "klee" /\ pc' # "klee")
<1>t. /\ input \in [Ids -> [Names -> Content \cup {None}]]
      /\ results \in [Ids -> [ResultFiles -> Result \cup {None}]]
      /\ ran \in [Calls -> Run \cup {None}]
      /\ IdOf \in [Calls -> Ids]
      /\ pc \notin {"down", "accept"} => cur \in Calls
  BY CallAssumption DEF TypeOK
<1>s. ASSUME NEW k, StoreFiles(cur, k), cur \in Calls, c # cur
      PROVE  input'[IdOf[c]] = input[IdOf[c]]
  BY <1>t, <1>s DEF StoreFiles, UniqueIds
<1>k. ASSUME NEW w, KleeWrites(cur, w), cur \in Calls, c # cur
      PROVE  results'[IdOf[c]] = results[IdOf[c]]
  BY <1>t, <1>k DEF KleeWrites, UniqueIds
<1>r. ASSUME NEW w, Record(cur, w), cur \in Calls, c # cur
      PROVE  ran'[c] = ran[c]
  BY <1>t, <1>r DEF Record
<1>1. CASE StoreRequest
  <2>1. /\ UNCHANGED <<results, ran>> /\ pc = "store"
        /\ pc' = "handle" \/ pc' = "error"
    BY <1>1 DEF StoreRequest, ghostVars, Goto
  <2>2. PICK k : StoreFiles(cur, k)
    BY <1>1 DEF StoreRequest
  <2> QED
    BY <1>t, <1>s, <2>1, <2>2
<1>2. CASE RunKlee
  <2>1. /\ UNCHANGED input /\ pc = "klee"
        /\ pc' = "parse" \/ pc' = "respond"
    BY <1>2 DEF RunKlee, PipelineError, Goto
  <2>2. \/ UNCHANGED <<results, ran>>
        \/ \E w \in KleeOutput : KleeWrites(cur, w) /\ Record(cur, w)
    BY <1>2, Zenon DEF RunKlee
  <2> QED
    BY <1>t, <1>k, <1>r, <2>1, <2>2
<1>3. CASE Crash
  <2>1. UNCHANGED ran /\ pc' = "down"
    BY <1>3 DEF Crash, ghostVars
  <2>2. \/ input' = input
        \/ pc = "store" /\ \E k \in 0..Len(req[cur].files) : StoreFiles(cur, k)
    BY <1>3, Zenon DEF Crash
  <2>3. \/ results' = results
        \/ pc = "klee" /\ \E w \in KleeOutput : KleeWrites(cur, w)
    BY <1>3, Zenon DEF Crash
  <2> QED
    BY <1>t, <1>s, <1>k, <2>1, <2>2, <2>3
<1>4. CASE ~StoreRequest /\ ~RunKlee /\ ~Crash
  BY <1>4, DiskFrame
<1> QED
  BY <1>1, <1>2, <1>3, <1>4

\* How the call being served changes: a connection is released by closing it,
\* taken from the queue, and otherwise its request moves through the stages.
LEMMA PhaseStep ==
  ASSUME TypeOK, TypeOK', ConnInv, [Next]_vars, NEW c \in Calls
  PROVE  /\ closed[c] => closed'[c]
         /\ c = cur /\ ~closed'[c] => cur' = c
         /\ c = cur' /\ c # cur => ~closed[c] /\ pc' = "receive"
         /\ c = cur /\ c = cur' /\ pc' \in {"receive", "store"}
              => pc' = pc \/ pc = "receive"
         /\ c = cur /\ c = cur' /\ pc = "respond" => pc' = "respond"
<1> USE DEF clientVars, connVars, procVars, Goto
<1>t. closed \in [Calls -> BOOLEAN] /\ cur \in Calls \cup {None}
  BY DEF TypeOK
<1>1. ASSUME UNCHANGED <<closed, cur, pc>>
      PROVE  /\ closed[c] => closed'[c]
             /\ c = cur /\ ~closed'[c] => cur' = c
             /\ c = cur' => c = cur
             /\ pc' = pc
  BY <1>1
<1>2. ASSUME NEW d \in Calls, Connect(d) \/ Send(d) \/ Receive(d) \/ Abandon(d)
      PROVE  UNCHANGED <<closed, cur, pc>>
  BY <1>2 DEF Connect, Send, Receive, Abandon
<1>3. CASE Start \/ Stop
  <2>1. UNCHANGED <<closed, cur>> /\ pc \in {"down", "accept"}
    BY <1>3 DEF Start, Stop
  <2>2. c # cur
    BY <2>1, NoneAssumption DEF TypeOK
  <2> QED
    BY <2>1, <2>2
<1>4. CASE Signal
  BY <1>4 DEF Signal, Break
<1>5. CASE Crash
  <2>1. cur' = None
    BY <1>5 DEF Crash, ResetJob
  <2>2. closed'[c] <=> closed[c] \/ c \in Queued \cup ({cur} \ {None})
    BY <1>5 DEF Crash, Break
  <2> QED
    BY <2>1, <2>2, NoneAssumption
<1>6. CASE Accept
  <2>1. /\ cur = None /\ UNCHANGED closed /\ pc' = "receive"
        /\ backlog # <<>> /\ cur' = Head(backlog)
    BY <1>6 DEF Accept, TypeOK
  <2>2. backlog \in Seq(Calls)
    BY DEF TypeOK
  <2>3. 1 \in 1..Len(backlog) /\ cur' = backlog[1]
    BY <2>1, <2>2, EmptySeq
  <2> QED
    BY <2>1, <2>3, NoneAssumption DEF ConnInv
<1>7. CASE ReceiveUnit \/ ReceiveEOF \/ StoreRequest \/ Handle \/ Lift \/ RunKlee
             \/ Conclude
  <2>1. UNCHANGED <<closed, cur>>
    BY <1>7, InnerFrame
  <2>2. pc # "respond" /\ (pc' \in {"receive", "store"} => pc = "receive")
    BY <1>7 DEF ReceiveUnit, ReceiveEOF, StoreRequest, Handle, Lift, RunKlee,
       Conclude, PipelineError
  <2> QED
    BY <2>1, <2>2
<1>8. CASE Respond \/ RespondError
  <2>1. /\ cur' = None /\ closed' = [closed EXCEPT ![cur] = TRUE]
        /\ cur \in Calls
    BY <1>8 DEF Respond, RespondError, Finish, ResetJob, TypeOK
  <2> QED
    BY <1>t, <2>1, NoneAssumption
<1>9. CASE UNCHANGED vars
  BY <1>1, <1>9 DEF vars
<1> QED
  BY <1>1, <1>2, <1>3, <1>4, <1>5, <1>6, <1>7, <1>8, <1>9 DEF Next, Serve

\* Nothing is stored for a call before its request is.
LEMMA FreshStep ==
  ASSUME UniqueIds, TypeOK, TypeOK', ConnInv, FreshInv, [Next]_vars
  PROVE  FreshInv'
<1> SUFFICES ASSUME NEW c \in Calls, ~closed'[c],
                    c = cur' => pc' \in {"receive", "store"}
             PROVE  NoInput(c)' /\ NoResults(c)'
  BY DEF FreshInv
<1>1. ~closed[c]
  BY PhaseStep
<1>2. c = cur => pc \in {"receive", "store"}
  BY PhaseStep
<1>3. NoInput(c) /\ NoResults(c)
  BY <1>1, <1>2 DEF FreshInv
<1>4. c = cur /\ pc = "store" => pc' = "store"
  BY PhaseStep
<1>5. input'[IdOf[c]] = input[IdOf[c]] /\ results'[IdOf[c]] = results[IdOf[c]]
  BY <1>2, <1>4, DiskStep
<1> QED
  BY <1>3, <1>5, ReqFixed, StableFacts

\* The stages of one request hand over what the next one relies on.
LEMMA JobStep ==
  ASSUME UniqueIds, TypeOK, TypeOK', PipelineInv, ConnInv, FreshInv, JobInv,
         [Next]_vars
  PROVE  JobInv'
<1> USE DEF Goto
<1>r. req' = req
  BY ReqFixed
<1>t. /\ input \in [Ids -> [Names -> Content \cup {None}]]
      /\ results \in [Ids -> [ResultFiles -> Result \cup {None}]]
      /\ ran \in [Calls -> Run \cup {None}]
      /\ IdOf \in [Calls -> Ids] /\ req \in [Calls -> Requests]
  BY CallAssumption DEF TypeOK
<1>p. \A c, status, code : Reply(c, status, code).status = status
  BY DEF Reply
<1>1. ASSUME pc' = pc, UNCHANGED <<cur, ir, resp, input, results, ran>> PROVE JobInv'
  <2> SUFFICES ASSUME NEW c \in Calls, c = cur
               PROVE  /\ pc \in {"handle", "lift", "klee", "parse"} => Owned(c)'
                      /\ pc \in {"handle", "lift", "klee"} => NoResults(c)'
                      /\ pc = "klee" => Lifted(c, ir)'
                      /\ pc = "parse" => Examined(c)'
                      /\ pc = "respond" => Justified(c, resp)'
    BY <1>1 DEF JobInv
  <2>1. /\ Owned(c)' <=> Owned(c)
        /\ NoResults(c)' <=> NoResults(c)
        /\ Objects(c)' = Objects(c)
        /\ DistinctNames(c)' <=> DistinctNames(c)
        /\ OwnProof(c)' <=> OwnProof(c)
        /\ \A k : AtPath(c, k)' = AtPath(c, k)
    BY <1>1, <1>r, StableFacts
  <2>2. pc = "klee" => Lifted(c, ir)'
    BY <1>1, <2>1 DEF JobInv, Lifted
  <2>3. pc = "parse" => Examined(c)'
    BY <1>1, <2>1 DEF JobInv, Examined, Lifted
  <2>4. pc = "respond" => Justified(c, resp)'
    BY <1>1, <1>r, <2>1 DEF JobInv, Justified
  <2> QED
    BY <2>1, <2>2, <2>3, <2>4 DEF JobInv
<1>2. ASSUME cur' = None \/ pc' \in {"receive", "store", "error"} PROVE JobInv'
  BY <1>2, NoneAssumption DEF JobInv
<1>3. ASSUME NEW c \in Calls, Connect(c) \/ Send(c) \/ Receive(c) \/ Abandon(c)
      PROVE  JobInv'
  BY <1>1, <1>3 DEF Connect, Send, Receive, Abandon, procVars, jobVars, diskVars,
     ghostVars
<1>4. CASE Start \/ Stop
  <2>1. cur' = cur /\ pc \in {"down", "accept"}
    BY <1>4 DEF Start, Stop
  <2> QED
    BY <1>2, <2>1 DEF TypeOK
<1>5. CASE Signal
  BY <1>1, <1>5 DEF Signal, jobVars, diskVars, ghostVars
<1>6. CASE Crash \/ Respond \/ RespondError
  BY <1>2, <1>6 DEF Crash, Respond, RespondError, Finish, ResetJob
<1>7. CASE Accept \/ ReceiveUnit \/ ReceiveEOF
  BY <1>2, <1>7 DEF Accept, ReceiveUnit, ReceiveEOF
<1>8. CASE StoreRequest
  <2>1. cur' = cur /\ cur \in Calls /\ UNCHANGED results /\ pc = "store"
    BY <1>8 DEF StoreRequest, TypeOK
  <2>2. NoInput(cur) /\ NoResults(cur)
    BY <2>1 DEF FreshInv, ConnInv
  <2>3. PICK k \in 0..Len(req[cur].files) :
          StoreFiles(cur, k) /\ pc' \in {"handle", "error"}
    BY <1>8 DEF StoreRequest
  <2>4. input'[IdOf[cur]] = Saved(cur, k)
    BY <1>t, <2>1, <2>3 DEF StoreFiles
  <2>5. Owned(cur)'
    <3> SUFFICES ASSUME NEW n \in Names
                 PROVE  \/ input'[IdOf[cur]][n] = None
                        \/ \E i \in 1..Len(req[cur].files) :
                             /\ req[cur].files[i].name = n
                             /\ input'[IdOf[cur]][n]
                                  = [by |-> cur, key |-> req[cur].files[i].key]
      BY <1>r, <2>1 DEF Owned, Upload
    <3>1. \/ Saved(cur, k)[n] = input[IdOf[cur]][n]
          \/ \E i \in 1..Len(req[cur].files) :
               /\ req[cur].files[i].name = n
               /\ Saved(cur, k)[n] = [by |-> cur, key |-> req[cur].files[i].key]
      BY <1>t, <2>1, SavedFacts
    <3> QED
      BY <2>2, <2>4, <3>1 DEF NoInput
  <2>6. NoResults(cur)'
    BY <1>r, <2>1, <2>2, StableFacts
  <2> QED
    BY <2>1, <2>3, <2>5, <2>6 DEF JobInv
<1>9. CASE Handle
  <2>1. /\ cur' = cur /\ cur \in Calls /\ UNCHANGED <<input, results, ran>>
        /\ pc = "handle"
    BY <1>9 DEF Handle, TypeOK, diskVars, ghostVars
  <2>2. Owned(cur)' /\ NoResults(cur)'
    BY <1>r, <2>1, StableFacts DEF JobInv
  <2>3. \/ pc' \in {"lift", "error"}
        \/ pc' = "respond" /\ req[cur].action = "health"
        \/ pc' = "respond" /\ resp'.status = "error"
    <3>1. \/ pc' \in {"lift", "error"}
          \/ pc' = "respond" /\ req[cur].action = "health"
          \/ pc' = "respond" /\ resp' = Reply(cur, "error", "INVALID_REQUEST")
      BY <1>9, Zenon DEF Handle
    <3> QED
      BY <1>p, <3>1
  <2>4. pc' = "respond" => Justified(cur, resp)'
    BY <1>r, <2>1, <2>3 DEF Justified
  <2> QED
    BY <2>1, <2>2, <2>3, <2>4 DEF JobInv
<1>10. CASE Lift
  <2>1. /\ cur' = cur /\ cur \in Calls /\ UNCHANGED <<input, results, ran>>
        /\ pc = "lift"
    BY <1>10 DEF Lift, TypeOK, diskVars, ghostVars
  <2>2. /\ Owned(cur)' /\ NoResults(cur)'
        /\ Objects(cur)' = Objects(cur)
        /\ \A k : AtPath(cur, k)' = AtPath(cur, k)
    BY <1>r, <2>1, StableFacts DEF JobInv
  <2>3. \/ /\ pc' = "klee"
           /\ \A k \in Objects(cur) : AtPath(cur, k) # None
           /\ ir' = {AtPath(cur, k) : k \in Objects(cur)}
        \/ pc' = "respond" /\ resp'.status = "error"
    BY <1>p, <1>10 DEF Lift, PipelineError
  <2>4. pc' = "klee" => Lifted(cur, ir)'
    BY <2>1, <2>2, <2>3 DEF Lifted
  <2>5. pc' = "respond" => Justified(cur, resp)'
    BY <2>1, <2>3 DEF Justified
  <2> QED
    BY <2>1, <2>2, <2>3, <2>4, <2>5 DEF JobInv
<1>11. CASE RunKlee
  <2>1. cur' = cur /\ cur \in Calls /\ UNCHANGED input /\ pc = "klee"
    BY <1>11 DEF RunKlee, TypeOK
  <2>2. /\ Owned(cur)'
        /\ Objects(cur)' = Objects(cur)
        /\ \A k : AtPath(cur, k)' = AtPath(cur, k)
    BY <1>r, <2>1, StableFacts DEF JobInv
  <2>3. NoResults(cur) /\ Lifted(cur, ir)
    BY <2>1 DEF JobInv
  <2>4. CASE \E w \in KleeOutput : KleeWrites(cur, w) /\ Record(cur, w) /\ pc' = "parse"
    <3>1. PICK w \in KleeOutput : KleeWrites(cur, w) /\ Record(cur, w)
      BY <2>4
    <3>2. ran'[cur] = [ir |-> ir, constraints |-> AtPath(cur, "constraints"),
                       wrote |-> w]
      BY <1>t, <2>1, <3>1 DEF Record
    <3>3. \A f \in ResultFiles :
            results'[IdOf[cur]][f] = IF w[f] = None THEN results[IdOf[cur]][f]
                                     ELSE [by |-> cur, text |-> w[f]]
      BY <1>t, <2>1, <3>1 DEF KleeWrites
    <3>4. ran'[cur] \in Run \cup {None}
      BY <2>1 DEF TypeOK
    <3>5. ran'[cur] # None
      <4>1. ir \subseteq Content
        BY DEF TypeOK
      <4>2. AtPath(cur, "constraints") \in Content \cup {None}
        BY <2>1, NeededKeys, AtPathType DEF PipelineInv
      <4>3. ran'[cur] \in Run
        BY <3>2, <4>1, <4>2 DEF Run
      <4> QED
        BY <4>3, NoneAssumption
    <3>6. Lifted(cur, ran[cur].ir)'
      BY <2>1, <2>2, <2>3, <3>2 DEF Lifted
    <3>7. \A f \in ResultFiles :
            results'[IdOf[cur]][f] = IF ran'[cur].wrote[f] = None THEN None
                                     ELSE [by |-> cur, text |-> ran'[cur].wrote[f]]
      BY <2>3, <3>2, <3>3 DEF NoResults
    <3>8. ran'[cur].constraints = AtPath(cur, "constraints")'
      BY <2>2, <3>2
    <3>9. Examined(cur)'
      BY <2>1, <3>5, <3>6, <3>7, <3>8 DEF Examined
    <3> QED
      BY <2>1, <2>2, <2>4, <3>9 DEF JobInv
  <2>5. CASE pc' = "respond" /\ resp'.status = "error"
    <3>1. Justified(cur, resp)'
      BY <2>1, <2>5 DEF Justified
    <3> QED
      BY <2>1, <2>5, <3>1 DEF JobInv
  <2> QED
    BY <1>p, <1>11, <2>4, <2>5 DEF RunKlee, PipelineError
<1>12. CASE Conclude
  <2>1. /\ cur' = cur /\ cur \in Calls /\ UNCHANGED ran
        /\ pc = "parse" /\ pc' = "respond"
    BY <1>12 DEF Conclude, PipelineError, TypeOK
  <2>2. resp'.status = "error" \/ resp'.status = "verification_failed" \/ Passed(cur)
    <3> DEFINE v == IF Passed(cur) THEN "success" ELSE "verification_failed"
    <3>1. \/ resp' = Reply(cur, "error", "PROCESSING_ERROR")
          \/ resp' = Reply(cur, v, "")
      BY <1>12, Zenon DEF Conclude, PipelineError
    <3>2. Passed(cur) \/ v = "verification_failed"
      OBVIOUS
    <3> HIDE DEF v
    <3>3. CASE resp' = Reply(cur, "error", "PROCESSING_ERROR")
      BY <1>p, <3>3
    <3>4. CASE resp' = Reply(cur, v, "")
      <4>1. resp'.status = v
        BY <3>4 DEF Reply
      <4> QED
        BY <3>2, <4>1
    <3> QED
      BY <3>1, <3>3, <3>4
  <2>3. Passed(cur) /\ DistinctNames(cur) => OwnProof(cur)
    BY <2>1, PassedIsProof DEF JobInv, PipelineInv
  <2>4. /\ DistinctNames(cur)' <=> DistinctNames(cur)
        /\ OwnProof(cur)' <=> OwnProof(cur)
    BY <1>r, <2>1, StableFacts
  <2>5. Justified(cur, resp)'
    BY <2>1, <2>2, <2>3, <2>4 DEF Justified
  <2> QED
    BY <2>1, <2>5 DEF JobInv
<1>13. CASE UNCHANGED vars
  BY <1>1, <1>13 DEF vars
<1> QED
  BY <1>3, <1>4, <1>5, <1>6, <1>7, <1>8, <1>9, <1>10, <1>11, <1>12, <1>13
     DEF Next, Serve

\* A response that was written stays, and only the call being served gets one.
LEMMA InboxStep ==
  ASSUME TypeOK, ConnInv, [Next]_vars, NEW c \in Calls, inbox'[c] # inbox[c]
  PROVE  c = cur /\ ((Respond /\ inbox'[c] = resp) \/ inbox'[c].status = "error")
<1>t. inbox \in [Calls -> Response \cup {None}]
  BY DEF TypeOK
<1>1. ASSUME NEW d \in Calls, Connect(d) \/ Send(d) \/ Receive(d) \/ Abandon(d)
      PROVE  inbox' = inbox
  BY <1>1 DEF Connect, Send, Receive, Abandon, connVars
<1>2. CASE Start \/ Stop \/ Signal \/ Crash \/ Accept
  BY <1>2 DEF Start, Stop, Signal, Crash, Accept, connVars
<1>3. CASE ReceiveUnit \/ ReceiveEOF \/ StoreRequest \/ Handle \/ Lift \/ RunKlee
             \/ Conclude
  BY <1>3, InnerFrame
<1>4. ASSUME NEW m, Finish(m) PROVE c = cur /\ inbox'[c] = m
  BY <1>t, <1>4 DEF Finish
<1>5. CASE Respond
  BY <1>4, <1>5 DEF Respond
<1>6. CASE RespondError
  BY <1>4, <1>6 DEF RespondError
<1>7. CASE UNCHANGED vars
  BY <1>7 DEF vars
<1> QED
  BY <1>1, <1>2, <1>3, <1>5, <1>6, <1>7 DEF Next, Serve

\* A call of the loader is only added by the third stage.
LEMMA LoadsStep ==
  ASSUME [Next]_vars, NEW l \in loads', l \notin loads
  PROVE  /\ Conclude /\ ShouldLoad(cur) /\ pc = "parse" /\ pc' = "respond"
         /\ cur' = cur /\ ran' = ran
         /\ l = [by |-> cur, object |-> AtPath(cur, "object")]
<1>1. ASSUME NEW d \in Calls, Connect(d) \/ Send(d) \/ Receive(d) \/ Abandon(d)
      PROVE  loads' = loads
  BY <1>1 DEF Connect, Send, Receive, Abandon, ghostVars
<1>2. CASE Start \/ Stop \/ Signal \/ Crash \/ Accept
  BY <1>2 DEF Start, Stop, Signal, Crash, Accept, ghostVars
<1>3. CASE ReceiveUnit \/ ReceiveEOF \/ StoreRequest \/ Handle \/ Lift \/ RunKlee
  BY <1>3 DEF ReceiveUnit, ReceiveEOF, StoreRequest, Handle, Lift, RunKlee, ghostVars
<1>4. CASE Conclude
  <2>1. pc = "parse" /\ pc' = "respond" /\ cur' = cur /\ ran' = ran
    BY <1>4 DEF Conclude, PipelineError, Goto
  <2>2. \/ loads' = loads
        \/ /\ ShouldLoad(cur)
           /\ loads' = loads \cup {[by |-> cur, object |-> AtPath(cur, "object")]}
    <3>1. CASE ShouldLoad(cur)
      BY <1>4, <3>1 DEF Conclude
    <3>2. CASE ~ShouldLoad(cur)
      BY <1>4, <3>2 DEF Conclude
    <3> QED
      BY <3>1, <3>2
  <2> QED
    BY <1>4, <2>1, <2>2
<1>5. CASE Respond \/ RespondError
  BY <1>5 DEF Respond, RespondError, Finish, ghostVars
<1>6. CASE UNCHANGED vars
  BY <1>6 DEF vars
<1> QED
  BY <1>1, <1>2, <1>3, <1>4, <1>5, <1>6 DEF Next, Serve

\* The whole invariant is inductive.
LEMMA VerdictStep ==
  ASSUME UniqueIds, TypeOK, TypeOK', PipelineInv, VerdictInv, [Next]_vars
  PROVE  VerdictInv'
<1> USE DEF VerdictInv
<1>r. req' = req
  BY ReqFixed
<1>1. ConnInv' /\ FreshInv' /\ JobInv'
  BY ConnStep, FreshStep, JobStep
<1>t. \A l \in loads : l.by \in Calls
  BY DEF TypeOK
<1>2. LoadInv'
  <2> SUFFICES ASSUME NEW l \in loads'
               PROVE  closed'[l.by] \/ (l.by = cur' /\ pc' = "respond")
    BY DEF LoadInv
  <2>1. CASE l \in loads
    <3>1. closed[l.by] \/ (l.by = cur /\ pc = "respond")
      BY <2>1 DEF LoadInv
    <3>2. closed[l.by] => closed'[l.by]
      BY <1>t, <2>1, PhaseStep
    <3>3. l.by = cur /\ pc = "respond" =>
            closed'[l.by] \/ (l.by = cur' /\ pc' = "respond")
      BY <1>t, <2>1, PhaseStep
    <3> QED
      BY <3>1, <3>2, <3>3
  <2>2. CASE l \notin loads
    BY <2>2, LoadsStep
  <2> QED
    BY <2>1, <2>2
<1>3. LoadsWhatWasVerified'
  <2> SUFFICES ASSUME NEW l \in loads'
               PROVE  /\ req[l.by].action = "load"
                      /\ DistinctNames(l.by)' => /\ OwnProof(l.by)'
                                                 /\ l.object = Upload(l.by, "object")
    BY <1>r DEF LoadsWhatWasVerified, Upload
  <2>0. l.by \in Calls
    BY DEF TypeOK
  <2>1. CASE l \in loads
    <3>1. ~(l.by = cur /\ pc = "klee")
      BY <2>0, <2>1 DEF LoadInv, ConnInv
    <3>2. ran'[l.by] = ran[l.by]
      BY <2>0, <3>1, DiskStep
    <3>3. /\ DistinctNames(l.by)' <=> DistinctNames(l.by)
          /\ OwnProof(l.by)' <=> OwnProof(l.by)
      BY <1>r, <2>0, <3>2, StableFacts
    <3> QED
      BY <2>1, <3>3 DEF LoadsWhatWasVerified
  <2>2. CASE l \notin loads
    <3>1. /\ ShouldLoad(cur) /\ pc = "parse" /\ ran' = ran
          /\ l.by = cur /\ l.object = AtPath(cur, "object")
      BY <2>2, LoadsStep
    <3>2. /\ DistinctNames(l.by)' <=> DistinctNames(l.by)
          /\ OwnProof(l.by)' <=> OwnProof(l.by)
      BY <1>r, <2>0, <3>1, StableFacts
    <3>3. Passed(cur) /\ req[cur].action = "load"
      BY <3>1 DEF ShouldLoad
    <3>4. Owned(cur) /\ Examined(cur) /\ Complete(cur)
      BY <2>0, <3>1 DEF JobInv, PipelineInv
    <3>5. DistinctNames(cur) =>
            OwnProof(cur) /\ AtPath(cur, "object") = Upload(cur, "object")
      BY <2>0, <3>1, <3>3, <3>4, PassedIsProof
    <3> QED
      BY <3>1, <3>2, <3>3, <3>5
  <2> QED
    BY <2>1, <2>2
<1>4. OwnVerdict'
  <2> SUFFICES ASSUME NEW c \in Calls, inbox'[c] # None,
                      inbox'[c].status = "success", req[c].action # "health",
                      DistinctNames(c)'
               PROVE  OwnProof(c)'
    BY <1>r DEF OwnVerdict
  <2>1. DistinctNames(c)
    BY <1>r, StableFacts
  <2>2. CASE inbox'[c] = inbox[c]
    <3>1. OwnProof(c)
      BY <2>1, <2>2 DEF OwnVerdict
    <3>2. c # cur
      BY <2>2 DEF ConnInv
    <3> QED
      BY <1>r, <3>1, <3>2, DiskStep, StableFacts
  <2>3. CASE inbox'[c] # inbox[c]
    <3>1. c = cur /\ Respond /\ inbox'[c] = resp
      BY <2>3, InboxStep
    <3>2. pc = "respond"
      BY <3>1 DEF Respond
    <3>3. OwnProof(c)
      BY <2>1, <3>1, <3>2 DEF JobInv, Justified
    <3> QED
      BY <1>r, <3>2, <3>3, DiskStep, StableFacts
  <2> QED
    BY <2>2, <2>3
<1> QED
  BY <1>1, <1>2, <1>3, <1>4

\* The invariant holds initially.
LEMMA VerdictInit == Init => VerdictInv
<1> SUFFICES ASSUME Init PROVE VerdictInv
  OBVIOUS
<1>1. /\ \A c \in Calls : ~closed[c] /\ inbox[c] = None /\ c # cur
      /\ backlog = <<>> /\ Len(backlog) = 0 /\ loads = {}
  BY NoneAssumption DEF Init
<1>2. \A c \in Calls : NoInput(c) /\ NoResults(c)
  BY CallAssumption DEF Init, NoInput, NoResults
<1> QED
  BY <1>1, <1>2 DEF VerdictInv, ConnInv, FreshInv, JobInv, LoadInv, OwnVerdict,
     LoadsWhatWasVerified

\* The inductive invariant holds in every state the daemon can reach.
LEMMA VerdictInvariant ==
  ASSUME UniqueIds
  PROVE  Spec => []VerdictInv
<1>1. Init => VerdictInv
  BY VerdictInit
<1>2. TypeOK /\ TypeOK' /\ PipelineInv /\ VerdictInv /\ [Next]_vars => VerdictInv'
  BY VerdictStep
<1>3. Spec => []TypeOK /\ []PipelineInv
  BY TypedPipeline, PTL
<1> QED
  BY <1>1, <1>2, <1>3, PTL DEF Spec

\* With unique request ids, a "success" answer rests on a KLEE run of that very
\* request over that request's own files, whatever crashes, restarts and other
\* requests left on disk (_handle_request, parse_verification_results).
THEOREM SuccessIsProved ==
  ASSUME UniqueIds
  PROVE  Spec => []OwnVerdict
<1>1. VerdictInv => OwnVerdict
  BY DEF VerdictInv
<1> QED
  BY <1>1, VerdictInvariant, PTL

\* With unique request ids, loader.load_program is only called for a load
\* request that was proved, with the object file that was proved
\* (_handle_request, step 4).
THEOREM LoadIsVerified ==
  ASSUME UniqueIds
  PROVE  Spec => []LoadsWhatWasVerified
<1>1. VerdictInv => LoadsWhatWasVerified
  BY DEF VerdictInv
<1> QED
  BY <1>1, VerdictInvariant, PTL
-----------------------------------------------------------------------------
(* The answers.  Neither theorem needs unique request ids.                 *)

\* The stages in which request_id is set.
Stored == {"store", "handle", "lift", "klee", "parse", "respond"}

\* A client never writes more units than its request has.
SentInv ==
  \A c \in Calls :
    /\ sent[c] <= Units(c)
    /\ client[c] = "sending" => sent[c] < Units(c)
    /\ client[c] = "idle" => sent[c] = 0

(***************************************************************************)
(* request_id is that of the request being served, or unset: then either   *)
(* it has not been read yet, or it cannot be, or its client has gone and   *)
(* nothing will be written.                                                *)
(***************************************************************************)
AddressInv ==
  /\ pc \in {"down", "accept", "receive"} => reqId = None
  /\ pc \in Stored => reqId = IdOf[cur]
  /\ pc = "error" =>
       \/ reqId = IdOf[cur]
       \/ /\ reqId = None
          /\ client[cur] \in Live => \E k \in 1..Units(cur) : Unreadable(cur, k)
  /\ pc = "respond" => resp # None /\ resp.id = IdOf[cur]

\* A connection is closed with an answer, by a shutdown, or after its client
\* gave up.
ClosedInv ==
  \A c \in Calls :
    /\ closed[c] => inbox[c] # None \/ c \in cut \/ client[c] = "gone"
    /\ client[c] = "answered" => inbox[c] # None
    /\ client[c] = "broken" => closed[c]

AnswerInv == ConnInv /\ SentInv /\ AddressInv /\ ClosedInv /\ AnswerIsAddressed

\* The length of a request, and what can be read of it, do not change.
LEMMA UnitsFixed ==
  ASSUME TypeOK, req' = req, NEW c \in Calls
  PROVE  /\ Units(c)' = Units(c) /\ Units(c) \in Nat \ {0}
         /\ \A k : Unreadable(c, k)' <=> Unreadable(c, k)
<1>1. Len(req[c].files) \in Nat
  BY RequestFacts DEF TypeOK
<1> QED BY <1>1 DEF Units, Unreadable

\* The handler leaves clients alone.
LEMMA ServeFrame ==
  ASSUME Accept \/ ReceiveUnit \/ ReceiveEOF \/ StoreRequest \/ Handle \/ Lift \/ RunKlee
           \/ Conclude \/ Respond \/ RespondError \/ Stop \/ Start \/ Signal \/ Crash
  PROVE  UNCHANGED <<client, sent>>
<1> USE DEF Goto, clientVars
<1>1. CASE Accept \/ Stop \/ Start \/ Signal \/ Crash
  BY <1>1 DEF Accept, Stop, Start, Signal, Crash
<1>2. CASE ReceiveUnit \/ ReceiveEOF \/ StoreRequest \/ Handle
  BY <1>2 DEF ReceiveUnit, ReceiveEOF, StoreRequest, Handle
<1>3. CASE Lift \/ RunKlee \/ Conclude
  BY <1>3 DEF Lift, RunKlee, Conclude, PipelineError
<1>4. CASE Respond \/ RespondError
  BY <1>4 DEF Respond, RespondError, Finish
<1> QED BY <1>1, <1>2, <1>3, <1>4

\* The client writes its units in order and stops after the last one.
LEMMA SentStep ==
  ASSUME TypeOK, SentInv, [Next]_vars
  PROVE  SentInv'
<1>r. req' = req
  BY ReqFixed
<1>t. client \in [Calls -> ClientStates] /\ sent \in [Calls -> Nat]
  BY DEF TypeOK, ClientStates
<1>u. \A c \in Calls : Units(c)' = Units(c) /\ Units(c) \in Nat \ {0}
  BY <1>r, UnitsFixed
<1>1. ASSUME NEW c \in Calls, Connect(c) PROVE SentInv'
  <2>1. /\ client[c] = "idle" /\ sent' = sent
        /\ \/ client' = [client EXCEPT ![c] = "sending"]
           \/ client' = [client EXCEPT ![c] = "refused"]
    BY <1>1 DEF Connect
  <2> QED BY <1>t, <1>u, <2>1 DEF SentInv
<1>2. ASSUME NEW c \in Calls, Send(c) PROVE SentInv'
  <2>1. CASE sent' = sent /\ client' = [client EXCEPT ![c] = "broken"]
    BY <1>t, <1>u, <2>1 DEF SentInv
  <2>2. CASE /\ client[c] = "sending" /\ sent' = [sent EXCEPT ![c] = sent[c] + 1]
             /\ client' = IF sent[c] + 1 = Units(c)
                            THEN [client EXCEPT ![c] = "waiting"] ELSE client
    <3>1. \A d \in Calls : sent'[d] = IF d = c THEN sent[c] + 1 ELSE sent[d]
      BY <1>t, <2>2
    <3>2. \A d \in Calls : d # c => client'[d] = client[d]
      BY <1>t, <2>2
    <3>3. client'[c] = IF sent[c] + 1 = Units(c) THEN "waiting" ELSE "sending"
      BY <1>t, <2>2
    <3>4. sent[c] < Units(c)
      BY <2>2 DEF SentInv
    <3> QED BY <1>t, <1>u, <3>1, <3>2, <3>3, <3>4 DEF SentInv
  <2> QED BY <1>2, <2>1, <2>2 DEF Send
<1>3. ASSUME NEW c \in Calls, Receive(c) \/ Abandon(c) PROVE SentInv'
  <2>1. /\ sent' = sent
        /\ \E x \in {"answered", "broken", "gone"} : client' = [client EXCEPT ![c] = x]
    BY <1>3 DEF Receive, Abandon
  <2> QED BY <1>t, <1>u, <2>1 DEF SentInv
<1>4. ASSUME UNCHANGED <<client, sent>> PROVE SentInv'
  BY <1>u, <1>4 DEF SentInv
<1>5. CASE Start \/ Signal \/ Crash \/ Serve
  BY <1>4, <1>5, ServeFrame DEF Serve
<1>6. CASE UNCHANGED vars
  BY <1>4, <1>6 DEF vars
<1> QED BY <1>1, <1>2, <1>3, <1>5, <1>6 DEF Next

\* A client that has a connection is never live again once it was not.
LEMMA LiveStep ==
  ASSUME TypeOK, ConnInv, [Next]_vars, NEW c \in Calls, c = cur
  PROVE  client'[c] \in Live => client[c] \in Live
<1>t. client \in [Calls -> ClientStates] /\ client[c] \notin {"idle", "refused"}
  BY DEF TypeOK, ClientStates, ConnInv
<1>1. ASSUME NEW d \in Calls, Connect(d) \/ Send(d) \/ Receive(d) \/ Abandon(d)
      PROVE  client'[c] \in Live => client[c] \in Live
  BY <1>t, <1>1 DEF Connect, Send, Receive, Abandon, Live
<1>2. CASE Start \/ Signal \/ Crash \/ Serve
  BY <1>2, ServeFrame DEF Serve
<1>3. CASE UNCHANGED vars
  BY <1>3 DEF vars
<1> QED BY <1>1, <1>2, <1>3 DEF Next

\* request_id is set when the request was read and reset with the connection.
LEMMA AddressStep ==
  ASSUME TypeOK, TypeOK', ConnInv, SentInv, AddressInv, [Next]_vars
  PROVE  AddressInv'
<1> USE DEF Goto, Stored
<1>r. req' = req
  BY ReqFixed
<1>t. /\ pc \notin {"down", "accept"} => cur \in Calls
      /\ got \in Nat /\ sent \in [Calls -> Nat]
  BY DEF TypeOK
<1>p. \A c, status, code : Reply(c, status, code).id = IdOf[c]
  BY DEF Reply
<1>1. ASSUME UNCHANGED <<pc, reqId, resp, cur>> PROVE AddressInv'
  <2>1. CASE pc = "error"
    <3>1. client'[cur] \in Live => client[cur] \in Live
      BY <1>t, <2>1, LiveStep
    <3>2. /\ Units(cur)' = Units(cur)
          /\ \A k : Unreadable(cur, k)' <=> Unreadable(cur, k)
      BY <1>r, <1>t, <1>1, <2>1, UnitsFixed
    <3> QED BY <1>1, <2>1, <3>1, <3>2 DEF AddressInv
  <2>2. CASE pc # "error"
    BY <1>1, <2>2 DEF AddressInv
  <2> QED BY <2>1, <2>2
<1>2. ASSUME NEW c \in Calls, Connect(c) \/ Send(c) \/ Receive(c) \/ Abandon(c)
      PROVE  AddressInv'
  BY <1>1, <1>2 DEF Connect, Send, Receive, Abandon, jobVars
<1>3. CASE Start \/ Stop \/ Accept
  BY <1>3 DEF Start, Stop, Accept, jobVars, AddressInv
<1>4. CASE Signal
  BY <1>1, <1>4 DEF Signal, jobVars
<1>5. CASE Crash \/ Respond \/ RespondError
  BY <1>5 DEF Crash, Respond, RespondError, Finish, ResetJob, AddressInv
<1>6. CASE ReceiveUnit
  <2>1. /\ pc = "receive" /\ cur \in Calls /\ cur' = cur /\ resp' = resp /\ reqId = None
        /\ got < sent[cur]
    BY <1>6, <1>t DEF ReceiveUnit, AddressInv
  <2>2. got + 1 \in 1..Units(cur) /\ Units(cur)' = Units(cur)
    BY <1>r, <1>t, <2>1, UnitsFixed DEF SentInv
  <2>3. CASE pc' = "error" /\ Unreadable(cur, got + 1) /\ reqId' = reqId
    <3>1. \E k \in 1..Units(cur) : Unreadable(cur, k)
      BY <2>2, <2>3
    <3>2. (\E k \in 1..Units(cur) : Unreadable(cur, k))'
      BY <1>r, <2>1, <3>1, UnitsFixed
    <3> QED BY <2>1, <2>3, <3>2 DEF AddressInv
  <2>4. CASE pc' = "receive" /\ reqId' = reqId
    BY <2>1, <2>4 DEF AddressInv
  <2>5. CASE pc' = "store" /\ reqId' = IdOf[cur]
    BY <2>1, <2>5 DEF AddressInv
  <2> QED BY <1>6, <2>3, <2>4, <2>5 DEF ReceiveUnit
<1>7. CASE ReceiveEOF
  <2>1. /\ pc = "receive" /\ pc' = "error" /\ cur' = cur /\ reqId' = reqId
        /\ client' = client /\ client[cur] \notin Live
    BY <1>7 DEF ReceiveEOF, jobVars, clientVars
  <2> QED BY <2>1 DEF AddressInv
<1>8. CASE StoreRequest
  BY <1>8 DEF StoreRequest, jobVars, AddressInv
<1>n. ASSUME resp' \in Response PROVE resp' # None
  BY <1>n, NoneAssumption
<1>9. ASSUME NEW status \in {"success", "verification_failed", "error"},
             NEW code \in {"", "RECEIVE_ERROR", "INVALID_REQUEST", "PROCESSING_ERROR"},
             resp' = Reply(cur, status, code), pc \in Stored, pc' = "respond",
             cur' = cur, reqId' = reqId
      PROVE  AddressInv'
  <2>1. resp' \in Response
    BY <1>t, <1>9, ReplyType
  <2>2. resp'.id = IdOf[cur]
    BY <1>p, <1>9
  <2> QED BY <1>9, <1>n, <2>1, <2>2 DEF AddressInv
<1>10. ASSUME pc \in Stored, pc' \in {"error", "lift", "klee", "parse"}, cur' = cur, reqId' = reqId
       PROVE  AddressInv'
  BY <1>10 DEF AddressInv
<1>11. CASE Handle
  <2>1. pc = "handle" /\ cur' = cur /\ reqId' = reqId
    BY <1>11 DEF Handle
  <2>2. \/ pc' \in {"error", "lift"}
        \/ pc' = "respond" /\ resp' = Reply(cur, "success", "")
        \/ pc' = "respond" /\ resp' = Reply(cur, "error", "INVALID_REQUEST")
    BY <1>11, Zenon DEF Handle
  <2> QED BY <1>9, <1>10, <2>1, <2>2
<1>12. CASE Lift
  <2>1. pc = "lift" /\ cur' = cur /\ reqId' = reqId
    BY <1>12 DEF Lift
  <2>2. \/ pc' = "klee"
        \/ pc' = "respond" /\ resp' = Reply(cur, "error", "PROCESSING_ERROR")
    BY <1>12, Zenon DEF Lift, PipelineError
  <2> QED BY <1>9, <1>10, <2>1, <2>2
<1>13. CASE RunKlee
  <2>1. pc = "klee" /\ cur' = cur /\ reqId' = reqId
    BY <1>13 DEF RunKlee
  <2>2. \/ pc' = "parse"
        \/ pc' = "respond" /\ resp' = Reply(cur, "error", "PROCESSING_ERROR")
    BY <1>13, Zenon DEF RunKlee, PipelineError
  <2> QED BY <1>9, <1>10, <2>1, <2>2
<1>14. CASE Conclude
  <2> DEFINE v == IF Passed(cur) THEN "success" ELSE "verification_failed"
  <2>1. pc = "parse" /\ cur' = cur /\ reqId' = reqId
    BY <1>14 DEF Conclude
  <2>2. \/ pc' = "respond" /\ resp' = Reply(cur, v, "")
        \/ pc' = "respond" /\ resp' = Reply(cur, "error", "PROCESSING_ERROR")
    BY <1>14, Zenon DEF Conclude, PipelineError
  <2>3. v \in {"success", "verification_failed", "error"}
    OBVIOUS
  <2> HIDE DEF v
  <2> QED BY <1>9, <2>1, <2>2, <2>3
<1>15. CASE UNCHANGED vars
  BY <1>1, <1>15 DEF vars
<1> QED
  BY <1>2, <1>3, <1>4, <1>5, <1>6, <1>7, <1>8, <1>11, <1>12, <1>13, <1>14, <1>15
     DEF Next, Serve

\* What Finish writes, and to whom.
LEMMA FinishEffect ==
  ASSUME TypeOK, NEW m, Finish(m), cur \in Calls, NEW c \in Calls
  PROVE  /\ closed'[c] <=> closed[c] \/ c = cur
         /\ inbox'[c] = IF c = cur /\ client[cur] \in Live THEN m ELSE inbox[c]
         /\ UNCHANGED <<client, cut, req>>
<1>1. closed \in [Calls -> BOOLEAN] /\ inbox \in [Calls -> Response \cup {None}]
  BY DEF TypeOK
<1>2. /\ closed' = [closed EXCEPT ![cur] = TRUE]
      /\ inbox' = IF client[cur] \in Live THEN [inbox EXCEPT ![cur] = m] ELSE inbox
      /\ UNCHANGED <<client, cut, req>>
  BY DEF Finish, Goto, clientVars, procVars
<1> QED BY <1>1, <1>2

\* The response each of the two last stages writes.
LEMMA Written ==
  ASSUME TypeOK, AddressInv, Respond \/ RespondError
  PROVE  \E m \in Response : /\ Finish(m) /\ m # None /\ cur \in Calls
                             /\ \/ m.id = IdOf[cur]
                                \/ /\ m.id = None /\ m.code = "RECEIVE_ERROR"
                                   /\ client[cur] \in Live =>
                                        \E k \in 1..Units(cur) : Unreadable(cur, k)
<1>1. CASE Respond
  <2>1. Finish(resp) /\ pc = "respond" /\ cur \in Calls /\ resp \in Response \cup {None}
    BY <1>1 DEF Respond, TypeOK
  <2>2. resp # None /\ resp.id = IdOf[cur]
    BY <2>1 DEF AddressInv
  <2> QED BY <2>1, <2>2
<1>2. CASE RespondError
  <2> DEFINE m == [id |-> reqId, status |-> "error", code |-> "RECEIVE_ERROR",
                   returnCode |-> 0, retained |-> FALSE]
  <2>1. Finish(m) /\ pc = "error" /\ cur \in Calls
    BY <1>2 DEF RespondError, TypeOK
  <2>2. m \in Response /\ m.id = reqId /\ m.code = "RECEIVE_ERROR"
    BY DEF TypeOK, Response
  <2> HIDE DEF m
  <2>3. m # None
    BY <2>2, NoneAssumption
  <2> QED BY <2>1, <2>2, <2>3 DEF AddressInv
<1> QED BY <1>1, <1>2

\* Closing a connection leaves an answer unless the daemon shut down or the
\* client had given up.
LEMMA ClosedStep ==
  ASSUME TypeOK, ConnInv, AddressInv, ClosedInv, [Next]_vars
  PROVE  ClosedInv'
<1>t. /\ client \in [Calls -> ClientStates] /\ closed \in [Calls -> BOOLEAN]
      /\ inbox \in [Calls -> Response \cup {None}]
  BY DEF TypeOK, ClientStates
<1>1. ASSUME NEW c \in Calls, Connect(c) PROVE ClosedInv'
  <2>1. /\ client[c] = "idle" /\ UNCHANGED <<closed, inbox, cut>>
        /\ \/ client' = [client EXCEPT ![c] = "sending"]
           \/ client' = [client EXCEPT ![c] = "refused"]
    BY <1>1 DEF Connect, connVars
  <2> QED BY <1>t, <2>1 DEF ClosedInv
<1>2. ASSUME NEW c \in Calls, Send(c) PROVE ClosedInv'
  <2>1. /\ client[c] = "sending" /\ UNCHANGED <<closed, inbox, cut>>
        /\ \/ client' = [client EXCEPT ![c] = "broken"] /\ closed[c]
           \/ client' = [client EXCEPT ![c] = "waiting"]
           \/ client' = client
    BY <1>2 DEF Send, connVars, procVars
  <2> QED BY <1>t, <2>1 DEF ClosedInv
<1>3. ASSUME NEW c \in Calls, Receive(c) \/ Abandon(c) PROVE ClosedInv'
  <2>1. /\ client[c] \in Live /\ UNCHANGED <<closed, inbox, cut>>
        /\ \/ client' = [client EXCEPT ![c] = "answered"] /\ inbox[c] # None
           \/ client' = [client EXCEPT ![c] = "broken"] /\ closed[c]
           \/ client' = [client EXCEPT ![c] = "gone"]
    BY <1>3 DEF Receive, Abandon, connVars, procVars, Live
  <2> QED BY <1>t, <2>1 DEF ClosedInv, Live
<1>4. ASSUME UNCHANGED <<client, closed, inbox, cut>> PROVE ClosedInv'
  BY <1>4 DEF ClosedInv
<1>5. CASE Start \/ Stop \/ Accept
  BY <1>4, <1>5 DEF Start, Stop, Accept, connVars, clientVars
<1>6. ASSUME NEW S, Break(S), UNCHANGED <<client, inbox>> PROVE ClosedInv'
  <2>1. /\ \A c \in Calls : closed'[c] <=> closed[c] \/ c \in S
        /\ cut' = cut \cup S
    BY <1>6 DEF Break
  <2> QED BY <1>6, <2>1 DEF ClosedInv
<1>7. CASE Signal \/ Crash
  BY <1>6, <1>7 DEF Signal, Crash, clientVars
<1>8. CASE ReceiveUnit \/ ReceiveEOF \/ StoreRequest \/ Handle \/ Lift \/ RunKlee
             \/ Conclude
  <2>1. cut' = cut
    <3>1. CASE ReceiveUnit \/ ReceiveEOF \/ StoreRequest \/ Handle
      BY <3>1 DEF ReceiveUnit, ReceiveEOF, StoreRequest, Handle, Goto, procVars
    <3>2. CASE Lift \/ RunKlee \/ Conclude
      BY <3>2 DEF Lift, RunKlee, Conclude, PipelineError, Goto, procVars
    <3> QED BY <1>8, <3>1, <3>2
  <2> QED BY <1>4, <1>8, <2>1, InnerFrame
<1>9. CASE Respond \/ RespondError
  <2>1. PICK m \in Response : Finish(m) /\ m # None /\ cur \in Calls
    BY <1>9, Written
  <2> SUFFICES ASSUME NEW c \in Calls
               PROVE  /\ closed'[c] => inbox'[c] # None \/ c \in cut' \/ client'[c] = "gone"
                      /\ client'[c] = "answered" => inbox'[c] # None
                      /\ client'[c] = "broken" => closed'[c]
    BY DEF ClosedInv
  <2>2. /\ closed'[c] <=> closed[c] \/ c = cur
        /\ inbox'[c] = IF c = cur /\ client[cur] \in Live THEN m ELSE inbox[c]
        /\ UNCHANGED <<client, cut>>
    BY <2>1, FinishEffect
  <2>3. CASE c # cur
    BY <2>2, <2>3 DEF ClosedInv
  <2>4. CASE c = cur
    <3>1. client[c] \notin {"idle", "refused"} /\ ~closed[c]
      BY <2>4 DEF ConnInv
    <3>2. client[c] \in Live \cup {"gone", "answered"}
      BY <1>t, <3>1 DEF ClosedInv, ClientStates, Live
    <3> QED BY <2>1, <2>2, <2>4, <3>1, <3>2 DEF ClosedInv
  <2> QED BY <2>3, <2>4
<1>10. CASE UNCHANGED vars
  BY <1>4, <1>10 DEF vars
<1> QED
  BY <1>1, <1>2, <1>3, <1>5, <1>7, <1>8, <1>9, <1>10 DEF Next, Serve

\* Every answer that is written is addressed.
LEMMA AnswerStep ==
  ASSUME TypeOK, ConnInv, AddressInv, AnswerIsAddressed, [Next]_vars
  PROVE  AnswerIsAddressed'
<1> SUFFICES ASSUME NEW c \in Calls, inbox'[c] # None
             PROVE  \/ inbox'[c].id = IdOf[c]
                    \/ /\ inbox'[c].id = None
                       /\ inbox'[c].code = "RECEIVE_ERROR"
                       /\ (\E k \in 1..Units(c) : Unreadable(c, k))'
  BY DEF AnswerIsAddressed
<1>r. req' = req
  BY ReqFixed
<1>u. (\E k \in 1..Units(c) : Unreadable(c, k))' <=> \E k \in 1..Units(c) : Unreadable(c, k)
  BY <1>r, UnitsFixed
<1>1. CASE inbox'[c] = inbox[c]
  BY <1>1, <1>u DEF AnswerIsAddressed
<1>2. CASE inbox'[c] # inbox[c]
  <2>1. c = cur /\ (Respond \/ RespondError)
    <3>1. ASSUME NEW d \in Calls, Connect(d) \/ Send(d) \/ Receive(d) \/ Abandon(d)
          PROVE  inbox' = inbox
      BY <3>1 DEF Connect, Send, Receive, Abandon, connVars
    <3>2. CASE Start \/ Stop \/ Signal \/ Crash \/ Accept
      BY <1>2, <3>2 DEF Start, Stop, Signal, Crash, Accept, connVars
    <3>3. CASE ReceiveUnit \/ ReceiveEOF \/ StoreRequest \/ Handle \/ Lift \/ RunKlee
                 \/ Conclude
      BY <1>2, <3>3, InnerFrame
    <3>4. CASE UNCHANGED vars
      BY <1>2, <3>4 DEF vars
    <3>5. c = cur
      BY <1>2, InboxStep
    <3> QED BY <1>2, <3>1, <3>2, <3>3, <3>4, <3>5 DEF Next, Serve
  <2>2. PICK m \in Response : /\ Finish(m) /\ cur \in Calls
                              /\ \/ m.id = IdOf[cur]
                                 \/ /\ m.id = None /\ m.code = "RECEIVE_ERROR"
                                    /\ client[cur] \in Live =>
                                         \E k \in 1..Units(cur) : Unreadable(cur, k)
    BY <2>1, Written
  <2>3. inbox'[c] = IF c = cur /\ client[cur] \in Live THEN m ELSE inbox[c]
    BY <2>2, FinishEffect
  <2>4. client[cur] \in Live /\ inbox'[c] = m
    BY <1>2, <2>3
  <2> QED BY <1>u, <2>1, <2>2, <2>4
<1> QED BY <1>1, <1>2

\* The invariant behind both theorems about the answers.
LEMMA AnswerInvariant == Spec => []AnswerInv
<1>1. Init => AnswerInv
  <2> SUFFICES ASSUME Init PROVE AnswerInv
    OBVIOUS
  <2>1. /\ \A c \in Calls : /\ ~closed[c] /\ inbox[c] = None /\ c # cur
                            /\ client[c] = "idle" /\ sent[c] = 0
        /\ backlog = <<>> /\ Len(backlog) = 0 /\ pc = "down" /\ reqId = None
    BY NoneAssumption DEF Init
  <2>2. \A c \in Calls : Units(c) \in Nat \ {0}
    <3> SUFFICES ASSUME NEW c \in Calls PROVE Units(c) \in Nat \ {0}
      OBVIOUS
    <3>1. Len(req[c].files) \in Nat
      BY RequestFacts DEF Init
    <3> QED BY <3>1 DEF Units
  <2>3. ConnInv
    BY <2>1 DEF ConnInv
  <2>4. SentInv
    BY <2>1, <2>2 DEF SentInv
  <2>5. AddressInv /\ ClosedInv /\ AnswerIsAddressed
    BY <2>1 DEF AddressInv, ClosedInv, AnswerIsAddressed, Stored
  <2> QED BY <2>3, <2>4, <2>5 DEF AnswerInv
<1>2. TypeOK /\ TypeOK' /\ AnswerInv /\ [Next]_vars => AnswerInv'
  BY ConnStep, SentStep, AddressStep, ClosedStep, AnswerStep DEF AnswerInv
<1>3. Spec => []TypeOK
  BY TypedPipeline, PTL
<1> QED BY <1>1, <1>2, <1>3, PTL DEF Spec

\* Every response names the request of the call it is written to; one without
\* an id answers a request that could not be read (_handle_client).
THEOREM AnswersAreAddressed == Spec => []AnswerIsAddressed
<1>1. AnswerInv => AnswerIsAddressed
  BY DEF AnswerInv
<1> QED BY <1>1, AnswerInvariant, PTL

\* A call whose connection breaks was cut off by a shutdown before it was
\* accepted, or has an answer on its connection (_handle_client,
\* _signal_handler).
THEOREM ShutdownAloneLosesCalls == Spec => []OnlyShutdownLosesCalls
<1>1. AnswerInv => OnlyShutdownLosesCalls
  <2> SUFFICES ASSUME AnswerInv, NEW c \in Calls, client[c] = "broken"
               PROVE  (c \in cut /\ c # cur) \/ inbox[c] # None
    BY DEF OnlyShutdownLosesCalls
  <2> QED BY DEF AnswerInv, ClosedInv, ConnInv
<1> QED BY <1>1, AnswerInvariant, PTL
=============================================================================
