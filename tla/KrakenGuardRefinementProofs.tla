---------------------- MODULE KrakenGuardRefinementProofs ----------------------
(***************************************************************************)
(* The daemon implements the abstract service, for any number of calls,    *)
(* crashes and restarts.  Every step of the daemon is a step of            *)
(* VerifierService or changes nothing it can see.                          *)
(***************************************************************************)
EXTENDS KrakenGuardRefinement, KrakenGuardProofs

\* KLEE wrote both files, and both say that the program is valid.
AllValid(c) == \A f \in ResultFiles : ran[c].wrote[f] = "valid"

\* KLEE has only run for calls that are concluded and for the one being served.
RanInv ==
  \A c \in Calls :
    ran[c] # None => closed[c] \/ (c = cur /\ pc \in {"parse", "respond"})

\* The response that is about to be written follows from what KLEE wrote.
RespInv ==
  pc = "respond" =>
    \/ resp.status = "error"
    \/ resp.status = "success" /\ req[cur].action = "health" /\ ran[cur] = None
    \/ /\ resp.status = "success" /\ req[cur].action # "health"
       /\ ran[cur] # None /\ AllValid(cur)
    \/ /\ resp.status = "verification_failed" /\ req[cur].action # "health"
       /\ ran[cur] # None /\ ~AllValid(cur)

ServiceInv == VerdictInv /\ RanInv /\ RespInv

\* The verdict the daemon reads off the disk is the one of this KLEE run.
LEMMA PassedIsValid ==
  ASSUME NEW c \in Calls, Examined(c)
  PROVE  Passed(c) <=> AllValid(c)
<1> SUFFICES ASSUME NEW f \in ResultFiles
             PROVE  (/\ results[IdOf[c]][f] # None
                     /\ results[IdOf[c]][f].text = "valid") <=> ran[c].wrote[f] = "valid"
  BY DEF Passed, AllValid
<1>1. results[IdOf[c]][f] = IF ran[c].wrote[f] = None THEN None
                            ELSE [by |-> c, text |-> ran[c].wrote[f]]
  BY DEF Examined
<1>2. [by |-> c, text |-> "valid"] # None
  BY NoneAssumption DEF Result, Texts
<1>3. None # "valid"
  BY NoneAssumption DEF Texts
<1> QED BY <1>1, <1>2, <1>3

\* A step that is not one of these leaves the stage of the request alone, or
\* leads to one in which KLEE has not run.
LEMMA RanStep ==
  ASSUME UniqueIds, TypeOK, TypeOK', ConnInv, RanInv, [Next]_vars
  PROVE  RanInv'
<1> SUFFICES ASSUME NEW c \in Calls, ran'[c] # None, ~closed'[c]
             PROVE  c = cur' /\ pc' \in {"parse", "respond"}
  BY DEF RanInv
<1>1. ~closed[c] /\ (c = cur => cur' = c)
  BY PhaseStep
<1>2. CASE ran'[c] # ran[c]
  <2>1. c = cur /\ pc = "klee" /\ cur' = c
    BY <1>1, <1>2, DiskStep
  <2>2. RunKlee
    <3>1. ~StoreRequest
      BY <2>1 DEF StoreRequest
    <3>2. ~Crash
      BY <1>2 DEF Crash, ghostVars
    <3> QED BY <1>2, <3>1, <3>2, DiskFrame
  <2> QED BY <2>1, <2>2 DEF RunKlee, PipelineError, Goto
<1>3. CASE ran'[c] = ran[c]
  <2>1. c = cur /\ cur' = c /\ pc \in {"parse", "respond"}
    BY <1>1, <1>3 DEF RanInv
  <2>2. pc = "respond" => pc' = "respond"
    BY <2>1, PhaseStep
  <2>3. pc = "parse" => pc' \in {"parse", "respond"}
    <3> SUFFICES ASSUME pc = "parse" PROVE pc' \in {"parse", "respond"}
      OBVIOUS
    <3>1. ASSUME NEW d \in Calls, Connect(d) \/ Send(d) \/ Receive(d) \/ Abandon(d)
          PROVE  pc' = pc
      BY <3>1 DEF Connect, Send, Receive, Abandon
    <3>2. CASE Start \/ Stop \/ Accept \/ ReceiveUnit \/ ReceiveEOF \/ StoreRequest \/ Handle
      BY <3>2 DEF Start, Stop, Accept, ReceiveUnit, ReceiveEOF, StoreRequest, Handle
    <3>3. CASE Lift \/ RunKlee \/ Respond \/ RespondError
      BY <3>3 DEF Lift, RunKlee, Respond, RespondError
    <3>4. CASE Crash
      BY <2>1, <3>4, NoneAssumption DEF Crash, ResetJob
    <3>5. CASE Signal
      BY <3>5 DEF Signal
    <3>6. CASE Conclude
      BY <3>6 DEF Conclude, PipelineError, Goto
    <3>7. CASE UNCHANGED vars
      BY <3>7 DEF vars
    <3> QED BY <3>1, <3>2, <3>3, <3>4, <3>5, <3>6, <3>7 DEF Next, Serve
  <2> QED BY <2>1, <2>2, <2>3
<1> QED BY <1>2, <1>3

\* The last stages choose the response by what KLEE wrote.
LEMMA RespStep ==
  ASSUME UniqueIds, TypeOK, TypeOK', PipelineInv, VerdictInv, RanInv, RespInv, [Next]_vars
  PROVE  RespInv'
<1> USE DEF Goto
<1> SUFFICES ASSUME pc' = "respond" PROVE RespInv'
  BY DEF RespInv
<1>r. req' = req
  BY ReqFixed
<1>t. pc \notin {"down", "accept"} => cur \in Calls
  BY DEF TypeOK
<1>p. \A c, status, code : Reply(c, status, code).status = status
  BY DEF Reply
<1>1. ASSUME UNCHANGED <<pc, cur, resp, ran>> PROVE RespInv'
  BY <1>r, <1>1 DEF RespInv, AllValid
<1>2. ASSUME NEW c \in Calls, Connect(c) \/ Send(c) \/ Receive(c) \/ Abandon(c)
      PROVE  RespInv'
  BY <1>1, <1>2 DEF Connect, Send, Receive, Abandon, jobVars, ghostVars
<1>3. CASE Start \/ Stop \/ Accept \/ Crash \/ ReceiveUnit \/ ReceiveEOF \/ StoreRequest
  BY <1>3 DEF Start, Stop, Accept, Crash, ReceiveUnit, ReceiveEOF, StoreRequest
<1>4. CASE Signal
  BY <1>1, <1>4 DEF Signal, jobVars, ghostVars
<1>5. ASSUME resp'.status = "error" PROVE RespInv'
  BY <1>5 DEF RespInv
<1>6. CASE Handle
  <2>1. pc = "handle" /\ cur' = cur /\ ran' = ran
    BY <1>6 DEF Handle, ghostVars
  <2>2. \/ resp' = Reply(cur, "success", "") /\ req[cur].action = "health"
        \/ resp' = Reply(cur, "error", "INVALID_REQUEST")
    BY <1>6, Zenon DEF Handle
  <2>3. ran[cur] = None
    BY <1>t, <2>1 DEF RanInv, VerdictInv, ConnInv
  <2>4. CASE resp' = Reply(cur, "success", "") /\ req[cur].action = "health"
    <3>1. resp'.status = "success" BY <1>p, <2>4
    <3> QED BY <1>r, <2>1, <2>3, <2>4, <3>1 DEF RespInv
  <2>5. CASE resp' = Reply(cur, "error", "INVALID_REQUEST")
    BY <1>p, <1>5, <2>5
  <2> QED BY <2>2, <2>4, <2>5
<1>7. CASE Lift \/ RunKlee
  BY <1>p, <1>5, <1>7 DEF Lift, RunKlee, PipelineError
<1>8. CASE Conclude
  <2> DEFINE v == IF Passed(cur) THEN "success" ELSE "verification_failed"
  <2>1. pc = "parse" /\ cur' = cur /\ ran' = ran /\ cur \in Calls
    BY <1>8, <1>t DEF Conclude
  <2>2. \/ resp' = Reply(cur, v, "")
        \/ resp' = Reply(cur, "error", "PROCESSING_ERROR")
    BY <1>8, Zenon DEF Conclude, PipelineError
  <2>3. Examined(cur) /\ req[cur].action # "health"
    BY <2>1 DEF VerdictInv, JobInv, PipelineInv
  <2>4. (Passed(cur) <=> AllValid(cur)) /\ ran[cur] # None
    BY <2>1, <2>3, PassedIsValid DEF Examined
  <2>5. AllValid(cur)' <=> AllValid(cur)
    BY <2>1 DEF AllValid
  <2>6. CASE resp' = Reply(cur, "error", "PROCESSING_ERROR")
    BY <1>p, <1>5, <2>6
  <2>7. CASE Passed(cur) /\ resp' = Reply(cur, "success", "")
    <3>1. resp'.status = "success" BY <1>p, <2>7
    <3> QED BY <1>r, <2>1, <2>3, <2>4, <2>5, <2>7, <3>1 DEF RespInv
  <2>8. CASE ~Passed(cur) /\ resp' = Reply(cur, "verification_failed", "")
    <3>1. resp'.status = "verification_failed" BY <1>p, <2>8
    <3> QED BY <1>r, <2>1, <2>3, <2>4, <2>5, <2>8, <3>1 DEF RespInv
  <2> QED BY <2>2, <2>6, <2>7, <2>8
<1>9. CASE Respond \/ RespondError
  BY <1>9 DEF Respond, RespondError, Finish
<1>10. CASE UNCHANGED vars
  BY <1>1, <1>10 DEF vars
<1> QED BY <1>2, <1>3, <1>4, <1>6, <1>7, <1>8, <1>9, <1>10 DEF Next, Serve
-----------------------------------------------------------------------------
(* What the service sees of a step.                                        *)
New(c) == client[c] \in {"idle", "refused"}
Loaded == {l.by : l \in loads}

\* The abstract state of a call depends on its connection, its KLEE run and
\* its answer alone.
LEMMA SameCall ==
  ASSUME req' = req, NEW c \in Calls
  PROVE  /\ (closed'[c] <=> closed[c]) /\ (New(c)' <=> New(c)) => StageOf(c)' = StageOf(c)
         /\ ran'[c] = ran[c] => EvidenceOf(c)' = EvidenceOf(c)
         /\ inbox'[c] = inbox[c] => VerdictOf(c)' = VerdictOf(c)
<1>1. ASSUME closed'[c] <=> closed[c], New(c)' <=> New(c) PROVE StageOf(c)' = StageOf(c)
  BY <1>1 DEF StageOf, New
<1>2. ASSUME ran'[c] = ran[c] PROVE EvidenceOf(c)' = EvidenceOf(c)
  BY <1>2 DEF EvidenceOf
<1>3. ASSUME inbox'[c] = inbox[c] PROVE VerdictOf(c)' = VerdictOf(c)
  BY <1>3 DEF VerdictOf
<1> QED BY <1>1, <1>2, <1>3

\* A connection that is open is seen as open.
LEMMA OpenCall ==
  ASSUME NEW c \in Calls, ~closed[c], ~New(c)
  PROVE  StageOf(c) = "open"
  BY DEF StageOf, New

\* A step that changes neither connections, runs, answers nor loads.
LEMMA StutterStep ==
  ASSUME req' = req, UNCHANGED <<closed, inbox, ran, loads>>,
         \A c \in Calls : New(c)' <=> New(c)
  PROVE  UNCHANGED Service!vars
<1>1. \A c \in Calls : /\ StageOf(c)' = StageOf(c) /\ EvidenceOf(c)' = EvidenceOf(c)
                       /\ VerdictOf(c)' = VerdictOf(c)
  BY SameCall
<1> QED BY <1>1 DEF Service!vars

\* connect() opens a call, or is refused and shows nothing.
LEMMA ConnectStep ==
  ASSUME TypeOK, ConnInv, req' = req, NEW c \in Calls, Connect(c)
  PROVE  Service!Open(c) \/ UNCHANGED Service!vars
<1>t. client \in [Calls -> ClientStates]
  BY DEF TypeOK, ClientStates
<1>1. UNCHANGED <<closed, inbox, ran, loads>> /\ client[c] = "idle"
  BY DEF Connect, connVars, ghostVars
<1>2. CASE client' = [client EXCEPT ![c] = "refused"]
  <2>1. \A d \in Calls : New(d)' <=> New(d)
    BY <1>t, <1>1, <1>2 DEF New
  <2> QED BY <1>1, <2>1, StutterStep
<1>3. CASE client' = [client EXCEPT ![c] = "sending"]
  <2>1. \A d \in Calls : d # c => (New(d)' <=> New(d))
    BY <1>t, <1>1, <1>3 DEF New
  <2>2. StageOf(c) = "new" /\ StageOf(c)' = "open"
    BY <1>t, <1>1, <1>3 DEF StageOf, ConnInv
  <2>3. \A d \in Calls : /\ d # c => StageOf(d)' = StageOf(d)
                         /\ EvidenceOf(d)' = EvidenceOf(d) /\ VerdictOf(d)' = VerdictOf(d)
    BY <1>1, <2>1, SameCall
  <2> QED BY <1>1, <2>2, <2>3 DEF Service!Open
<1> QED BY <1>2, <1>3 DEF Connect

\* Connections that go down together are dropped.
LEMMA BreakStep ==
  ASSUME req' = req, NEW S \in SUBSET Calls, Break(S), UNCHANGED <<client, inbox, ran, loads>>,
         \A c \in S : ~closed[c] /\ ~New(c)
  PROVE  Service!Drop(S)
<1>1. \A c \in Calls : (closed'[c] <=> closed[c] \/ c \in S) /\ (New(c)' <=> New(c))
  BY DEF Break, New
<1>2. \A c \in S : StageOf(c) = "open"
  BY OpenCall
<1>3. \A c \in Calls : StageOf(c)' = IF c \in S THEN "closed" ELSE StageOf(c)
  <2> SUFFICES ASSUME NEW c \in Calls
               PROVE  StageOf(c)' = IF c \in S THEN "closed" ELSE StageOf(c)
    OBVIOUS
  <2>1. CASE c \in S
    BY <1>1, <2>1 DEF StageOf
  <2>2. CASE c \notin S
    BY <1>1, <2>2, SameCall
  <2> QED BY <2>1, <2>2
<1>4. \A c \in Calls : EvidenceOf(c)' = EvidenceOf(c) /\ VerdictOf(c)' = VerdictOf(c)
  BY SameCall
<1> QED BY <1>2, <1>3, <1>4 DEF Service!Drop

\* KLEE's run is the examination, one at a time.
LEMMA RunKleeStep ==
  ASSUME TypeOK, PipelineInv, ConnInv, RanInv, req' = req, RunKlee
  PROVE  \/ \E e \in {"valid", "invalid"} : Service!Examine(cur, e)
         \/ UNCHANGED Service!vars
<1>1. /\ pc = "klee" /\ cur \in Calls /\ UNCHANGED <<client, closed, inbox, loads, cur>>
  BY InnerFrame DEF RunKlee, TypeOK
<1>n. \A c \in Calls : New(c)' <=> New(c)
  BY <1>1 DEF New
<1>2. CASE ran' = ran
  BY <1>1, <1>2, <1>n, StutterStep
<1>3. ASSUME NEW w \in KleeOutput, Record(cur, w)
      PROVE  \E e \in {"valid", "invalid"} : Service!Examine(cur, e)
  <2>1. ~closed[cur] /\ ~New(cur) /\ ran[cur] = None
    BY <1>1 DEF ConnInv, RanInv, New
  <2>2. \A c \in Calls : c # cur => ran'[c] = ran[c]
    BY <1>1, <1>3 DEF Record, TypeOK
  <2>3. \A c \in Calls : ran[c] # None => closed[c]
    BY <1>1 DEF RanInv
  <2>4. ran'[cur] # None
    <3>1. ran'[cur] = [ir |-> ir, constraints |-> AtPath(cur, "constraints"), wrote |-> w]
      BY <1>1, <1>3 DEF Record, TypeOK
    <3>2. AtPath(cur, "constraints") \in Content \cup {None}
      BY <1>1, NeededKeys, AtPathType DEF PipelineInv
    <3>3. ran'[cur] \in Run
      BY <3>1, <3>2 DEF Run, TypeOK
    <3> QED BY <3>3, NoneAssumption
  <2>5. StageOf(cur) = "open" /\ EvidenceOf(cur) = "none"
    BY <1>1, <2>1, OpenCall DEF EvidenceOf
  <2>6. \A c \in Calls : EvidenceOf(c) # "none" => StageOf(c) = "closed"
    BY <2>3 DEF EvidenceOf, StageOf
  <2>7. EvidenceOf(cur)' \in {"valid", "invalid"}
    BY <1>1, <2>4 DEF EvidenceOf
  <2>8. \A c \in Calls : /\ c # cur => EvidenceOf(c)' = EvidenceOf(c)
                         /\ StageOf(c)' = StageOf(c) /\ VerdictOf(c)' = VerdictOf(c)
    BY <1>1, <1>n, <2>2, SameCall
  <2> QED BY <1>1, <2>5, <2>6, <2>7, <2>8 DEF Service!Examine
<1> QED BY <1>2, <1>3 DEF RunKlee

\* The third stage loads a program that KLEE found valid, or shows nothing.
LEMMA ConcludeStep ==
  ASSUME TypeOK, VerdictInv, [Next]_vars, req' = req, Conclude
  PROVE  Service!Load(cur) \/ UNCHANGED Service!vars
<1>1. /\ pc = "parse" /\ cur \in Calls /\ UNCHANGED <<client, closed, inbox, ran, cur>>
  BY InnerFrame DEF Conclude, TypeOK
<1>n. \A c \in Calls : New(c)' <=> New(c)
  BY <1>1 DEF New
<1>2. CASE loads' = loads
  BY <1>1, <1>2, <1>n, StutterStep
<1>3. CASE ShouldLoad(cur) /\ loads' = loads \cup {[by |-> cur, object |-> AtPath(cur, "object")]}
  <2>1. Loaded' = Loaded \cup {cur}
    <3>1. \A l \in loads' : l \in loads \/ l.by = cur
      BY <1>3
    <3>2. [by |-> cur, object |-> AtPath(cur, "object")] \in loads'
          /\ [by |-> cur, object |-> AtPath(cur, "object")].by = cur /\ loads \subseteq loads'
      BY <1>3
    <3> QED BY <3>1, <3>2 DEF Loaded
  <2>2. ~closed[cur] /\ ~New(cur)
    BY <1>1 DEF VerdictInv, ConnInv, New
  <2>3. cur \notin Loaded
    BY <1>1, <2>2 DEF VerdictInv, LoadInv, Loaded
  <2>4. ran[cur] # None /\ AllValid(cur)
    <3>1. Examined(cur) /\ Passed(cur)
      BY <1>1, <1>3 DEF VerdictInv, JobInv, ShouldLoad
    <3> QED BY <1>1, <3>1, PassedIsValid DEF Examined
  <2>5. StageOf(cur) = "open" /\ EvidenceOf(cur) = "valid"
    BY <1>1, <2>2, <2>4, OpenCall DEF EvidenceOf, AllValid
  <2>6. \A c \in Calls : /\ StageOf(c)' = StageOf(c) /\ EvidenceOf(c)' = EvidenceOf(c)
                         /\ VerdictOf(c)' = VerdictOf(c)
    BY <1>1, <1>n, SameCall
  <2> QED BY <1>1, <2>1, <2>3, <2>5, <2>6 DEF Service!Load, Loaded
<1>4. CASE ShouldLoad(cur)
  BY <1>2, <1>3, <1>4 DEF Conclude
<1>5. CASE ~ShouldLoad(cur)
  BY <1>2, <1>5 DEF Conclude
<1> QED BY <1>4, <1>5

\* Writing the response is the answer; a client that has gone drops its call.
LEMMA FinishStep ==
  ASSUME TypeOK, ConnInv, req' = req, NEW m \in Response, m # None, Finish(m), cur \in Calls,
         \/ m.status = "error"
         \/ m.status = "success" /\ req[cur].action = "health" /\ ran[cur] = None
         \/ /\ m.status = "success" /\ req[cur].action # "health"
            /\ ran[cur] # None /\ AllValid(cur)
         \/ /\ m.status = "verification_failed" /\ req[cur].action # "health"
            /\ ran[cur] # None /\ ~AllValid(cur)
  PROVE  \/ \E v \in {"alive", "pass", "fail", "error"} : Service!Answer(cur, v)
         \/ Service!Drop({cur})
<1> DEFINE v == IF m.status = "error" THEN "error"
                ELSE IF req[cur].action = "health" THEN "alive"
                ELSE IF m.status = "success" THEN "pass" ELSE "fail"
<1>1. UNCHANGED <<client, ran, loads>>
  BY DEF Finish, Goto, clientVars, ghostVars
<1>n. \A c \in Calls : New(c)' <=> New(c)
  BY <1>1 DEF New
<1>2. ~closed[cur] /\ ~New(cur)
  BY DEF ConnInv, New
<1>3. StageOf(cur) = "open"
  BY <1>2, OpenCall
<1>4. \A c \in Calls : StageOf(c)' = IF c = cur THEN "closed" ELSE StageOf(c)
  <2> SUFFICES ASSUME NEW c \in Calls
               PROVE  StageOf(c)' = IF c = cur THEN "closed" ELSE StageOf(c)
    OBVIOUS
  <2>1. closed'[c] <=> closed[c] \/ c = cur
    BY FinishEffect
  <2>2. CASE c = cur
    BY <2>1, <2>2 DEF StageOf
  <2>3. CASE c # cur
    BY <1>n, <2>1, <2>3, SameCall
  <2> QED BY <2>2, <2>3
<1>5. \A c \in Calls : EvidenceOf(c)' = EvidenceOf(c)
  BY <1>1, SameCall
<1>6. \A c \in Calls : inbox'[c] = IF c = cur /\ client[cur] \in Live THEN m ELSE inbox[c]
  BY FinishEffect
<1>7. CASE client[cur] \notin Live
  <2>1. \A c \in Calls : VerdictOf(c)' = VerdictOf(c)
    BY <1>6, <1>7, SameCall
  <2> QED BY <1>1, <1>3, <1>4, <1>5, <2>1 DEF Service!Drop
<1>8. CASE client[cur] \in Live
  <2>1. \A c \in Calls : c # cur => VerdictOf(c)' = VerdictOf(c)
    BY <1>6, SameCall
  <2>2. \A c \in Calls : c = cur => VerdictOf(c)' = v
    <3> SUFFICES ASSUME NEW c \in Calls, c = cur PROVE VerdictOf(c)' = v
      OBVIOUS
    <3>1. inbox'[c] = m
      BY <1>6, <1>8
    <3> QED BY <3>1 DEF VerdictOf
  <2>3. v \in {"alive", "pass", "fail", "error"}
    OBVIOUS
  <2>4. \/ v = "alive" /\ EvidenceOf(cur) = "none"
        \/ v = "pass" /\ EvidenceOf(cur) = "valid"
        \/ v = "fail" /\ EvidenceOf(cur) = "invalid"
        \/ v = "error"
    BY DEF EvidenceOf, AllValid
  <2> HIDE DEF v
  <2>5. Service!Answer(cur, v)
    BY <1>1, <1>3, <1>4, <1>5, <2>1, <2>2, <2>4 DEF Service!Answer, Service!Justified
  <2> QED BY <2>3, <2>5
<1> QED BY <1>7, <1>8

\* Every step of the daemon and its clients is a step of the service.
LEMMA RefinementStep ==
  ASSUME TypeOK, PipelineInv, AnswerInv, ServiceInv, [Next]_vars
  PROVE  [Service!Next]_(Service!vars)
<1> USE DEF ServiceInv
<1>r. req' = req
  BY ReqFixed
<1>t. client \in [Calls -> ClientStates] /\ ConnInv
  BY DEF TypeOK, ClientStates, VerdictInv
<1>1. ASSUME NEW c \in Calls, Connect(c) PROVE [Service!Next]_(Service!vars)
  BY <1>r, <1>t, <1>1, ConnectStep DEF Service!Next
<1>2. ASSUME UNCHANGED <<client, closed, inbox, ran, loads>> PROVE UNCHANGED Service!vars
  <2>1. \A c \in Calls : New(c)' <=> New(c)
    BY <1>2 DEF New
  <2> QED BY <1>r, <1>2, <2>1, StutterStep
<1>3. ASSUME NEW c \in Calls, Send(c) \/ Receive(c) \/ Abandon(c)
      PROVE  UNCHANGED Service!vars
  <2>1. UNCHANGED <<closed, inbox, ran, loads>>
    BY <1>3 DEF Send, Receive, Abandon, connVars, ghostVars
  <2>2. /\ client[c] \in Live
        /\ \/ client' = client
           \/ \E x \in {"broken", "waiting", "answered", "gone"} :
                client' = [client EXCEPT ![c] = x]
    BY <1>3 DEF Send, Receive, Abandon, Live
  <2>3. \A d \in Calls : New(d)' <=> New(d)
    BY <1>t, <2>2 DEF New, Live
  <2> QED BY <1>r, <2>1, <2>3, StutterStep
<1>4. CASE Start \/ Stop \/ Accept
  BY <1>2, <1>4 DEF Start, Stop, Accept, clientVars, connVars, ghostVars
<1>q. \A c \in Queued : c \in Calls /\ ~closed[c] /\ ~New(c)
  BY <1>t DEF Queued, ConnInv, New, TypeOK
<1>5. CASE Signal
  <2>1. Break(Queued) /\ UNCHANGED <<client, inbox, ran, loads>>
    BY <1>5 DEF Signal, clientVars, ghostVars
  <2>2. Service!Drop(Queued) /\ Queued \in SUBSET Calls
    BY <1>r, <1>q, <2>1, BreakStep
  <2> QED BY <2>2 DEF Service!Next
<1>6. CASE Crash
  <2> DEFINE S == Queued \cup ({cur} \ {None})
  <2>1. Break(S) /\ UNCHANGED <<client, inbox, ran, loads>>
    BY <1>6 DEF Crash, clientVars, ghostVars
  <2>2. \A c \in S : c \in Calls /\ ~closed[c] /\ ~New(c)
    BY <1>q, <1>t DEF ConnInv, New, TypeOK
  <2> HIDE DEF S
  <2>3. Service!Drop(S) /\ S \in SUBSET Calls
    BY <1>r, <2>1, <2>2, BreakStep
  <2> QED BY <2>3 DEF Service!Next
<1>7. CASE ReceiveUnit \/ ReceiveEOF \/ StoreRequest \/ Handle \/ Lift
  <2>1. UNCHANGED <<ran, loads>>
    BY <1>7 DEF ReceiveUnit, ReceiveEOF, StoreRequest, Handle, Lift, ghostVars
  <2> QED BY <1>2, <1>7, <2>1, InnerFrame
<1>8. CASE RunKlee
  <2>1. cur \in Calls
    BY <1>8 DEF RunKlee, TypeOK
  <2>2. \/ \E e \in {"valid", "invalid"} : Service!Examine(cur, e)
        \/ UNCHANGED Service!vars
    BY <1>r, <1>t, <1>8, RunKleeStep
  <2> QED BY <2>1, <2>2 DEF Service!Next
<1>9. CASE Conclude
  <2>1. cur \in Calls
    BY <1>9 DEF Conclude, TypeOK
  <2>2. Service!Load(cur) \/ UNCHANGED Service!vars
    BY <1>r, <1>9, ConcludeStep
  <2>3. ASSUME Service!Load(cur) PROVE Service!Next
    <3>1. \E c \in Calls : Service!Load(c)
      BY <2>1, <2>3 DEF Service!Load
    <3> QED BY ONLY <3>1 DEF Service!Next
  <2> QED BY <2>2, <2>3
<1>10. ASSUME \/ \E v \in {"alive", "pass", "fail", "error"} : Service!Answer(cur, v)
              \/ Service!Drop({cur}),
              cur \in Calls
       PROVE  Service!Next
  BY <1>10 DEF Service!Next
<1>11. CASE Respond
  <2>1. pc = "respond" /\ Finish(resp) /\ cur \in Calls /\ resp \in Response /\ resp # None
    BY <1>11 DEF Respond, TypeOK, AnswerInv, AddressInv
  <2>2. \/ resp.status = "error"
        \/ resp.status = "success" /\ req[cur].action = "health" /\ ran[cur] = None
        \/ /\ resp.status = "success" /\ req[cur].action # "health"
           /\ ran[cur] # None /\ AllValid(cur)
        \/ /\ resp.status = "verification_failed" /\ req[cur].action # "health"
           /\ ran[cur] # None /\ ~AllValid(cur)
    BY <2>1 DEF RespInv
  <2>3. \/ \E v \in {"alive", "pass", "fail", "error"} : Service!Answer(cur, v)
        \/ Service!Drop({cur})
    BY <1>r, <1>t, <2>1, <2>2, FinishStep
  <2> QED BY <1>10, <2>1, <2>3
<1>12. CASE RespondError
  <2> DEFINE m == [id |-> reqId, status |-> "error", code |-> "RECEIVE_ERROR",
                   returnCode |-> 0, retained |-> FALSE]
  <2>1. Finish(m) /\ cur \in Calls
    BY <1>12 DEF RespondError, TypeOK
  <2>2. m \in Response /\ m.status = "error"
    BY DEF TypeOK, Response
  <2> HIDE DEF m
  <2>3. m # None
    BY <2>2, NoneAssumption
  <2>4. \/ \E v \in {"alive", "pass", "fail", "error"} : Service!Answer(cur, v)
        \/ Service!Drop({cur})
    BY <1>r, <1>t, <2>1, <2>2, <2>3, FinishStep
  <2> QED BY <1>10, <2>1, <2>4
<1>13. CASE UNCHANGED vars
  BY <1>2, <1>13 DEF vars
<1> QED
  BY <1>1, <1>3, <1>4, <1>5, <1>6, <1>7, <1>8, <1>9, <1>11, <1>12, <1>13 DEF Next, Serve

\* With unique request ids, the daemon implements the abstract service: calls
\* are examined one at a time and at most once, a program is loaded only after
\* a valid examination of its own, and every answer is one the examination
\* justifies, whatever is queued, cut off, killed or restarted.
THEOREM DaemonImplementsService ==
  ASSUME UniqueIds
  PROVE  Spec => ImplementsService
<1>1. Init => Service!Init
  <2> SUFFICES ASSUME Init PROVE Service!Init
    OBVIOUS
  <2>1. \A c \in Calls : /\ StageOf(c) = "new" /\ EvidenceOf(c) = "none"
                         /\ VerdictOf(c) = "none"
    BY DEF Init, StageOf, EvidenceOf, VerdictOf
  <2>2. loads = {}
    BY DEF Init
  <2> QED BY <2>1, <2>2 DEF Service!Init
<1>2. Init => RanInv /\ RespInv
  BY DEF Init, RanInv, RespInv
<1>3. /\ TypeOK /\ TypeOK' /\ PipelineInv /\ VerdictInv /\ RanInv /\ RespInv /\ [Next]_vars
      => (RanInv /\ RespInv)'
  BY RanStep, RespStep DEF VerdictInv
<1>4. Spec => [](TypeOK /\ PipelineInv) /\ []VerdictInv /\ []AnswerInv
  BY TypedPipeline, VerdictInvariant, AnswerInvariant
<1>5. TypeOK /\ PipelineInv /\ AnswerInv /\ VerdictInv /\ RanInv /\ RespInv /\ [Next]_vars
      => [Service!Next]_(Service!vars)
  BY RefinementStep DEF ServiceInv
<1> QED BY <1>1, <1>2, <1>3, <1>4, <1>5, PTL DEF Spec, ImplementsService, Service!Spec
=============================================================================
