------------------------------ MODULE KrakenGuard ------------------------------
(***************************************************************************)
(* The KrakenGuard verification daemon (daemon/krakenguard.py), the client *)
(* library that talks to it (daemon/draco_client.py), the request          *)
(* directories on disk (daemon/utils.py) and the verification pipeline it  *)
(* drives (daemon/pipeline.py).                                            *)
(*                                                                         *)
(* One element of Calls is one call of a client method (load, verify,      *)
(* verify_cross_program, health): it opens one connection, sends one       *)
(* request and waits for one response.  generateIR.py,                     *)
(* generateCrossProgramIR.py and KLEE are external processes: they may     *)
(* fail, time out, and leave any combination of result files behind.       *)
(***************************************************************************)
EXTENDS Naturals, Sequences, FiniteSets

CONSTANTS
  Calls,        \* client calls, one connection each
  Ids,          \* request ids: names of directories below requests_dir
  IdOf,         \* the id a call sends (uuid4 in the client library)
  Names,        \* base names of uploaded files
  Requests,     \* what a call may ask for, see Request below
  Backlog,      \* length of the queue of connections not accepted yet
  SockBuf,      \* units of data a connection holds that are not read yet
  MaxFaults,    \* bound: crashes and signals
  MaxStarts,    \* bound: starts of the daemon
  None          \* absence of a value

(***************************************************************************)
(* The part of a Request message the daemon's control depends on.  A file  *)
(* is "bytes", "empty" (size 0) or "garbled" (its base64 text does not     *)
(* decode).  header is FALSE for a header that read_message or             *)
(* Request.from_dict rejects.                                              *)
(***************************************************************************)
Keys    == {"object", "object1", "object2", "constraints", "config"}
Actions == {"load", "verify", "cross_program", "health"}
File    == [key : Keys, name : Names, data : {"bytes", "empty", "garbled"}]
Request == [action : Actions, header : BOOLEAN, files : Seq(File),
            loadOptions : BOOLEAN, funcs : BOOLEAN, retain : BOOLEAN]

ASSUME CallAssumption == IdOf \in [Calls -> Ids]
ASSUME RequestAssumption ==
  \A r \in Requests : /\ r \in Request
                      /\ \A i, j \in 1..Len(r.files) :
                           r.files[i].key = r.files[j].key => i = j
ASSUME BoundAssumption ==
  /\ Backlog \in Nat \ {0}
  /\ SockBuf \in Nat \ {0}
  /\ MaxFaults \in Nat
  /\ MaxStarts \in Nat

\* What a stored input file holds: the upload of one key by one call.
Content == [by : Calls, key : Keys]

\* The two files KLEE leaves in the output directory and the daemon reads: each
\* holds the phrase the daemon looks for, or something else.
ResultFiles == {"helperFunc", "mapAccess"}
Texts       == {"valid", "violated"}
Result      == [by : Calls, text : Texts]

Response == [id : Ids \cup {None},
             status : {"success", "verification_failed", "error"},
             code : {"", "RECEIVE_ERROR", "INVALID_REQUEST", "PROCESSING_ERROR"},
             returnCode : {0, 1}, retained : BOOLEAN]

\* A run of KLEE: what it was given, and what it wrote to each result file
\* (None: nothing).
KleeOutput == [ResultFiles -> Texts \cup {None}]
Run        == [ir : SUBSET Content, constraints : Content \cup {None},
               wrote : KleeOutput]

ASSUME NoneAssumption ==
  /\ None \notin Calls
  /\ None \notin Content
  /\ None \notin Texts
  /\ None \notin Result
  /\ None \notin Response
  /\ None \notin Run

VARIABLES
  req,       \* the request of every call
  client,    \* where the client of every call is
  sent,      \* units (header, then one per file) the client has written
  inbox,     \* the response that was written to the connection
  closed,    \* the daemon's end of the connection is closed
  pc,        \* what the daemon's only thread is doing
  running,   \* self.running; the listening socket is open while it is TRUE
  path,      \* the file at socket_path: bound to an open listener or not
  backlog,   \* connections the kernel queues for accept
  cur,       \* the call whose connection _handle_client has
  got,       \* units of cur's request read so far
  reqId,     \* request_id of _handle_client, unset until the request is read
  input,     \* input directory of every id: name -> content
  results,   \* output directory of every id: result files
  dirs,      \* ids whose request directory exists
  ir,        \* contents final_linked_ir.bc of the current request came from
  rc,        \* return code of the current KLEE run
  resp,      \* the response _handle_request returns
  loads,     \* calls of loader.load_program: which call, which object file
  ran,       \* what the KLEE run of each call was given and what it wrote
  cut,       \* connections broken by a crash or by closing the listener
  faults, starts

clientVars == <<client, sent>>
connVars   == <<inbox, closed>>
procVars   == <<running, path, backlog, cut, faults, starts>>
jobVars    == <<reqId, ir, rc, resp>>
diskVars   == <<input, results, dirs>>
ghostVars  == <<loads, ran>>
vars == <<req, client, sent, inbox, closed, pc, running, path, backlog, cur,
          got, reqId, input, results, dirs, ir, rc, resp, loads, ran, cut, faults,
          starts>>

Units(c) == 1 + Len(req[c].files)
Live     == {"sending", "waiting"}

Init ==
  /\ req \in [Calls -> Requests]
  /\ client = [c \in Calls |-> "idle"]
  /\ sent = [c \in Calls |-> 0]
  /\ inbox = [c \in Calls |-> None]
  /\ closed = [c \in Calls |-> FALSE]
  /\ pc = "down"
  /\ running = FALSE
  /\ path = "none"
  /\ backlog = <<>>
  /\ cur = None
  /\ got = 0
  /\ reqId = None
  /\ input = [d \in Ids |-> [n \in Names |-> None]]
  /\ results = [d \in Ids |-> [f \in ResultFiles |-> None]]
  /\ dirs = {}
  /\ ir = {}
  /\ rc = 0
  /\ resp = None
  /\ loads = {}
  /\ ran = [c \in Calls |-> None]
  /\ cut = {}
  /\ faults = 0
  /\ starts = 0

-----------------------------------------------------------------------------
(* The client library.                                                     *)

(***************************************************************************)
(* connect(): the socket file must exist and a listener must be bound to   *)
(* it; connecting to a full queue blocks.                                  *)
(***************************************************************************)
Connect(c) ==
  /\ client[c] = "idle"
  /\ \/ /\ path = "live"
        /\ Len(backlog) < Backlog
        /\ client' = [client EXCEPT ![c] = "sending"]
        /\ backlog' = Append(backlog, c)
     \/ /\ path # "live"
        /\ client' = [client EXCEPT ![c] = "refused"]
        /\ UNCHANGED backlog
  /\ UNCHANGED <<req, sent, connVars, pc, running, path, cut, faults, starts,
                 cur, got, diskVars, jobVars, ghostVars>>

\* Units of c's connection the daemon has read.
Read(c) == IF cur = c THEN got ELSE 0

(***************************************************************************)
(* The header and then the data of every file, each with sendall, which    *)
(* blocks while the connection's buffer is full and raises once the daemon *)
(* has closed its end.                                                     *)
(***************************************************************************)
Send(c) ==
  /\ client[c] = "sending"
  /\ \/ /\ closed[c]
        /\ client' = [client EXCEPT ![c] = "broken"]
        /\ UNCHANGED sent
     \/ /\ ~closed[c]
        /\ sent[c] < Read(c) + SockBuf
        /\ sent' = [sent EXCEPT ![c] = @ + 1]
        /\ client' = IF sent[c] + 1 = Units(c)
                       THEN [client EXCEPT ![c] = "waiting"] ELSE client
  /\ UNCHANGED <<req, connVars, pc, procVars, cur, got, diskVars, jobVars,
                 ghostVars>>

\* _receive(): the response, or ConnectionError at the end of the stream.
Receive(c) ==
  /\ client[c] = "waiting"
  /\ inbox[c] # None \/ closed[c]
  /\ client' = [client EXCEPT ![c] = IF inbox[c] # None THEN "answered"
                                                        ELSE "broken"]
  /\ UNCHANGED <<req, sent, connVars, pc, procVars, cur, got, diskVars,
                 jobVars, ghostVars>>

\* A local file cannot be read, or the client is interrupted: the finally
\* clause of every method disconnects.
Abandon(c) ==
  /\ client[c] \in Live
  /\ client' = [client EXCEPT ![c] = "gone"]
  /\ UNCHANGED <<req, sent, connVars, pc, procVars, cur, got, diskVars,
                 jobVars, ghostVars>>

-----------------------------------------------------------------------------
(* The life of the daemon process.                                         *)

\* start(): an existing socket file is removed, the new one bound.
Start ==
  /\ pc = "down"
  /\ starts < MaxStarts
  /\ pc' = "accept"
  /\ running' = TRUE
  /\ path' = "live"
  /\ starts' = starts + 1
  /\ UNCHANGED <<req, clientVars, connVars, backlog, cut, faults, cur, got,
                 diskVars, jobVars, ghostVars>>

\* The kernel resets the connections of S that the daemon will never serve.
Break(S) ==
  /\ closed' = [c \in Calls |-> closed[c] \/ c \in S]
  /\ cut' = cut \cup S
  /\ backlog' = <<>>

Queued == {backlog[i] : i \in 1..Len(backlog)}

\* _signal_handler: the request in progress is not interrupted.
Signal ==
  /\ running
  /\ faults < MaxFaults
  /\ running' = FALSE
  /\ path' = "stale"
  /\ Break(Queued)
  /\ faults' = faults + 1
  /\ UNCHANGED <<req, clientVars, inbox, pc, starts, cur, got, diskVars,
                 jobVars, ghostVars>>

\* Variant: the handler leaves the listener open, accept() blocks.
StopAfterNextClient ==
  /\ pc = "accept"
  /\ ~running
  /\ backlog # <<>>
  /\ pc' = "down"
  /\ path' = "none"
  /\ UNCHANGED <<req, clientVars, connVars, running, backlog, cut, faults,
                 starts, cur, got, diskVars, jobVars, ghostVars>>

\* accept() on the closed listener raises, the loop ends, stop() runs.
Stop ==
  /\ pc = "accept"
  /\ ~running
  /\ pc' = "down"
  /\ path' = "none"
  /\ UNCHANGED <<req, clientVars, connVars, running, backlog, cut, faults,
                 starts, cur, got, diskVars, jobVars, ghostVars>>

-----------------------------------------------------------------------------
(* Serving one connection: _handle_client.                                 *)

\* The handler moves on; it leaves the clients and the process alone.
Goto(to) ==
  /\ pc' = to
  /\ UNCHANGED <<req, clientVars, procVars>>

\* Variants: the connection, or the request id, outlives the request.
ResetJobKeepsConn ==
  /\ got' = 0
  /\ ir' = {} /\ rc' = 0 /\ resp' = None /\ reqId' = None
  /\ UNCHANGED cur
ResetJobKeepsId ==
  /\ cur' = None
  /\ got' = 0
  /\ ir' = {} /\ rc' = 0 /\ resp' = None
  /\ UNCHANGED reqId

\* The locals of _handle_client go out of scope.
ResetJob ==
  /\ cur' = None
  /\ got' = 0
  /\ reqId' = None
  /\ ir' = {}
  /\ rc' = 0
  /\ resp' = None

Accept ==
  /\ pc = "accept"
  /\ running
  /\ backlog # <<>>
  /\ pc' = "receive"
  /\ cur' = Head(backlog)
  /\ backlog' = Tail(backlog)
  /\ got' = 0
  /\ UNCHANGED <<req, clientVars, connVars, running, path, cut, faults,
                 starts, diskVars, jobVars, ghostVars>>

\* A unit that _receive_request cannot decode: the header, or base64 data.
Unreadable(c, k) ==
  IF k = 1 THEN ~req[c].header ELSE req[c].files[k - 1].data = "garbled"

(***************************************************************************)
(* _receive_request, one unit at a time: recv blocks until data is there;  *)
(* the error path is taken by a unit that cannot be decoded and by the end *)
(* of the stream.  request_id is still unset on that path.                 *)
(***************************************************************************)
ReceiveUnit ==
  /\ pc = "receive"
  /\ got < sent[cur]
  /\ got' = got + 1
  /\ \/ /\ Unreadable(cur, got + 1)
        /\ Goto("error")
        /\ UNCHANGED reqId
     \/ /\ ~Unreadable(cur, got + 1)
        /\ got + 1 < Units(cur)
        /\ Goto("receive")
        /\ UNCHANGED reqId
     \/ /\ ~Unreadable(cur, got + 1)
        /\ got + 1 = Units(cur)
        /\ reqId' = IdOf[cur]
        /\ Goto("store")
  /\ UNCHANGED <<connVars, cur, diskVars, ir, rc, resp, ghostVars>>

\* Variant: an empty chunk is not taken for the end of the stream.
ReceiveEOFRetries ==
  /\ pc = "receive"
  /\ got = sent[cur]
  /\ client[cur] \notin Live
  /\ UNCHANGED vars

ReceiveEOF ==
  /\ pc = "receive"
  /\ got = sent[cur]
  /\ client[cur] \notin Live
  /\ Goto("error")
  /\ UNCHANGED <<connVars, cur, got, diskVars, jobVars, ghostVars>>

\* The input directory after the first k files of c's request are saved: an
\* empty file is not written, a later file replaces an earlier namesake.
Saved(c, k) ==
  [n \in Names |->
     LET writes == {i \in 1..k : /\ req[c].files[i].name = n
                                 /\ req[c].files[i].data # "empty"}
     IN IF writes = {} THEN input[IdOf[c]][n]
        ELSE LET last == CHOOSE i \in writes : \A j \in writes : j <= i
             IN [by |-> c, key |-> req[c].files[last].key]]

\* create_request_directory reuses a directory that exists.
StoreFiles(c, k) ==
  /\ dirs' = dirs \cup {IdOf[c]}
  /\ input' = [input EXCEPT ![IdOf[c]] = Saved(c, k)]

\* create_request_directory and _save_request_files; either may raise half
\* way, on a full disk.
StoreRequest ==
  /\ pc = "store"
  /\ \E k \in 0..Len(req[cur].files) :
       /\ StoreFiles(cur, k)
       /\ \/ k = Len(req[cur].files) /\ Goto("handle")
          \/ Goto("error")
  /\ UNCHANGED <<connVars, cur, got, results, jobVars, ghostVars>>

-----------------------------------------------------------------------------
(* Handling one request: _handle_request and the pipeline.                 *)

KeysOf(c) == {req[c].files[i].key : i \in 1..Len(req[c].files)}

\* os.path.join(input_dir, request.files[key].name)
PathOf(c, key) ==
  LET i == CHOOSE j \in 1..Len(req[c].files) : req[c].files[j].key = key
  IN req[c].files[i].name

\* What the daemon's external tools find when they open that path.
AtPath(c, key) == input[IdOf[c]][PathOf(c, key)]

Objects(c) ==
  IF req[c].action = "cross_program" THEN {"object1", "object2"} ELSE {"object"}

Reply(c, status, code) ==
  [id |-> IdOf[c], status |-> status, code |-> code,
   returnCode |-> IF code = "" THEN rc ELSE 0,
   retained |-> IF req[c].action = "health" THEN FALSE ELSE req[c].retain]

\* The files and options the request must have.
Complete(c) ==
  IF req[c].action = "cross_program"
    THEN Keys \ {"object"} \subseteq KeysOf(c) /\ req[c].funcs
    ELSE {"object", "constraints"} \subseteq KeysOf(c)

(***************************************************************************)
(* The dispatch at the top of _handle_request.  A single-program request   *)
(* without its files raises KeyError outside the try block, so it takes    *)
(* the error path of _handle_client; an incomplete cross-program request   *)
(* is answered INVALID_REQUEST.                                            *)
(***************************************************************************)
Handle ==
  /\ pc = "handle"
  /\ \/ /\ req[cur].action = "health"
        /\ resp' = Reply(cur, "success", "")
        /\ Goto("respond")
     \/ /\ req[cur].action = "cross_program"
        /\ ~Complete(cur)
        /\ resp' = Reply(cur, "error", "INVALID_REQUEST")
        /\ Goto("respond")
     \/ /\ req[cur].action \in {"load", "verify"}
        /\ ~Complete(cur)
        /\ Goto("error")
        /\ UNCHANGED resp
     \/ /\ req[cur].action # "health"
        /\ Complete(cur)
        /\ Goto("lift")
        /\ UNCHANGED resp
  /\ UNCHANGED <<connVars, cur, got, diskVars, reqId, ir, rc, ghostVars>>

\* The except clause around the pipeline.
PipelineError ==
  /\ Goto("respond")
  /\ resp' = Reply(cur, "error", "PROCESSING_ERROR")

(***************************************************************************)
(* run_lifting_pipeline, run_cross_program_pipeline: the script reads the  *)
(* object files by path and writes final_linked_ir.bc; a missing script,   *)
(* object or output and a non-zero exit all raise.                         *)
(***************************************************************************)
Lift ==
  /\ pc = "lift"
  /\ \/ /\ \A k \in Objects(cur) : AtPath(cur, k) # None
        /\ ir' = {AtPath(cur, k) : k \in Objects(cur)}
        /\ Goto("klee")
        /\ UNCHANGED resp
     \/ PipelineError /\ UNCHANGED ir
  /\ UNCHANGED <<connVars, cur, got, diskVars, reqId, rc, ghostVars>>

\* KLEE (external) leaves result files behind; those it does not write keep
\* what the directory held before.
KleeWrites(c, w) ==
  results' = [results EXCEPT ![IdOf[c]] =
                [f \in ResultFiles |->
                   IF w[f] = None THEN @[f] ELSE [by |-> c, text |-> w[f]]]]

\* What KLEE was run on, and what it found.
Record(c, w) ==
  ran' = [ran EXCEPT ![c] = [ir |-> ir, constraints |-> AtPath(c, "constraints"),
                             wrote |-> w]]

(***************************************************************************)
(* run_klee_verification.  A non-zero return code is logged and the        *)
(* results are parsed all the same; a timeout kills KLEE and raises; a     *)
(* missing binary raises before anything ran.                              *)
(***************************************************************************)
RunKlee ==
  /\ pc = "klee"
  /\ \/ \E w \in KleeOutput, code \in {0, 1} :
          /\ KleeWrites(cur, w)
          /\ Record(cur, w)
          /\ rc' = code
          /\ Goto("parse")
          /\ UNCHANGED resp
     \/ \E w \in KleeOutput :
          /\ KleeWrites(cur, w)
          /\ Record(cur, w)
          /\ PipelineError
          /\ UNCHANGED rc
     \/ PipelineError /\ UNCHANGED <<results, ran, rc>>
  /\ UNCHANGED <<connVars, cur, got, input, dirs, reqId, ir, loads>>

\* Variants: a missing file counts as valid, as the initial value of results
\* in parse_verification_results has it; one valid file is enough.
PassedIfMissing(c) ==
  \A f \in ResultFiles :
    results[IdOf[c]][f] # None => results[IdOf[c]][f].text = "valid"
PassedEither(c) ==
  \E f \in ResultFiles :
    /\ results[IdOf[c]][f] # None
    /\ results[IdOf[c]][f].text = "valid"

\* parse_verification_results and is_verification_passed.
Passed(c) ==
  \A f \in ResultFiles :
    /\ results[IdOf[c]][f] # None
    /\ results[IdOf[c]][f].text = "valid"

ShouldLoadUnverified(c) == req[c].action = "load" /\ req[c].loadOptions
ShouldLoad(c) ==
  Passed(c) /\ req[c].action = "load" /\ req[c].loadOptions

(***************************************************************************)
(* The third stage: the verdict, and for a load request that passed the    *)
(* call of loader.load_program with the path of the stored object file.    *)
(* Reading a result file may raise before the load, listing the output     *)
(* directory after it.                                                     *)
(***************************************************************************)
Conclude ==
  /\ pc = "parse"
  /\ \/ PipelineError /\ UNCHANGED loads
     \/ /\ loads' = IF ShouldLoad(cur)
                      THEN loads \cup {[by |-> cur, object |-> AtPath(cur, "object")]}
                      ELSE loads
        /\ \/ /\ Goto("respond")
              /\ resp' = Reply(cur, IF Passed(cur) THEN "success"
                                                   ELSE "verification_failed", "")
           \/ PipelineError
  /\ UNCHANGED <<connVars, cur, got, diskVars, reqId, ir, rc, ran>>

(***************************************************************************)
(* write_message and conn.close().  If the client has gone the write       *)
(* raises, and so does the write of the error response that follows.  The  *)
(* request directory stays, whatever retain_results says.                  *)
(***************************************************************************)
Finish(m) ==
  /\ inbox' = IF client[cur] \in Live THEN [inbox EXCEPT ![cur] = m] ELSE inbox
  /\ closed' = [closed EXCEPT ![cur] = TRUE]
  /\ Goto("accept")
  /\ ResetJob
  /\ UNCHANGED <<diskVars, ghostVars>>

Respond ==
  /\ pc = "respond"
  /\ Finish(resp)

\* Variant: the connection is closed without an error response.
RespondErrorSilent ==
  /\ pc = "error"
  /\ Finish(None)

\* The error response of _handle_client.
RespondError ==
  /\ pc = "error"
  /\ Finish([id |-> reqId, status |-> "error", code |-> "RECEIVE_ERROR",
             returnCode |-> 0, retained |-> FALSE])

-----------------------------------------------------------------------------
(***************************************************************************)
(* The container is killed, and its processes with it: no handler runs,    *)
(* the socket file stays, and so does what the step in progress had        *)
(* written.                                                                *)
(***************************************************************************)
Crash ==
  /\ pc # "down"
  /\ faults < MaxFaults
  /\ pc' = "down"
  /\ running' = FALSE
  /\ path' = "stale"
  /\ Break(Queued \cup ({cur} \ {None}))
  /\ ResetJob
  /\ IF pc = "store" THEN \E k \in 0..Len(req[cur].files) : StoreFiles(cur, k)
                     ELSE UNCHANGED <<input, dirs>>
  /\ IF pc = "klee" THEN \E w \in KleeOutput : KleeWrites(cur, w)
                    ELSE UNCHANGED results
  /\ faults' = faults + 1
  /\ UNCHANGED <<req, clientVars, inbox, starts, ghostVars>>

-----------------------------------------------------------------------------

Serve ==
  \/ Accept \/ ReceiveUnit \/ ReceiveEOF
  \/ StoreRequest \/ Handle
  \/ Lift \/ RunKlee \/ Conclude
  \/ Respond \/ RespondError
  \/ Stop

Next ==
  \/ \E c \in Calls : Connect(c) \/ Send(c) \/ Receive(c) \/ Abandon(c)
  \/ Start
  \/ Signal
  \/ Crash
  \/ Serve

(***************************************************************************)
(* Fairness.  The daemon's thread runs; the lifting scripts end by         *)
(* themselves and KLEE is killed by its timeout; a client of the library   *)
(* writes its whole request and reads the response without pausing.        *)
(***************************************************************************)
Fairness ==
  /\ WF_vars(Serve)
  /\ \A c \in Calls : WF_vars(Send(c)) /\ WF_vars(Receive(c))

Spec     == Init /\ [][Next]_vars
FairSpec == Spec /\ Fairness

-----------------------------------------------------------------------------
(* Properties.                                                             *)

\* Every variable has its type (the locals of _handle_client are only set
\* while a connection is served).
TypeOK ==
  /\ req \in [Calls -> Requests]
  /\ client \in [Calls -> {"idle", "refused", "sending", "waiting", "answered",
                          "broken", "gone"}]
  /\ sent \in [Calls -> Nat]
  /\ inbox \in [Calls -> Response \cup {None}]
  /\ closed \in [Calls -> BOOLEAN]
  /\ pc \in {"down", "accept", "receive", "store", "handle", "lift", "klee",
             "parse", "respond", "error"}
  /\ running \in BOOLEAN
  /\ path \in {"none", "stale", "live"}
  /\ backlog \in Seq(Calls)
  /\ cur \in Calls \cup {None}
  /\ (cur = None) <=> (pc \in {"down", "accept"})
  /\ got \in Nat
  /\ reqId \in Ids \cup {None}
  /\ input \in [Ids -> [Names -> Content \cup {None}]]
  /\ results \in [Ids -> [ResultFiles -> Result \cup {None}]]
  /\ dirs \subseteq Ids
  /\ ir \subseteq Content
  /\ rc \in {0, 1}
  /\ resp \in Response \cup {None}
  /\ loads \subseteq [by : Calls, object : Content \cup {None}]
  /\ ran \in [Calls -> Run \cup {None}]
  /\ cut \subseteq Calls
  /\ faults \in Nat
  /\ starts \in Nat

\* uuid4: no two calls of the client library send the same request_id.
UniqueIds == \A c, d \in Calls : IdOf[c] = IdOf[d] => c = d

\* No two files of c's request have the same base name.
DistinctNames(c) ==
  \A i, j \in 1..Len(req[c].files) :
    req[c].files[i].name = req[c].files[j].name => i = j

\* c's own upload of a file.
Upload(c, key) == [by |-> c, key |-> key]

(***************************************************************************)
(* KLEE ran for c on c's own programs, with c's own constraints (an empty  *)
(* constraints file is not stored: then there are none), and itself wrote  *)
(* both result files with the text that means "valid".                     *)
(***************************************************************************)
OwnProof(c) ==
  /\ ran[c] # None
  /\ ran[c].ir = {Upload(c, k) : k \in Objects(c)}
  /\ ran[c].constraints \in {Upload(c, "constraints"), None}
  /\ \A f \in ResultFiles : ran[c].wrote[f] = "valid"

(***************************************************************************)
(* A call that is answered "success" (other than a health check) was       *)
(* verified by a KLEE run of its own: no file that another request, an     *)
(* earlier crash or an interrupted save left on disk takes part in the     *)
(* verdict (_handle_request, run_klee_verification,                        *)
(* parse_verification_results).  Namesakes within one request are the      *)
(* subject of CrossProgramsKeptApart.                                      *)
(***************************************************************************)
OwnVerdict ==
  \A c \in Calls :
    /\ inbox[c] # None
    /\ inbox[c].status = "success"
    /\ req[c].action # "health"
    /\ DistinctNames(c)
    => OwnProof(c)

(***************************************************************************)
(* loader.load_program is only ever called for a load request whose own    *)
(* proof succeeded, and the object file at the path it is given is, at     *)
(* that moment, still the one KLEE analysed (_handle_request, step 4).     *)
(***************************************************************************)
LoadsWhatWasVerified ==
  \A l \in loads :
    /\ req[l.by].action = "load"
    /\ DistinctNames(l.by) => /\ OwnProof(l.by)
                              /\ l.object = Upload(l.by, "object")

(***************************************************************************)
(* A response reaches the call it answers and names that call's request    *)
(* id; only a response to a request that could not be read has no id       *)
(* (_handle_client, request_id or "").                                     *)
(***************************************************************************)
AnswerIsAddressed ==
  \A c \in Calls :
    inbox[c] # None =>
      \/ inbox[c].id = IdOf[c]
      \/ /\ inbox[c].id = None
         /\ inbox[c].code = "RECEIVE_ERROR"
         /\ \E k \in 1..Units(c) : Unreadable(c, k)

(***************************************************************************)
(* A connection is only lost without an answer when the daemon was killed  *)
(* or its listener closed before the connection was accepted; a client     *)
(* that is still writing when its request turns out unreadable finds the   *)
(* connection closed, but an answer was written to it.  In particular a    *)
(* request in progress at SIGTERM is answered (_signal_handler).           *)
(***************************************************************************)
OnlyShutdownLosesCalls ==
  \A c \in Calls :
    client[c] = "broken" => (c \in cut /\ c # cur) \/ inbox[c] # None

\* Every call that got a connection ends, with an answer or an exception.
CallEnds ==
  \A c \in Calls : client[c] \in Live ~> client[c] \notin Live

\* After SIGTERM the daemon exits, even with a request in progress.
ShutdownCompletes == (~running /\ pc # "down") ~> pc = "down"

-----------------------------------------------------------------------------
(* What the documentation says and the code does not do.                   *)

\* verify_cross_program's docstring: two programs are linked for analysis.
CrossProgramsKeptApart ==
  \A c \in Calls : ran[c] # None /\ req[c].action = "cross_program"
                     => Cardinality(ran[c].ir) = 2
=============================================================================
