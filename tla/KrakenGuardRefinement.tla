------------------------- MODULE KrakenGuardRefinement -------------------------
(***************************************************************************)
(* The daemon implements VerifierService.  A call is open while the daemon *)
(* or the kernel's accept queue holds its connection, whether or not the   *)
(* client is still there.                                                  *)
(***************************************************************************)
EXTENDS KrakenGuard

StageOf(c) ==
  IF closed[c] THEN "closed"
  ELSE IF client[c] \in {"idle", "refused"} THEN "new" ELSE "open"

EvidenceOf(c) ==
  IF ran[c] = None THEN "none"
  ELSE IF \A f \in ResultFiles : ran[c].wrote[f] = "valid" THEN "valid"
  ELSE "invalid"

VerdictOf(c) ==
  IF inbox[c] = None THEN "none"
  ELSE IF inbox[c].status = "error" THEN "error"
  ELSE IF req[c].action = "health" THEN "alive"
  ELSE IF inbox[c].status = "success" THEN "pass"
  ELSE "fail"

Service == INSTANCE VerifierService WITH
  stage    <- [c \in Calls |-> StageOf(c)],
  evidence <- [c \in Calls |-> EvidenceOf(c)],
  verdict  <- [c \in Calls |-> VerdictOf(c)],
  loaded   <- {l.by : l \in loads}

(***************************************************************************)
(* Every behaviour of the daemon and its clients is one of the abstract    *)
(* service: one examination at a time, at most one answer per call, and    *)
(* never an answer the call's own examination does not justify.            *)
(***************************************************************************)
ImplementsService == Service!Spec
=============================================================================
