----------------------------- MODULE MCKrakenGuard -----------------------------
(* Small instances of KrakenGuard for TLC.                                 *)
EXTENDS KrakenGuardRefinement

CONSTANTS o, p, k, q   \* base names: two object files, constraints, config

F(key, name, data) == [key |-> key, name |-> name, data |-> data]
R(action, files) ==
  [action |-> action, header |-> TRUE, files |-> files, loadOptions |-> TRUE,
   funcs |-> TRUE, retain |-> TRUE]

Object      == F("object", o, "bytes")
Constraints == F("constraints", k, "bytes")

\* The requests the client library builds.
LoadR    == R("load", <<Object, Constraints>>)
VerifyR  == R("verify", <<Object, Constraints>>)
HealthR  == R("health", <<>>)
CrossR   == R("cross_program", <<F("object1", o, "bytes"), F("object2", p, "bytes"),
                                 Constraints, F("config", q, "bytes")>>)

\* Both objects come from files with the same base name.
CrossNamesakes ==
  [CrossR EXCEPT !.files[2] = F("object2", o, "bytes")]

AllRequests == {
  LoadR, HealthR, CrossR, CrossNamesakes,
  [LoadR EXCEPT !.loadOptions = FALSE],
  [VerifyR EXCEPT !.retain = FALSE],
  R("verify", <<F("object", o, "empty"), Constraints>>),
  R("verify", <<Object, F("constraints", k, "empty")>>),
  R("verify", <<F("object", o, "garbled"), Constraints>>),
  R("verify", <<Constraints>>),
  [VerifyR EXCEPT !.header = FALSE],
  [CrossR EXCEPT !.funcs = FALSE],
  R("cross_program", <<F("object1", o, "bytes"), Constraints>>),
  [CrossR EXCEPT !.files[4] = F("config", q, "empty")]}

MixedRequests   == {LoadR, R("verify", <<Object, F("constraints", k, "garbled")>>)}
CrossOnly       == {CrossNamesakes}

DaemonRequests == AllRequests \cup MixedRequests
(***************************************************************************)
(* Two calls meet over requests that differ in their constraints; every    *)
(* other kind of request is asked by one call, over one more crash and one *)
(* more start, next to a call that never connects.                         *)
(***************************************************************************)
Silent == CHOOSE c \in Calls : TRUE
Alone == req[Silent] = HealthR
MCInit ==
  /\ Init
  /\ Alone \/ \A c \in Calls : req[c] \in MixedRequests
MCNext ==
  /\ Next
  /\ Alone => client'[Silent] = "idle"
  /\ ~Alone => faults' < MaxFaults /\ starts' < MaxStarts
MCFairSpec == MCInit /\ [][MCNext]_vars /\ Fairness

\* uuid4 gives every call an id of its own.
OwnIds == [c \in Calls |-> c]
=============================================================================
