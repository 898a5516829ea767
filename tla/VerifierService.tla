---------------------------- MODULE VerifierService ----------------------------
(***************************************************************************)
(* What the daemon promises its clients, without sockets, directories or   *)
(* tools: a call is opened, at most once examined, at most once answered,  *)
(* and its answer follows from its own examination; a program is loaded    *)
(* only on a valid examination; calls are examined one at a time           *)
(* (daemon/README.md: "One request at a time").                            *)
(***************************************************************************)
CONSTANT Calls

VARIABLES
  stage,      \* "new", "open", "closed"
  evidence,   \* "none" until examined, then "valid" or "invalid"
  verdict,    \* "none" until answered
  loaded      \* calls whose program was handed to the loader

vars == <<stage, evidence, verdict, loaded>>

Init ==
  /\ stage = [c \in Calls |-> "new"]
  /\ evidence = [c \in Calls |-> "none"]
  /\ verdict = [c \in Calls |-> "none"]
  /\ loaded = {}

Open(c) ==
  /\ stage[c] = "new"
  /\ stage' = [stage EXCEPT ![c] = "open"]
  /\ UNCHANGED <<evidence, verdict, loaded>>

Examine(c, e) ==
  /\ stage[c] = "open"
  /\ evidence[c] = "none"
  /\ \A d \in Calls : evidence[d] # "none" => stage[d] = "closed"
  /\ evidence' = [evidence EXCEPT ![c] = e]
  /\ UNCHANGED <<stage, verdict, loaded>>

Load(c) ==
  /\ stage[c] = "open"
  /\ evidence[c] = "valid"
  /\ c \notin loaded
  /\ loaded' = loaded \cup {c}
  /\ UNCHANGED <<stage, evidence, verdict>>

\* The answers an examination justifies: a health check has none, and
\* anything may end in an error.
Justified(c, v) ==
  \/ v = "alive" /\ evidence[c] = "none"
  \/ v = "pass" /\ evidence[c] = "valid"
  \/ v = "fail" /\ evidence[c] = "invalid"
  \/ v = "error"

Answer(c, v) ==
  /\ stage[c] = "open"
  /\ Justified(c, v)
  /\ stage' = [stage EXCEPT ![c] = "closed"]
  /\ verdict' = [verdict EXCEPT ![c] = v]
  /\ UNCHANGED <<evidence, loaded>>

\* Connections that end without an answer, several at once when the daemon
\* goes down.
Drop(S) ==
  /\ \A c \in S : stage[c] = "open"
  /\ stage' = [c \in Calls |-> IF c \in S THEN "closed" ELSE stage[c]]
  /\ UNCHANGED <<evidence, verdict, loaded>>

Next ==
  \/ \E c \in Calls :
       \/ Open(c)
       \/ \E e \in {"valid", "invalid"} : Examine(c, e)
       \/ Load(c)
       \/ \E v \in {"alive", "pass", "fail", "error"} : Answer(c, v)
  \/ \E S \in SUBSET Calls : Drop(S)

Spec == Init /\ [][Next]_vars
=============================================================================
