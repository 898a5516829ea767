------------------------------ MODULE PolicyPrune ------------------------------
(***************************************************************************)
(* PolicyPrunePass::run (lifting_tools/llvm_policy_pass/policy_pass.cpp):  *)
(* the pass that empties the functions the policy does not need before     *)
(* KLEE explores the linked module.                                        *)
(*                                                                         *)
(* An LLVM module is abstracted to its call graph and to what the          *)
(* instruction scan finds.  The two fixpoint loops sweep over the call     *)
(* graph in the order of a map keyed by pointers, so every order is        *)
(* allowed.                                                                *)
(***************************************************************************)
EXTENDS FiniteSets

CONSTANTS
  Funcs,     \* functions of the linked module
  Modules,   \* the modules considered, see Module below
  None

(***************************************************************************)
(* defined   functions with a body                                         *)
(* calls     direct calls, caller first: all the CallGraph shows           *)
(* indirect  functions that contain a call through a pointer               *)
(* taken     functions for which hasAddressTaken() holds                   *)
(* entry     the function named by the spec, or the first one with a body  *)
(*           and no reserved or helper name (None if there is none)        *)
(* hits      functions in which the scan finds a call of a helper the spec *)
(*           names, a load or store through a map global it names, or a    *)
(*           load or store through a packet pointer                        *)
(* helpers   functions named like a helper of the spec                     *)
(* reserved  functions whose name starts with klee_ or llvm.               *)
(***************************************************************************)
Module ==
  [defined : SUBSET Funcs, calls : SUBSET (Funcs \X Funcs),
   indirect : SUBSET Funcs, taken : SUBSET Funcs, entry : Funcs \cup {None},
   hits : SUBSET Funcs, helpers : SUBSET Funcs, reserved : SUBSET Funcs]

\* A function without a body has no instructions.
ASSUME ModuleAssumption ==
  \A m \in Modules :
    /\ m \in Module
    /\ m.hits \subseteq m.defined
    /\ m.indirect \subseteq m.defined
    /\ \A e \in m.calls : e[1] \in m.defined
ASSUME NoneAssumption == None \notin Funcs

VARIABLES
  mod,        \* the module; the pass does not change its call graph
  phase,      \* the loop that is running
  relevant,
  todo,       \* call-graph nodes the current sweep has still to visit
  changed,
  stubbed     \* functions whose body was replaced by ret undef

vars == <<mod, phase, relevant, todo, changed, stubbed>>

Callees(f) == {g \in Funcs : <<f, g>> \in mod.calls}

Directly == mod.hits \cup ({mod.entry} \ {None})

Init ==
  /\ mod \in Modules
  /\ phase = "up"
  /\ relevant = mod.hits \cup ({mod.entry} \ {None})
  /\ todo = Funcs
  /\ changed = FALSE
  /\ stubbed = {}

\* Mutant: one upward sweep, as if callers always came after their callees.
EndSweepOnce(p, q) ==
  /\ phase = p
  /\ todo = {}
  /\ changed' = FALSE
  /\ phase' = IF changed /\ p = "down" THEN p ELSE q
  /\ todo' = Funcs
  /\ UNCHANGED <<mod, relevant, stubbed>>

\* The end of a sweep of loop p: again if it changed something, else on to q.
EndSweep(p, q) ==
  /\ phase = p
  /\ todo = {}
  /\ changed' = FALSE
  /\ phase' = IF changed THEN p ELSE q
  /\ todo' = Funcs
  /\ UNCHANGED <<mod, relevant, stubbed>>

\* Mutant: a visit that adds nothing counts as a change.
VisitUpAlwaysChanged(f) ==
  /\ phase = "up"
  /\ f \in todo
  /\ todo' = todo \ {f}
  /\ changed' = TRUE
  /\ relevant' = IF f \in mod.defined /\ Callees(f) \cap relevant # {}
                   THEN relevant \cup {f} ELSE relevant
  /\ UNCHANGED <<mod, phase, stubbed>>

(***************************************************************************)
(* Upward closure: a function with a body that directly calls a relevant   *)
(* function becomes relevant.                                              *)
(***************************************************************************)
VisitUp(f) ==
  /\ phase = "up"
  /\ f \in todo
  /\ todo' = todo \ {f}
  /\ IF f \in mod.defined \ relevant /\ Callees(f) \cap relevant # {}
       THEN relevant' = relevant \cup {f} /\ changed' = TRUE
       ELSE UNCHANGED <<relevant, changed>>
  /\ UNCHANGED <<mod, phase, stubbed>>

\* Mutant: functions that are only reachable through a pointer are left out.
MarkAddressTakenNot ==
  /\ phase = "taken"
  /\ phase' = "helpers"
  /\ UNCHANGED <<mod, relevant, todo, changed, stubbed>>

MarkAddressTaken ==
  /\ phase = "taken"
  /\ relevant' = relevant \cup (mod.taken \cap mod.defined)
  /\ phase' = "helpers"
  /\ UNCHANGED <<mod, todo, changed, stubbed>>

MarkHelpers ==
  /\ phase = "helpers"
  /\ relevant' = relevant \cup (mod.helpers \cap mod.defined)
  /\ phase' = "down"
  /\ UNCHANGED <<mod, todo, changed, stubbed>>

\* Mutant: both closures in one loop, so that the callers of helper
\* implementations are kept as well.
VisitBothWays(f) ==
  /\ phase = "down"
  /\ f \in todo
  /\ todo' = todo \ {f}
  /\ LET new == IF f \in relevant THEN (Callees(f) \cap mod.defined) \ relevant
                ELSE IF f \in mod.defined /\ Callees(f) \cap relevant # {} THEN {f} ELSE {}
     IN /\ relevant' = relevant \cup new
        /\ changed' = (changed \/ new # {})
  /\ UNCHANGED <<mod, phase, stubbed>>

\* Downward closure: the callees of a relevant function keep their bodies.
VisitDown(f) ==
  /\ phase = "down"
  /\ f \in todo
  /\ todo' = todo \ {f}
  /\ LET new == IF f \in relevant THEN (Callees(f) \cap mod.defined) \ relevant
                                  ELSE {}
     IN /\ relevant' = relevant \cup new
        /\ changed' = (changed \/ new # {})
  /\ UNCHANGED <<mod, phase, stubbed>>

\* Mutant: declarations are given a body too.
StubDeclarations ==
  /\ phase = "stub"
  /\ stubbed' = Funcs \ (mod.reserved \cup relevant)
  /\ phase' = "done"
  /\ UNCHANGED <<mod, relevant, todo, changed>>

Stub ==
  /\ phase = "stub"
  /\ stubbed' = mod.defined \ (mod.reserved \cup relevant)
  /\ phase' = "done"
  /\ UNCHANGED <<mod, relevant, todo, changed>>

Next ==
  \/ \E f \in Funcs : VisitUp(f) \/ VisitDown(f)
  \/ EndSweep("up", "taken")
  \/ MarkAddressTaken
  \/ MarkHelpers
  \/ EndSweep("down", "stub")
  \/ Stub

Spec == Init /\ [][Next]_vars

-----------------------------------------------------------------------------
(* Properties.                                                             *)

\* Every variable has its type.
TypeOK ==
  /\ mod \in Module
  /\ phase \in {"up", "taken", "helpers", "down", "stub", "done"}
  /\ relevant \subseteq Funcs
  /\ todo \subseteq Funcs
  /\ changed \in BOOLEAN
  /\ stubbed \subseteq mod.defined

\* The calls an execution can make: direct ones, and from a call through a
\* pointer to any function whose address is taken.
MayCall(f) ==
  Callees(f) \cup (IF f \in mod.indirect THEN mod.taken ELSE {})

ClosedUnder(S, Succ(_)) == \A f \in S : Succ(f) \subseteq S

\* The functions an execution that starts in f may enter.
Reach(f) ==
  {g \in Funcs : \A S \in SUBSET Funcs :
                   f \in S /\ ClosedUnder(S, MayCall) => g \in S}

(***************************************************************************)
(* The pass never removes code KLEE would have run: if the function KLEE   *)
(* starts in is relevant, no function an execution from there may enter,   *)
(* directly or through a pointer, has lost its body (the downward closure  *)
(* and the address-taken rule together; neither is enough).                *)
(***************************************************************************)
KeepsWhatRuns ==
  phase = "done" =>
    \A root \in relevant : Reach(root) \cap stubbed = {}

(***************************************************************************)
(* A function that reaches a policy-relevant operation by direct calls is  *)
(* itself kept, so that main is, whenever it calls the program under test. *)
(***************************************************************************)
KeepsDirectCallers ==
  phase = "done" =>
    \A f \in mod.defined :
      (\A S \in SUBSET Funcs :
         f \in S /\ ClosedUnder(S, Callees) => S \cap Directly # {})
      => f \notin stubbed

\* The sets the two loops compute, by definition rather than by iteration.
UpClosed(S) ==
  /\ Directly \subseteq S
  /\ \A f \in mod.defined : Callees(f) \cap S # {} => f \in S
Up == {f \in Funcs : \A S \in SUBSET Funcs : UpClosed(S) => f \in S}

Seed == Up \cup ((mod.taken \cup mod.helpers) \cap mod.defined)
DownClosed(S) ==
  /\ Seed \subseteq S
  /\ \A f \in S : Callees(f) \cap mod.defined \subseteq S
Down == {f \in Funcs : \A S \in SUBSET Funcs : DownClosed(S) => f \in S}

(***************************************************************************)
(* What is kept does not depend on the order in which std::map happens to  *)
(* hold the pointers: the two loops end in the least fixpoints, so nothing *)
(* is kept that the rules of the pass do not ask for.                      *)
(***************************************************************************)
OrderIndependent ==
  phase = "done" => /\ relevant = Down
                    /\ stubbed = mod.defined \ (mod.reserved \cup Down)

=============================================================================
