------------------------------ MODULE ClamBridge ------------------------------
(***************************************************************************)
(* ClamBridgePass (lifting_tools/llvm_clam_bridge/clam_bridge.cpp), which  *)
(* hands the invariants the abstract interpreter Clam has inserted to KLEE *)
(* as assumptions, and InternalToExternal (llvm_ext_sym_pass/              *)
(* ext_sym_pass.cpp), which gives the functions of the generated harness   *)
(* external linkage so that it links with the lifted program.              *)
(***************************************************************************)
EXTENDS Naturals, SequencesExt

CONSTANTS
  BridgeModules,  \* modules: a sequence of calls, and the linkage of functions
  OnlyTagged      \* -clam-bridge-only-tagged

\* A call: who is called, the metadata, the operands and the condition.
ASSUME BridgeAssumption ==
  \A m \in BridgeModules :
    /\ m.calls \in Seq(Range(m.calls))
    /\ \A i \in DOMAIN m.calls : DOMAIN m.calls[i] = {"callee", "tagged", "args", "boolean", "cond"}

VARIABLES
  bmod,       \* the module as it was
  insts, linkage,
  toErase, bnext, bphase
bvars == <<insts, linkage, toErase, bnext, bphase, bmod>>

isAssumeLike(c) == c.callee \in {"verifier.assume", "llvm.assume"}
Bridged(c) ==
  /\ isAssumeLike(c)
  /\ OnlyTagged => c.tagged
  /\ c.args = 1 /\ c.boolean
kleeAssume(c) == [c EXCEPT !.callee = "klee_assume", !.boolean = FALSE]

\* Mutant: a constant condition is trivial, whatever its value.
Trivial_constant(c) == c.cond \in {"true", "false"}
Trivial(c) == c.cond = "true"

\* One call of the scan: a klee_assume goes in front of the old call, which
\* stays until the scan is over.
BridgeCall ==
  /\ bphase = "scan" /\ bnext <= Len(insts)
  /\ LET c == insts[bnext]
     IN  IF ~Bridged(c)
         THEN bnext' = bnext + 1 /\ UNCHANGED <<insts, toErase>>
         ELSE IF Trivial(c)
         THEN toErase' = toErase \cup {bnext} /\ bnext' = bnext + 1 /\ UNCHANGED insts
         ELSE /\ insts' = SubSeq(insts, 1, bnext - 1) \o <<kleeAssume(c)>> \o SubSeq(insts, bnext, Len(insts))
              /\ toErase' = toErase \cup {bnext + 1}
              /\ bnext' = bnext + 2
  /\ UNCHANGED <<linkage, bphase, bmod>>
\* The elements of s that are not erased.
Kept(s, erased) == FlattenSeq([i \in DOMAIN s |-> IF i \in erased THEN << >> ELSE <<s[i]>>])
Left == Kept(insts, toErase)
\* The old calls go, and the declaration of verifier.assume with its last use.
BridgeErase ==
  /\ bphase = "scan" /\ bnext > Len(insts)
  /\ insts' = Left
  /\ linkage' = IF \E i \in DOMAIN Left : Left[i].callee = "verifier.assume" THEN linkage
                ELSE [f \in DOMAIN linkage \ {"verifier.assume"} |-> linkage[f]]
  /\ bphase' = "link"
  /\ UNCHANGED <<toErase, bnext, bmod>>
InternalToExternal ==
  /\ bphase = "link"
  /\ linkage' = [f \in DOMAIN linkage |-> "external"]
  /\ bphase' = "done"
  /\ UNCHANGED <<insts, toErase, bnext, bmod>>

BridgeInit ==
  /\ bmod \in BridgeModules
  /\ insts = bmod.calls
  /\ linkage = bmod.linkage
  /\ toErase = {} /\ bnext = 1 /\ bphase = "scan"
BridgeNext == BridgeCall \/ BridgeErase \/ InternalToExternal
BridgeSpec == BridgeInit /\ [][BridgeNext]_bvars

-----------------------------------------------------------------------------
(* Properties.                                                             *)

\* What KLEE is told to assume by the calls of s, in their order.
KleeConds(s) == FlattenSeq([i \in DOMAIN s |-> IF s[i].callee = "klee_assume" THEN <<s[i].cond>> ELSE << >>])
\* What it should be told of the calls there were: what it was told already,
\* and what Clam has proved and is not a tautology.
ToAssume(c) ==
  \/ c.callee = "klee_assume"
  \/ c.callee \in {"verifier.assume", "llvm.assume"} /\ (c.tagged \/ ~OnlyTagged)
       /\ c.args = 1 /\ c.boolean /\ c.cond # "true"
ProvedConds(s) == FlattenSeq([i \in DOMAIN s |-> IF ToAssume(s[i]) THEN <<s[i].cond>> ELSE << >>])
(***************************************************************************)
(* KLEE assumes what Clam has proved, no more and no less, in the order of *)
(* the program: an assumption lost makes a proof of the rewritten program  *)
(* fail, one added makes it worthless.                                     *)
(***************************************************************************)
AssumesWhatClamProved == bphase # "scan" => KleeConds(insts) = ProvedConds(bmod.calls)
=============================================================================
