-------------------------------- MODULE AutoStub --------------------------------
(***************************************************************************)
(* The stub search of lifting_tools/summarizer/auto_stub.py: run KLEE on   *)
(* the module as it is and, if that struggles, on one variant per          *)
(* candidate function in which a generated stub replaces the function.     *)
(* detect.py, summarize.py, clang, llvm-link and KLEE are other processes. *)
(*                                                                         *)
(* The module under test may change between invocations, and a work        *)
(* directory given with --work-dir outlives an invocation, so every file   *)
(* is tagged with the invocation whose input it was made from (0: there is *)
(* no such file).                                                          *)
(***************************************************************************)
EXTENDS Naturals, Sequences

CONSTANTS
  Funcs,           \* functions detect.py may name
  Mapped,          \* those with a source_map.json entry whose source exists
  Rankings,        \* candidate lists, cut to --max-candidates
  PathThreshold,   \* --path-threshold
  MaxPaths,        \* bound: completed paths of a KLEE run
  MaxRuns,         \* bound: invocations
  None

ASSUME ConstAssumption ==
  /\ Mapped \subseteq Funcs
  /\ Rankings \subseteq Seq(Funcs)
  /\ PathThreshold \in Nat
  /\ MaxPaths \in Nat
  /\ MaxRuns \in Nat

Verdicts   == {"SAFE", "UNSAFE", "TIMEOUT", "UNKNOWN"}
KleeResult == [verdict : Verdicts, paths : 0..MaxPaths, of : 0..MaxRuns]

\* What messages.txt tells: that the time was up (whatever else it says), that
\* an assertion failed, nothing of the kind, or it is not there.
Messages == {"HaltTimer", "FAIL", "plain", "absent"}

\* The output directory of a KLEE run, as far as it is parsed.
KleeDir == [msgs : Messages, paths : 0..MaxPaths, of : 0..MaxRuns]

ASSUME NoneAssumption ==
  /\ None \notin Funcs
  /\ None \notin KleeResult
  /\ None \notin KleeDir
  /\ None \notin {0, 1}

VARIABLES
  run,        \* number of the invocation
  phase,
  kept,       \* the work directory was given with --work-dir
  cands,      \* candidates, by score
  i,          \* the candidate being tried
  baseline,   \* result of phase 1
  stubC,      \* <func>_stub.c
  stubBc,     \* <func>_stub.bc
  variant,    \* variant_<func>.bc
  kleeDir,    \* klee_stub_<func>
  accepted,
  code,       \* exit code of the invocation
  reported    \* the function whose variant the summary names

files == <<stubC, stubBc, variant, kleeDir>>
vars == <<run, phase, kept, cands, i, baseline, stubC, stubBc, variant, kleeDir,
          accepted, code, reported>>

NoFile == [f \in Funcs |-> 0]
NoDir  == [f \in Funcs |-> None]

Init ==
  /\ run = 0
  /\ phase = "exited"
  /\ kept = FALSE
  /\ cands = <<>>
  /\ i = 1
  /\ baseline = None
  /\ stubC = NoFile
  /\ stubBc = NoFile
  /\ variant = NoFile
  /\ kleeDir = NoDir
  /\ accepted = <<>>
  /\ code = None
  /\ reported = None

(***************************************************************************)
(* main and phase 0.  The work directory is the one used before, or a new  *)
(* temporary one; the temporary ones of earlier invocations are gone.      *)
(***************************************************************************)
Begin ==
  /\ phase = "exited"
  /\ run < MaxRuns
  /\ run' = run + 1
  /\ phase' = "baseline"
  /\ kept' \in BOOLEAN
  /\ cands' \in Rankings
  /\ i' = 1
  /\ baseline' = None
  /\ IF kept' THEN UNCHANGED files
     ELSE /\ stubC' = NoFile
          /\ stubBc' = NoFile
          /\ variant' = NoFile
          /\ kleeDir' = NoDir
  /\ accepted' = <<>>
  /\ code' = None
  /\ reported' = None

\* The verdict _run_klee reads off messages.txt, the return code and the
\* output of KLEE.
Verdict(msgs, rc, done) ==
  CASE msgs = "HaltTimer" -> "TIMEOUT"
    [] msgs = "FAIL"      -> "UNSAFE"
    [] msgs = "plain"     -> IF rc = 0 \/ done THEN "SAFE" ELSE "UNKNOWN"
    [] msgs = "absent"    -> IF rc = 0 THEN "SAFE" ELSE "UNKNOWN"

\* The finally clause: a temporary work directory is removed.
Exit(c) ==
  /\ phase' = "exited"
  /\ code' = c
  /\ IF kept THEN UNCHANGED files
     ELSE /\ stubC' = NoFile
          /\ stubBc' = NoFile
          /\ variant' = NoFile
          /\ kleeDir' = NoDir

(***************************************************************************)
(* Phase 1.  klee_baseline is emptied first, like every output directory,  *)
(* and read only here.                                                     *)
(***************************************************************************)
Baseline ==
  /\ phase = "baseline"
  /\ \E msgs \in Messages, rc \in {0, 1}, done \in BOOLEAN, n \in 0..MaxPaths :
       LET b == [verdict |-> Verdict(msgs, rc, done), paths |-> n, of |-> run]
       IN /\ baseline' = b
          /\ \/ /\ b.verdict # "TIMEOUT"
                /\ n <= PathThreshold
                /\ Exit(0)
             \/ /\ b.verdict = "TIMEOUT" \/ n > PathThreshold
                /\ cands = <<>>
                /\ Exit(1)
             \/ /\ b.verdict = "TIMEOUT" \/ n > PathThreshold
                /\ cands # <<>>
                /\ phase' = "try"
                /\ UNCHANGED <<code, files>>
  /\ UNCHANGED <<run, kept, cands, i, accepted, reported>>

\* The function of the current candidate.
Func == cands[i]

\* Variant: the loop index advances, the steps of the old candidate go on.
ContinueInPlace ==
  /\ i' = i + 1
  /\ UNCHANGED phase

\* continue: the next candidate.
Continue ==
  /\ phase' = "try"
  /\ i' = i + 1

\* The step keeps everything but the loop position and some files.
Keep == UNCHANGED <<run, kept, cands, baseline, accepted, code, reported>>

\* The candidate has no source, or summarize.py fails and writes nothing.
Skip ==
  /\ phase = "try"
  /\ i <= Len(cands)
  /\ Continue
  /\ Keep /\ UNCHANGED files

Summarize ==
  /\ phase = "try"
  /\ i <= Len(cands)
  /\ Func \in Mapped
  /\ stubC' = [stubC EXCEPT ![Func] = run]
  /\ phase' = "compile"
  /\ UNCHANGED <<i, stubBc, variant, kleeDir>> /\ Keep

Compile ==
  /\ phase = "compile"
  /\ \/ /\ stubBc' = [stubBc EXCEPT ![Func] = stubC[Func]]
        /\ phase' = "link"
        /\ UNCHANGED i
     \/ Continue /\ UNCHANGED stubBc
  /\ UNCHANGED <<stubC, variant, kleeDir>> /\ Keep

\* Variant: the return code of llvm-link is not looked at.
LinkUnchecked ==
  /\ phase = "link"
  /\ variant' \in {variant, [variant EXCEPT ![Func] = stubBc[Func]]}
  /\ phase' = "verify"
  /\ UNCHANGED <<i, stubC, stubBc, kleeDir>> /\ Keep

Link ==
  /\ phase = "link"
  /\ \/ /\ variant' = [variant EXCEPT ![Func] = stubBc[Func]]
        /\ phase' = "verify"
        /\ UNCHANGED i
     \/ Continue /\ UNCHANGED variant
  /\ UNCHANGED <<stubC, stubBc, kleeDir>> /\ Keep

\* Variant: a stub that times out like the baseline is accepted for its paths.
IsImprovementTimeout(b, s) ==
  \/ b.verdict = "TIMEOUT" /\ (s.verdict # "TIMEOUT" \/ s.paths < b.paths)
  \/ /\ b.verdict # "TIMEOUT"
     /\ ~(b.verdict = "SAFE" /\ s.verdict = "UNSAFE")
     /\ s.paths < b.paths

\* _is_improvement
IsImprovement(b, s) ==
  \/ b.verdict = "TIMEOUT" /\ s.verdict # "TIMEOUT"
  \/ /\ b.verdict # "TIMEOUT"
     /\ ~(b.verdict = "SAFE" /\ s.verdict = "UNSAFE")
     /\ s.paths < b.paths

\* Steps 2d and 2e: the result of the run is judged and the loop goes on.
Judge(s) ==
  /\ accepted' = IF IsImprovement(baseline, s)
                   THEN Append(accepted, [func |-> Func, result |-> s])
                   ELSE accepted
  /\ Continue
  /\ UNCHANGED <<run, kept, cands, baseline, code, reported, stubC, stubBc, variant>>

\* Variant: an output directory that exists is left there, and KLEE refuses
\* to run: the files of the run before are parsed.
VerifyOverOldOutput ==
  /\ phase = "verify"
  /\ \/ /\ kleeDir[Func] # None
        /\ UNCHANGED kleeDir
        /\ Judge([verdict |-> Verdict(kleeDir[Func].msgs, 1, FALSE),
                  paths |-> kleeDir[Func].paths, of |-> kleeDir[Func].of])
     \/ \E msgs \in Messages, rc \in {0, 1}, done \in BOOLEAN, n \in 0..MaxPaths :
          /\ kleeDir[Func] = None
          /\ kleeDir' = [kleeDir EXCEPT ![Func] =
                           [msgs |-> msgs, paths |-> n, of |-> variant[Func]]]
          /\ Judge([verdict |-> Verdict(msgs, rc, done), paths |-> n,
                    of |-> variant[Func]])

\* The output directory is removed, then KLEE runs on the variant.
Verify ==
  /\ phase = "verify"
  /\ \E msgs \in Messages, rc \in {0, 1}, done \in BOOLEAN, n \in 0..MaxPaths :
       /\ kleeDir' = [kleeDir EXCEPT ![Func] =
                        [msgs |-> msgs, paths |-> n, of |-> variant[Func]]]
       /\ Judge([verdict |-> Verdict(msgs, rc, done), paths |-> n,
                 of |-> variant[Func]])

\* Phase 3: the first accepted stub is reported.
Report ==
  /\ phase = "try"
  /\ i > Len(cands)
  /\ IF accepted # <<>>
       THEN reported' = Head(accepted).func /\ Exit(0)
       ELSE UNCHANGED reported /\ Exit(1)
  /\ UNCHANGED <<run, kept, cands, i, baseline, accepted>>

\* The user stops the search, or the process dies.
Interrupt ==
  /\ phase # "exited"
  /\ Exit(None)
  /\ UNCHANGED <<run, kept, cands, i, baseline, accepted, reported>>

Next ==
  \/ Begin \/ Baseline
  \/ Skip \/ Summarize \/ Compile \/ Link \/ Verify
  \/ Report
  \/ Interrupt

Spec == Init /\ [][Next]_vars

-----------------------------------------------------------------------------
(* Properties.                                                             *)

\* Every variable has its type.
TypeOK ==
  /\ run \in 0..MaxRuns
  /\ phase \in {"exited", "baseline", "try", "compile", "link", "verify"}
  /\ kept \in BOOLEAN
  /\ cands \in Seq(Funcs)
  /\ i \in Nat \ {0}
  /\ phase \in {"compile", "link", "verify"} => i <= Len(cands)
  /\ baseline \in KleeResult \cup {None}
  /\ phase \in {"try", "compile", "link", "verify"} => baseline # None
  /\ stubC \in [Funcs -> 0..MaxRuns]
  /\ stubBc \in [Funcs -> 0..MaxRuns]
  /\ variant \in [Funcs -> 0..MaxRuns]
  /\ kleeDir \in [Funcs -> KleeDir \cup {None}]
  /\ accepted \in Seq([func : Funcs, result : KleeResult])
  /\ code \in {0, 1, None}
  /\ reported \in Funcs \cup {None}

(***************************************************************************)
(* A stub is accepted on evidence of this invocation: its source, its      *)
(* bitcode, the linked variant and KLEE's output were all made now, though *)
(* the work directory may hold the files of earlier invocations under the  *)
(* same names and any of the tools may fail (run, _run_klee).              *)
(***************************************************************************)
FreshEvidence ==
  \A n \in 1..Len(accepted) : accepted[n].result.of = run

(***************************************************************************)
(* Exit code 0 is never given for a search in which KLEE only ever ran     *)
(* into its time limit: either the baseline finished or the reported stub  *)
(* did (run, _is_improvement).                                             *)
(***************************************************************************)
SuccessIsConclusive ==
  phase = "exited" /\ code = 0 =>
    \/ baseline.verdict # "TIMEOUT"
    \/ /\ reported # None
       /\ Head(accepted).func = reported
       /\ Head(accepted).result.verdict # "TIMEOUT"

=============================================================================
