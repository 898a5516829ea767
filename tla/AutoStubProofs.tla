----------------------------- MODULE AutoStubProofs -----------------------------
(***************************************************************************)
(* Proofs about AutoStub, for any set of functions, any rankings and any   *)
(* number of invocations over the same work directory.                     *)
(***************************************************************************)
EXTENDS AutoStub, SequenceTheorems, TLAPS

(***************************************************************************)
(* The inductive invariant: the file the next tool reads was made by this  *)
(* invocation, everything accepted was judged on this invocation's files,  *)
(* and nothing that timed out is accepted over a baseline that did.        *)
(***************************************************************************)
ChainInv ==
  /\ phase = "compile" => stubC[Func] = run
  /\ phase = "link" => stubBc[Func] = run
  /\ phase = "verify" => variant[Func] = run

AcceptedInv ==
  \A n \in 1..Len(accepted) :
    /\ accepted[n].result.of = run
    /\ baseline.verdict = "TIMEOUT" => accepted[n].result.verdict # "TIMEOUT"

ReportInv ==
  /\ phase = "baseline" => accepted = <<>>
  /\ phase # "exited" => reported = None
  /\ SuccessIsConclusive

IInv == TypeOK /\ ChainInv /\ AcceptedInv /\ ReportInv

\* The candidate being tried is a function.
LEMMA FuncType ==
  ASSUME TypeOK, i <= Len(cands)
  PROVE  Func \in Funcs
  BY DEF TypeOK, Func

\* The verdict of a KLEE run is one of the four.
LEMMA VerdictType ==
  ASSUME NEW msgs \in Messages, NEW rc, NEW done
  PROVE  Verdict(msgs, rc, done) \in Verdicts
  BY DEF Messages, Verdict, Verdicts

\* Ending an invocation keeps the types of the files.
LEMMA ExitType ==
  ASSUME TypeOK, NEW c \in {0, 1, None}, Exit(c)
  PROVE  /\ phase' = "exited" /\ code' = c
         /\ stubC' \in [Funcs -> 0..MaxRuns]
         /\ stubBc' \in [Funcs -> 0..MaxRuns]
         /\ variant' \in [Funcs -> 0..MaxRuns]
         /\ kleeDir' \in [Funcs -> KleeDir \cup {None}]
<1>1. NoFile \in [Funcs -> 0..MaxRuns] /\ NoDir \in [Funcs -> KleeDir \cup {None}]
  BY ConstAssumption DEF NoFile, NoDir
<1> QED
  BY <1>1 DEF Exit, TypeOK, files

\* The invariant holds initially.
LEMMA InitInv == Init => IInv
<1> SUFFICES ASSUME Init PROVE IInv
  OBVIOUS
<1>1. NoFile \in [Funcs -> 0..MaxRuns] /\ NoDir \in [Funcs -> KleeDir \cup {None}]
  BY ConstAssumption DEF NoFile, NoDir
<1>s. cands \in Seq(Funcs) /\ accepted \in Seq([func : Funcs, result : KleeResult])
  BY DEF Init
<1>2. TypeOK
  <2>1. /\ stubC \in [Funcs -> 0..MaxRuns] /\ stubBc \in [Funcs -> 0..MaxRuns]
        /\ variant \in [Funcs -> 0..MaxRuns]
        /\ kleeDir \in [Funcs -> KleeDir \cup {None}]
    BY <1>1 DEF Init
  <2>2. run \in 0..MaxRuns /\ i \in Nat \ {0}
    BY ConstAssumption DEF Init
  <2>4. kept \in BOOLEAN
    BY DEF Init
  <2>3. /\ phase = "exited" /\ baseline = None /\ code = None /\ reported = None
    BY DEF Init
  <2> QED
    BY <1>s, <2>1, <2>2, <2>3, <2>4 DEF TypeOK
<1>3. ChainInv /\ AcceptedInv
  BY DEF Init, ChainInv, AcceptedInv
<1>4. ReportInv
  BY NoneAssumption DEF Init, ReportInv, SuccessIsConclusive
<1> QED
  BY <1>2, <1>3, <1>4 DEF IInv

\* A step that ends in the loop or in a tool, and accepts and reports nothing
\* new, keeps what was accepted and reported.
LEMMA QuietStep ==
  ASSUME IInv, Keep, phase' \in {"try", "compile", "link", "verify"},
         phase \notin {"baseline", "exited"}
  PROVE  AcceptedInv' /\ ReportInv'
<1>1. AcceptedInv'
  BY DEF IInv, AcceptedInv, Keep
<1>2. ReportInv'
  BY DEF IInv, ReportInv, SuccessIsConclusive, Keep
<1> QED
  BY <1>1, <1>2

\* Every step preserves the invariant.
LEMMA StepInv == IInv /\ [Next]_vars => IInv'
<1> SUFFICES ASSUME IInv, [Next]_vars PROVE IInv'
  OBVIOUS
<1>0. TypeOK /\ ChainInv /\ AcceptedInv /\ ReportInv
  BY DEF IInv
<1>1. CASE Begin
  <2>1. NoFile \in [Funcs -> 0..MaxRuns] /\ NoDir \in [Funcs -> KleeDir \cup {None}]
    BY ConstAssumption DEF NoFile, NoDir
  <2>2. /\ stubC' \in [Funcs -> 0..MaxRuns]
        /\ stubBc' \in [Funcs -> 0..MaxRuns]
        /\ variant' \in [Funcs -> 0..MaxRuns]
        /\ kleeDir' \in [Funcs -> KleeDir \cup {None}]
    BY <1>0, <1>1, <2>1 DEF Begin, TypeOK, files
  <2>3. run' \in 0..MaxRuns
    BY <1>0, <1>1, ConstAssumption DEF Begin, TypeOK
  <2>4. /\ phase' = "baseline" /\ kept' \in BOOLEAN /\ cands' \in Rankings
        /\ i' = 1 /\ baseline' = None /\ accepted' = <<>> /\ code' = None
        /\ reported' = None
    BY <1>1 DEF Begin
  <2>5. accepted' \in Seq([func : Funcs, result : KleeResult])
    BY <2>4
  <2>6. TypeOK'
    BY <2>2, <2>3, <2>4, <2>5, ConstAssumption DEF TypeOK
  <2>7. ChainInv' /\ AcceptedInv'
    BY <2>4 DEF ChainInv, AcceptedInv
  <2>8. ReportInv'
    BY <2>4 DEF ReportInv, SuccessIsConclusive
  <2> QED
    BY <2>6, <2>7, <2>8 DEF IInv
<1>2. CASE Baseline
  <2>1. PICK msgs \in Messages, rc \in {0, 1}, done \in BOOLEAN, n \in 0..MaxPaths :
          LET b == [verdict |-> Verdict(msgs, rc, done), paths |-> n, of |-> run]
          IN /\ baseline' = b
             /\ \/ b.verdict # "TIMEOUT" /\ Exit(0)
                \/ Exit(1)
                \/ phase' = "try" /\ UNCHANGED <<code, files>>
    BY <1>2 DEF Baseline
  <2> DEFINE b == [verdict |-> Verdict(msgs, rc, done), paths |-> n, of |-> run]
  <2>2. b \in KleeResult
    BY <1>0, VerdictType DEF TypeOK, KleeResult
  <2>3. /\ baseline' = b
        /\ \/ b.verdict # "TIMEOUT" /\ Exit(0)
           \/ Exit(1)
           \/ phase' = "try" /\ UNCHANGED <<code, files>>
    BY <2>1
  <2> HIDE DEF b
  <2>4. /\ UNCHANGED <<run, kept, cands, i, accepted, reported>>
        /\ accepted = <<>> /\ reported = None
    BY <1>0, <1>2 DEF Baseline, ReportInv
  <2>5. CASE phase' = "try" /\ UNCHANGED <<code, files>>
    <3>1. TypeOK'
      BY <1>0, <2>2, <2>3, <2>4, <2>5, NoneAssumption DEF TypeOK, files
    <3>2. ChainInv' /\ AcceptedInv' /\ ReportInv'
      BY <2>4, <2>5 DEF ChainInv, AcceptedInv, ReportInv, SuccessIsConclusive
    <3> QED
      BY <3>1, <3>2 DEF IInv
  <2>6. ASSUME NEW c \in {0, 1}, Exit(c), c = 0 => b.verdict # "TIMEOUT" PROVE IInv'
    <3>1. TypeOK'
      BY <1>0, <2>2, <2>3, <2>4, <2>6, ExitType DEF TypeOK
    <3>2. ChainInv' /\ AcceptedInv'
      BY <2>4, <2>6 DEF Exit, ChainInv, AcceptedInv
    <3>3. ReportInv'
      BY <2>3, <2>4, <2>6 DEF Exit, ReportInv, SuccessIsConclusive
    <3> QED
      BY <3>1, <3>2, <3>3 DEF IInv
  <2> QED
    BY <2>3, <2>5, <2>6
<1>3. CASE Skip
  <2>1. TypeOK'
    <3>1. i' = i + 1 /\ phase' = "try"
      BY <1>3 DEF Skip, Continue
    <3>2. /\ UNCHANGED <<run, kept, cands, baseline, accepted, code, reported>>
          /\ UNCHANGED <<stubC, stubBc, variant, kleeDir>>
      BY <1>3 DEF Skip, Keep, files
    <3>3. i + 1 \in Nat \ {0} /\ baseline # None
      BY <1>0, <1>3 DEF Skip, TypeOK
    <3> QED
      BY <1>0, <3>1, <3>2, <3>3 DEF TypeOK
  <2>2. ChainInv'
    BY <1>3 DEF Skip, Continue, ChainInv
  <2> QED
    BY <1>3, <2>1, <2>2, QuietStep DEF IInv, Skip, Continue
<1>4. CASE Summarize
  <2>1. Func \in Funcs
    BY <1>0, <1>4, FuncType DEF Summarize
  <2>2. stubC' \in [Funcs -> 0..MaxRuns]
    BY <1>0, <1>4, <2>1 DEF Summarize, TypeOK
  <2>3. TypeOK'
    BY <1>0, <1>4, <2>2 DEF Summarize, Keep, TypeOK
  <2>4. ChainInv'
    BY <1>0, <1>4, <2>1 DEF Summarize, Keep, Func, ChainInv, TypeOK
  <2> QED
    BY <1>4, <2>3, <2>4, QuietStep DEF IInv, Summarize
<1>5. CASE Compile
  <2>1. Func \in Funcs
    BY <1>0, <1>5, FuncType DEF Compile, TypeOK
  <2>2. stubBc' \in [Funcs -> 0..MaxRuns]
    BY <1>0, <1>5, <2>1 DEF Compile, TypeOK
  <2>3. TypeOK'
    <3>1. \/ i' = i /\ phase' = "link"
          \/ i' = i + 1 /\ phase' = "try"
      BY <1>5 DEF Compile, Continue
    <3>2. /\ UNCHANGED <<run, kept, cands, baseline, accepted, code, reported>>
          /\ UNCHANGED <<stubC, variant, kleeDir>>
      BY <1>5 DEF Compile, Keep
    <3>3. /\ i \in Nat \ {0} /\ i <= Len(cands) /\ baseline # None
          /\ i + 1 \in Nat \ {0}
      BY <1>0, <1>5 DEF Compile, TypeOK
    <3> QED
      BY <1>0, <2>2, <3>1, <3>2, <3>3 DEF TypeOK
  <2>4. ChainInv'
    BY <1>0, <1>5, <2>1 DEF Compile, Continue, Keep, Func, ChainInv, TypeOK
  <2> QED
    BY <1>5, <2>3, <2>4, QuietStep DEF IInv, Compile, Continue
<1>6. CASE Link
  <2>1. Func \in Funcs
    BY <1>0, <1>6, FuncType DEF Link, TypeOK
  <2>2. variant' \in [Funcs -> 0..MaxRuns]
    BY <1>0, <1>6, <2>1 DEF Link, TypeOK
  <2>3. TypeOK'
    <3>1. \/ i' = i /\ phase' = "verify"
          \/ i' = i + 1 /\ phase' = "try"
      BY <1>6 DEF Link, Continue
    <3>2. /\ UNCHANGED <<run, kept, cands, baseline, accepted, code, reported>>
          /\ UNCHANGED <<stubC, stubBc, kleeDir>>
      BY <1>6 DEF Link, Keep
    <3>3. /\ i \in Nat \ {0} /\ i <= Len(cands) /\ baseline # None
          /\ i + 1 \in Nat \ {0}
      BY <1>0, <1>6 DEF Link, TypeOK
    <3> QED
      BY <1>0, <2>2, <3>1, <3>2, <3>3 DEF TypeOK
  <2>4. ChainInv'
    BY <1>0, <1>6, <2>1 DEF Link, Continue, Keep, Func, ChainInv, TypeOK
  <2> QED
    BY <1>6, <2>3, <2>4, QuietStep DEF IInv, Link, Continue
<1>7. CASE Verify
  <2>1. PICK msgs \in Messages, rc \in {0, 1}, done \in BOOLEAN, n \in 0..MaxPaths :
          /\ kleeDir' = [kleeDir EXCEPT ![Func] =
                           [msgs |-> msgs, paths |-> n, of |-> variant[Func]]]
          /\ Judge([verdict |-> Verdict(msgs, rc, done), paths |-> n,
                    of |-> variant[Func]])
    BY <1>7 DEF Verify
  <2> DEFINE s == [verdict |-> Verdict(msgs, rc, done), paths |-> n,
                   of |-> variant[Func]]
             a == [func |-> Func, result |-> s]
  <2>2. Func \in Funcs /\ variant[Func] = run /\ run \in 0..MaxRuns
    BY <1>0, <1>7, FuncType DEF Verify, TypeOK, ChainInv
  <2>3. s \in KleeResult /\ s.of = run
    BY <2>2, VerdictType DEF KleeResult
  <2>4. kleeDir' \in [Funcs -> KleeDir \cup {None}]
    BY <1>0, <2>1, <2>2 DEF TypeOK, KleeDir
  <2>5. Judge(s)
    BY <2>1
  <2> HIDE DEF s
  <2>6. a \in [func : Funcs, result : KleeResult] /\ a.result = s
    BY <2>2, <2>3
  <2>7. \/ accepted' = accepted
        \/ accepted' = Append(accepted, a) /\ IsImprovement(baseline, s)
    BY <2>5 DEF Judge
  <2>8. /\ phase' = "try" /\ i' = i + 1
        /\ UNCHANGED <<run, kept, cands, baseline, code, reported, stubC, stubBc,
                       variant>>
    BY <2>5 DEF Judge, Continue
  <2> HIDE DEF a
  <2>9. accepted' \in Seq([func : Funcs, result : KleeResult])
    <3>1. accepted \in Seq([func : Funcs, result : KleeResult])
      BY <1>0 DEF TypeOK
    <3>2. Append(accepted, a) \in Seq([func : Funcs, result : KleeResult])
      BY <2>6, <3>1, AppendProperties
    <3> QED
      BY <2>7, <3>1, <3>2
  <2>10. TypeOK'
    <3>1. i + 1 \in Nat \ {0} /\ baseline # None
      BY <1>0, <1>7 DEF Verify, TypeOK
    <3> QED
      BY <1>0, <2>4, <2>8, <2>9, <3>1 DEF TypeOK
  <2>11. AcceptedInv'
    <3>1. CASE accepted' = accepted
      BY <1>0, <2>8, <3>1 DEF AcceptedInv
    <3>2. CASE accepted' = Append(accepted, a) /\ IsImprovement(baseline, s)
      <4>1. accepted \in Seq([func : Funcs, result : KleeResult])
        BY <1>0 DEF TypeOK
      <4>2. /\ Len(accepted') = Len(accepted) + 1
            /\ \A m \in 1..Len(accepted) : accepted'[m] = accepted[m]
            /\ accepted'[Len(accepted) + 1] = a
        BY <2>6, <3>2, <4>1, AppendProperties
      <4>3. baseline.verdict = "TIMEOUT" => s.verdict # "TIMEOUT"
        BY <3>2 DEF IsImprovement
      <4>4. Len(accepted) \in Nat
        BY <4>1
      <4> QED
        BY <1>0, <2>3, <2>6, <2>8, <4>2, <4>3, <4>4 DEF AcceptedInv
    <3> QED
      BY <2>7, <3>1, <3>2
  <2>12. ChainInv' /\ ReportInv'
    BY <1>0, <1>7, <2>8 DEF Verify, ChainInv, ReportInv, SuccessIsConclusive
  <2> QED
    BY <2>10, <2>11, <2>12 DEF IInv
<1>8. CASE Report
  <2>1. PICK c \in {0, 1} :
          /\ Exit(c)
          /\ \/ c = 0 /\ accepted # <<>> /\ reported' = Head(accepted).func
             \/ c = 1 /\ reported' = reported
    BY <1>8 DEF Report
  <2>2. UNCHANGED <<run, kept, cands, i, baseline, accepted>>
    BY <1>8 DEF Report
  <2>3. accepted # <<>> =>
          /\ Head(accepted) = accepted[1] /\ 1 \in 1..Len(accepted)
          /\ accepted[1] \in [func : Funcs, result : KleeResult]
    <3>1. accepted \in Seq([func : Funcs, result : KleeResult])
      BY <1>0 DEF TypeOK
    <3>2. ASSUME accepted # <<>> PROVE Len(accepted) \in Nat \ {0}
      BY <3>1, <3>2, EmptySeq
    <3>3. ASSUME accepted # <<>>
          PROVE  accepted[1] \in [func : Funcs, result : KleeResult]
      <4>1. 1 \in 1..Len(accepted)
        BY <3>2, <3>3
      <4> QED
        BY <3>1, <4>1, ElementOfSeq
    <3>4. Head(accepted) = accepted[1]
      BY <3>1
    <3> QED
      BY <3>2, <3>3, <3>4
  <2>4. reported' \in Funcs \cup {None}
    BY <1>0, <2>1, <2>3 DEF TypeOK
  <2>5. TypeOK'
    BY <1>0, <2>1, <2>2, <2>4, ExitType DEF TypeOK
  <2>6. ChainInv' /\ AcceptedInv'
    BY <1>0, <2>1, <2>2 DEF Exit, ChainInv, AcceptedInv
  <2>7. ReportInv'
    <3>1. phase' = "exited" /\ code' = c
      BY <2>1 DEF Exit
    <3>2. CASE c = 1
      BY <3>1, <3>2 DEF ReportInv, SuccessIsConclusive
    <3>3. CASE c = 0
      <4>1. accepted # <<>> /\ reported' = Head(accepted).func
        BY <2>1, <3>3
      <4>2. Head(accepted).func \in Funcs
        BY <2>3, <4>1
      <4>3. baseline.verdict = "TIMEOUT" => Head(accepted).result.verdict # "TIMEOUT"
        BY <1>0, <2>3, <4>1 DEF AcceptedInv
      <4> QED
        BY <2>2, <3>1, <4>1, <4>2, <4>3, NoneAssumption
           DEF ReportInv, SuccessIsConclusive
    <3> QED
      BY <3>2, <3>3
  <2> QED
    BY <2>5, <2>6, <2>7 DEF IInv
<1>9. CASE Interrupt
  <2>1. Exit(None) /\ UNCHANGED <<run, kept, cands, i, baseline, accepted, reported>>
    BY <1>9 DEF Interrupt
  <2>2. TypeOK'
    BY <1>0, <2>1, ExitType DEF TypeOK
  <2>3. ChainInv' /\ AcceptedInv'
    BY <1>0, <2>1 DEF Exit, ChainInv, AcceptedInv
  <2>4. ReportInv'
    BY <2>1, NoneAssumption DEF Exit, ReportInv, SuccessIsConclusive
  <2> QED
    BY <2>2, <2>3, <2>4 DEF IInv
<1>10. CASE UNCHANGED vars
  <2>1. TypeOK' /\ ChainInv'
    BY <1>0, <1>10 DEF vars, TypeOK, ChainInv, Func
  <2>2. AcceptedInv' /\ ReportInv'
    BY <1>0, <1>10 DEF vars, AcceptedInv, ReportInv, SuccessIsConclusive
  <2> QED
    BY <2>1, <2>2 DEF IInv
<1> QED
  BY <1>1, <1>2, <1>3, <1>4, <1>5, <1>6, <1>7, <1>8, <1>9, <1>10 DEF Next

\* The invariant holds throughout.
THEOREM Invariant == Spec => []IInv
<1> QED
  BY InitInv, StepInv, PTL DEF Spec

\* Every variable of the search keeps its type.
THEOREM TypeCorrect == Spec => []TypeOK
<1>1. IInv => TypeOK
  BY DEF IInv
<1> QED
  BY <1>1, Invariant, PTL

\* A stub is only ever accepted on files this invocation made, whatever the
\* work directory held before and whichever tools failed.
THEOREM EvidenceIsFresh == Spec => []FreshEvidence
<1>1. IInv => FreshEvidence
  BY DEF IInv, AcceptedInv, FreshEvidence
<1> QED
  BY <1>1, Invariant, PTL

\* Exit code 0 means that the baseline or the reported stub ran to its end.
THEOREM SuccessConclusive == Spec => []SuccessIsConclusive
<1>1. IInv => SuccessIsConclusive
  BY DEF IInv, ReportInv
<1> QED
  BY <1>1, Invariant, PTL
=============================================================================
