------------------------------ MODULE PassProofs ------------------------------
(***************************************************************************)
(* Proofs about the passes that rewrite the lifted program, for every      *)
(* object file and module: what the function pass (FuncPass) leaves links, *)
(* and its map helpers work on the maps the compiled program named; the    *)
(* bridge (ClamBridge) has KLEE assume what Clam has proved; what the      *)
(* policy-prune pass (PolicyPrune) keeps is the least set that contains    *)
(* the policy checks and is closed, in every order of its sweeps; what     *)
(* selective-packet-sym (PacketSym) zeroes is nothing a policy is about.   *)
(*                                                                         *)
(* The first part is about FlattenSeq, which the relocation dump and what  *)
(* the bridge keeps are written with.  It is a recursive function: that a  *)
(* property passes from each of its values to the next is used through the *)
(* smallest number that does not have it.                                  *)
(***************************************************************************)
EXTENDS PolicyPrune, FuncPass, PacketSym, ClamBridge, WellFoundedInduction, SequenceTheorems, TLAPS

-----------------------------------------------------------------------------
(* Sequences.                                                              *)

\* A property of numbers up to N that 0 has and that passes from i - 1 to i:
\* T is the set of those that do not have it.
LEMMA NoSmallest ==
  ASSUME NEW N \in Nat, NEW T \in SUBSET (0..N), 0 \notin T,
         \A i \in 1..N : i \in T => i - 1 \in T
  PROVE  T = {}
<1> SUFFICES ASSUME T # {} PROVE FALSE
  OBVIOUS
<1> DEFINE R == OpToRel(<, Nat)
<1>1. T \subseteq Nat
  OBVIOUS
<1>2. PICK x \in T : \A y \in T : ~(<<y, x>> \in R)
  BY <1>1, NatLessThanWellFounded, WFMin
<1>3. \A y \in T : ~(y < x)
  BY <1>1, <1>2 DEF OpToRel
<1>4. x \in 1..N
  OBVIOUS
<1>5. x - 1 \in T
  BY <1>4
<1> QED BY <1>3, <1>4, <1>5

\* Concatenations of the sequences of g up to each of them.
IsConcat(g, n, f) ==
  \A i \in 1..n : f[i] = IF i = 1 THEN g[i] ELSE f[i - 1] \o g[i]

LEMMA ConcatExists ==
  ASSUME NEW X, NEW N \in Nat, NEW g \in [1..N -> Seq(X)]
  PROVE  \E f \in [1..N -> Seq(X)] : IsConcat(g, N, f)
<1> DEFINE T == {n \in 0..N : ~\E f \in [1..n -> Seq(X)] : IsConcat(g, n, f)}
<1>1. 0 \notin T
  <2>1. [i \in 1..0 |-> << >>] \in [1..0 -> Seq(X)] /\ IsConcat(g, 0, [i \in 1..0 |-> << >>])
    BY DEF IsConcat
  <2> QED BY <2>1
<1>2. ASSUME NEW n \in 1..N, n \in T PROVE n - 1 \in T
  <2> SUFFICES ASSUME NEW f \in [1..n - 1 -> Seq(X)], IsConcat(g, n - 1, f) PROVE FALSE
    BY <1>2
  <2> DEFINE h == [i \in 1..n |-> IF i < n THEN f[i] ELSE IF n = 1 THEN g[1] ELSE f[n - 1] \o g[n]]
  <2>1. \A i \in 1..n - 1 : f[i] \in Seq(X)
    OBVIOUS
  <2>2. \A i \in 1..n : h[i] \in Seq(X)
    <3> SUFFICES ASSUME NEW i \in 1..n PROVE h[i] \in Seq(X)
      OBVIOUS
    <3>1. CASE i < n
      BY <2>1, <3>1
    <3>2. CASE i = n /\ n = 1
      BY <3>2
    <3>3. CASE i = n /\ n # 1
      <4>1. f[n - 1] \in Seq(X) /\ g[n] \in Seq(X)
        BY <2>1, <3>3
      <4> QED BY <3>3, <4>1
    <3> QED BY <3>1, <3>2, <3>3
  <2>3. h \in [1..n -> Seq(X)]
    BY <2>2
  <2>4. IsConcat(g, n, h)
    <3> SUFFICES ASSUME NEW i \in 1..n
                 PROVE  h[i] = IF i = 1 THEN g[i] ELSE h[i - 1] \o g[i]
      BY DEF IsConcat
    <3>1. CASE i < n
      <4>1. f[i] = IF i = 1 THEN g[i] ELSE f[i - 1] \o g[i]
        <5>1. i \in 1..n - 1
          BY <3>1
        <5> QED BY <5>1 DEF IsConcat
      <4>2. h[i] = f[i] /\ (i # 1 => h[i - 1] = f[i - 1])
        BY <3>1
      <4> QED BY <4>1, <4>2
    <3>2. CASE i = n
      <4>1. h[n] = IF n = 1 THEN g[1] ELSE f[n - 1] \o g[n]
        OBVIOUS
      <4>2. n # 1 => h[n - 1] = f[n - 1]
        OBVIOUS
      <4> QED BY <3>2, <4>1, <4>2
    <3> QED BY <3>1, <3>2
  <2> HIDE DEF h
  <2> QED BY <1>2, <2>3, <2>4
<1> HIDE DEF T
<1>3. T = {}
  BY <1>1, <1>2, NoSmallest DEF T
<1> QED BY <1>3 DEF T

\* What FlattenSeq returns is the last of such concatenations.
LEMMA FlattenIsConcat ==
  ASSUME NEW X, NEW g \in Seq(Seq(X))
  PROVE  /\ Len(g) = 0 => FlattenSeq(g) = << >>
         /\ Len(g) # 0 => \E f \in [1..Len(g) -> Seq(X)] :
                            IsConcat(g, Len(g), f) /\ FlattenSeq(g) = f[Len(g)]
<1> DEFINE N == Len(g)
<1>0. N \in Nat /\ g \in [1..N -> Seq(X)]
  OBVIOUS
<1>1. CASE N = 0
  BY <1>1 DEF FlattenSeq
<1>2. CASE N # 0
  <2> DEFINE flatten[i \in 1..N] == IF i = 1 THEN g[i] ELSE flatten[i - 1] \o g[i]
  <2>1. PICK f \in [1..N -> Seq(X)] : IsConcat(g, N, f)
    BY <1>0, ConcatExists
  <2>2. f = [i \in 1..N |-> IF i = 1 THEN g[i] ELSE f[i - 1] \o g[i]]
    BY <2>1 DEF IsConcat
  <2>3. \E k : k = [i \in 1..N |-> IF i = 1 THEN g[i] ELSE k[i - 1] \o g[i]]
    BY <2>2
  <2>4. flatten = [i \in 1..N |-> IF i = 1 THEN g[i] ELSE flatten[i - 1] \o g[i]]
    BY <2>3
  <2>5. FlattenSeq(g) = flatten[N]
    BY <1>2 DEF FlattenSeq
  <2> HIDE DEF flatten, N
  <2>6. flatten = f
    <3> DEFINE T == {i \in 0..N : i # 0 /\ flatten[i] # f[i]}
    <3>1. ASSUME NEW i \in 1..N, i \in T PROVE i - 1 \in T
      <4>1. flatten[i] = IF i = 1 THEN g[i] ELSE flatten[i - 1] \o g[i]
        BY <2>4
      <4>2. f[i] = IF i = 1 THEN g[i] ELSE f[i - 1] \o g[i]
        BY <2>2
      <4>3. i # 1 /\ flatten[i - 1] # f[i - 1]
        BY <3>1, <4>1, <4>2
      <4> QED BY <1>0, <4>3
    <3>2. T = {}
      <4>1. T \in SUBSET (0..N) /\ 0 \notin T
        OBVIOUS
      <4> HIDE DEF T
      <4> QED BY <1>0, <3>1, <4>1, NoSmallest
    <3>3. \A i \in 1..N : flatten[i] = f[i]
      <4> SUFFICES ASSUME NEW i \in 1..N, flatten[i] # f[i] PROVE FALSE
        OBVIOUS
      <4>1. i \in 0..N /\ i # 0
        BY <1>0
      <4>2. i \in T
        BY <4>1
      <4> QED BY <3>2, <4>2
    <3>4. \A i \in 1..N : (IF i = 1 THEN g[i] ELSE flatten[i - 1] \o g[i])
                          = (IF i = 1 THEN g[i] ELSE f[i - 1] \o g[i])
      <4> SUFFICES ASSUME NEW i \in 1..N, i # 1 PROVE flatten[i - 1] = f[i - 1]
        OBVIOUS
      <4>1. i - 1 \in 1..N
        BY <1>0
      <4> QED BY <3>3, <4>1
    <3> DEFINE E(i) == IF i = 1 THEN g[i] ELSE flatten[i - 1] \o g[i]
               F(i) == IF i = 1 THEN g[i] ELSE f[i - 1] \o g[i]
    <3>5. flatten = [i \in 1..N |-> E(i)] /\ f = [i \in 1..N |-> F(i)]
          /\ \A i \in 1..N : E(i) = F(i)
      BY <2>2, <2>4, <3>4
    <3> HIDE DEF E, F
    <3> QED BY ONLY <3>5
  <2> QED BY <1>2, <2>1, <2>5, <2>6 DEF N
<1> QED BY <1>1, <1>2 DEF N

\* What a concatenation holds.
LEMMA ConcatRange ==
  ASSUME NEW X, NEW a \in Seq(X), NEW b \in Seq(X)
  PROVE  Range(a \o b) = Range(a) \cup Range(b)
<1> DEFINE c == a \o b
<1>1. Len(a) \in Nat /\ Len(b) \in Nat /\ DOMAIN a = 1..Len(a) /\ DOMAIN b = 1..Len(b)
      /\ DOMAIN c = 1..(Len(a) + Len(b))
  OBVIOUS
<1>2. \A i \in 1..Len(a) : c[i] = a[i]
  OBVIOUS
<1>3. \A i \in 1..Len(b) : c[Len(a) + i] = b[i]
  OBVIOUS
<1> HIDE DEF c
<1>4. ASSUME NEW x \in Range(c) PROVE x \in Range(a) \cup Range(b)
  <2>1. PICK i \in DOMAIN c : x = c[i]
    BY DEF Range
  <2>2. CASE i <= Len(a)
    BY <1>1, <1>2, <2>1, <2>2 DEF Range
  <2>3. CASE i > Len(a)
    <3>1. i - Len(a) \in 1..Len(b) /\ Len(a) + (i - Len(a)) = i
      BY <1>1, <2>1, <2>3
    <3>2. c[i] = b[i - Len(a)]
      BY <1>3, <3>1
    <3> QED BY <1>1, <2>1, <3>1, <3>2 DEF Range
  <2> QED BY <1>1, <2>1, <2>2, <2>3
<1>5. ASSUME NEW x \in Range(a) PROVE x \in Range(c)
  <2>1. PICK i \in DOMAIN a : x = a[i]
    BY DEF Range
  <2>2. i \in DOMAIN c /\ c[i] = x
    BY <1>1, <1>2, <2>1
  <2> QED BY <2>2 DEF Range
<1>6. ASSUME NEW x \in Range(b) PROVE x \in Range(c)
  <2>1. PICK i \in DOMAIN b : x = b[i]
    BY DEF Range
  <2>2. Len(a) + i \in DOMAIN c /\ c[Len(a) + i] = x
    BY <1>1, <1>3, <2>1
  <2> QED BY <2>2 DEF Range
<1> QED BY <1>4, <1>5, <1>6 DEF c

\* What a flattened sequence of sequences holds.
LEMMA FlattenElements ==
  ASSUME NEW X, NEW g \in Seq(Seq(X))
  PROVE  /\ FlattenSeq(g) \in Seq(X)
         /\ Range(FlattenSeq(g)) = UNION {Range(g[i]) : i \in DOMAIN g}
<1> DEFINE N == Len(g)
<1>0. N \in Nat /\ DOMAIN g = 1..N /\ \A i \in 1..N : g[i] \in Seq(X)
  OBVIOUS
<1>1. CASE N = 0
  <2>1. FlattenSeq(g) = << >>
    BY <1>1, FlattenIsConcat
  <2>3. DOMAIN g = {}
    BY <1>0, <1>1
  <2>2. Range(<< >>) = {} /\ << >> \in Seq(X)
    BY DEF Range
  <2> QED BY <2>1, <2>2, <2>3
<1>2. CASE N # 0
  <2>1. PICK f \in [1..N -> Seq(X)] : IsConcat(g, N, f) /\ FlattenSeq(g) = f[N]
    BY <1>2, FlattenIsConcat
  <2> HIDE DEF N
  <2> DEFINE U(n) == UNION {Range(g[i]) : i \in 1..n}
             T == {n \in 0..N : n # 0 /\ Range(f[n]) # U(n)}
  <2>2. ASSUME NEW n \in 1..N, n \in T PROVE n - 1 \in T
    <3>1. CASE n = 1
      <4>1. f[1] = g[1] /\ 1..1 = {1}
        BY <1>0, <2>1, <3>1 DEF IsConcat
      <4> QED BY <2>2, <3>1, <4>1
    <3>2. CASE n # 1
      <4>1. n - 1 \in 1..N /\ n - 1 # 0 /\ 1..n = (1..(n - 1)) \cup {n}
        BY <1>0, <3>2
      <4>2. f[n] = f[n - 1] \o g[n]
        BY <2>1, <3>2 DEF IsConcat
      <4>3. f[n - 1] \in Seq(X) /\ g[n] \in Seq(X)
        BY <1>0, <4>1
      <4>4. Range(f[n]) = Range(f[n - 1]) \cup Range(g[n])
        BY <4>2, <4>3, ConcatRange
      <4>5. U(n) = U(n - 1) \cup Range(g[n])
        BY <4>1
      <4>6. Range(f[n - 1]) # U(n - 1)
        BY <2>2, <4>4, <4>5
      <4> QED BY <1>0, <4>1, <4>6
    <3> QED BY <3>1, <3>2
  <2>3. T \in SUBSET (0..N) /\ 0 \notin T
    OBVIOUS
  <2>4. T = {}
    <3> HIDE DEF T
    <3> QED BY <1>0, <2>2, <2>3, NoSmallest
  <2>5. N \in 1..N /\ N \in 0..N
    BY <1>0, <1>2
  <2>6. Range(f[N]) = U(N)
    BY <1>2, <2>4, <2>5
  <2> QED BY <1>0, <2>1, <2>5, <2>6
<1> QED BY <1>1, <1>2

\* The last position of a non-empty set of positions.
LEMMA LastLine ==
  ASSUME NEW n \in Nat, NEW W \in SUBSET (1..n), W # {}
  PROVE  \E i \in W : \A j \in W : j <= i
<1> DEFINE T == {n - i : i \in W}
           R == OpToRel(<, Nat)
<1>0. PICK w \in W : TRUE
  OBVIOUS
<1>1. T \subseteq Nat /\ T # {}
  <2>1. \A i \in W : n - i \in Nat
    OBVIOUS
  <2>2. n - w \in T
    BY <1>0
  <2> QED
    BY <2>1, <2>2
<1>2. PICK x \in T : \A y \in T : ~(<<y, x>> \in R)
  BY <1>1, NatLessThanWellFounded, WFMin
<1>3. \A y \in T : ~(y < x)
  BY <1>1, <1>2 DEF OpToRel
<1>4. PICK i \in W : x = n - i
  OBVIOUS
<1>5. \A j \in W : j <= i
  BY <1>3, <1>4
<1> QED
  BY <1>5

-----------------------------------------------------------------------------
(* The relocation dump.                                                    *)

\* Lines that gen_reloc_dump writes for the relocation r.
LinesOf(r) ==
  {Line(r.at, r.map)} \cup
  {Line(r.at - s, r.map) : s \in {t \in Range(fobj.starts) : 0 < t /\ t < r.at /\ r.at - t \notin GlobalOffsets}}
DumpLines == UNION {LinesOf(fobj.relocs[i]) : i \in DOMAIN fobj.relocs}

LEMMA LocalLinesElements ==
  ASSUME fobj \in Objects, NEW i \in DOMAIN fobj.relocs
  PROVE  LET r == fobj.relocs[i]
         IN  /\ LocalLines(r) \in Seq(DumpLines)
             /\ Range(LocalLines(r)) =
                  {Line(r.at - s, r.map) : s \in {t \in Range(fobj.starts) :
                     0 < t /\ t < r.at /\ r.at - t \notin GlobalOffsets}}
<1> DEFINE r == fobj.relocs[i]
           S == {t \in Range(fobj.starts) : 0 < t /\ t < r.at /\ r.at - t \notin GlobalOffsets}
           g == [j \in DOMAIN fobj.starts |->
                  LET s == fobj.starts[j]
                  IN  IF 0 < s /\ s < r.at /\ r.at - s \notin GlobalOffsets
                      THEN <<Line(r.at - s, r.map)>> ELSE << >>]
<1>1. fobj.starts \in Seq(Nat)
  BY ObjectAssumption
<1>2. \A s \in S : Line(r.at - s, r.map) \in DumpLines
  BY DEF DumpLines, LinesOf
<1>3. \A j \in DOMAIN fobj.starts : fobj.starts[j] \in Range(fobj.starts)
  BY DEF Range
<1>4. ASSUME NEW j \in DOMAIN fobj.starts
      PROVE  /\ fobj.starts[j] \in S => g[j] = <<Line(r.at - fobj.starts[j], r.map)>>
             /\ fobj.starts[j] \notin S => g[j] = << >>
  BY <1>3
<1>5. DOMAIN g = DOMAIN fobj.starts /\ DOMAIN g = 1..Len(fobj.starts) /\ Len(fobj.starts) \in Nat
  BY <1>1
<1>8. LocalLines(r) = FlattenSeq(g)
  BY DEF LocalLines
<1> HIDE DEF g, S, r
<1>6. ASSUME NEW j \in DOMAIN fobj.starts
      PROVE  g[j] \in Seq(DumpLines) /\ Range(g[j]) = {Line(r.at - s, r.map) : s \in S \cap {fobj.starts[j]}}
  <2>1. CASE fobj.starts[j] \in S
    <3>1. g[j] = <<Line(r.at - fobj.starts[j], r.map)>> /\ Line(r.at - fobj.starts[j], r.map) \in DumpLines
      BY <1>2, <1>4, <2>1
    <3>2. Range(g[j]) = {Line(r.at - fobj.starts[j], r.map)}
      BY <3>1 DEF Range
    <3> QED BY <2>1, <3>1, <3>2
  <2>2. CASE fobj.starts[j] \notin S
    <3>1. g[j] = << >>
      BY <1>4, <2>2
    <3>2. Range(g[j]) = {} /\ g[j] \in Seq(DumpLines)
      BY <3>1 DEF Range
    <3> QED BY <2>2, <3>2
  <2> QED BY <2>1, <2>2
<1>7. g \in Seq(Seq(DumpLines))
  <2>1. g = [j \in 1..Len(fobj.starts) |-> g[j]]
    BY <1>5 DEF g
  <2>2. \A j \in 1..Len(fobj.starts) : g[j] \in Seq(DumpLines)
    BY <1>5, <1>6
  <2> QED BY <1>5, <2>1, <2>2
<1>9. Range(FlattenSeq(g)) = UNION {Range(g[j]) : j \in DOMAIN g} /\ FlattenSeq(g) \in Seq(DumpLines)
  BY <1>7, FlattenElements
<1>10. UNION {Range(g[j]) : j \in DOMAIN g} = {Line(r.at - s, r.map) : s \in S}
  <2>1. \A s \in S : \E j \in DOMAIN fobj.starts : s = fobj.starts[j]
    BY DEF S, Range
  <2>2. ASSUME NEW s \in S PROVE Line(r.at - s, r.map) \in UNION {Range(g[j]) : j \in DOMAIN g}
    <3>1. PICK j \in DOMAIN fobj.starts : s = fobj.starts[j]
      BY <2>1
    <3>2. Line(r.at - s, r.map) \in Range(g[j])
      BY <1>6, <3>1
    <3> QED BY <1>5, <3>2
  <2>3. ASSUME NEW j \in DOMAIN g, NEW x \in Range(g[j]) PROVE x \in {Line(r.at - s, r.map) : s \in S}
    BY <1>5, <1>6
  <2> QED BY <2>2, <2>3
<1> QED BY <1>8, <1>9, <1>10 DEF r, S

LEMMA DumpElements ==
  ASSUME fobj \in Objects
  PROVE  /\ GlobalLines \o AllLocalLines \in Seq(DumpLines)
         /\ Range(GlobalLines \o AllLocalLines) = DumpLines
<1> DEFINE R == fobj.relocs
           g == [i \in DOMAIN R |-> LocalLines(R[i])]
           Locals(r) == {Line(r.at - s, r.map) : s \in {t \in Range(fobj.starts) :
                          0 < t /\ t < r.at /\ r.at - t \notin GlobalOffsets}}
<1>1. R \in Seq(Range(R)) /\ DOMAIN R = 1..Len(R) /\ Len(R) \in Nat
  BY ObjectAssumption
<1>2. AllLocalLines = FlattenSeq(g)
  BY DEF AllLocalLines
<1>3. \A i \in DOMAIN R : g[i] \in Seq(DumpLines) /\ Range(g[i]) = Locals(R[i])
  BY LocalLinesElements
<1>4. g \in Seq(Seq(DumpLines)) /\ DOMAIN g = DOMAIN R
  <2> HIDE DEF Locals
  <2>1. g \in [1..Len(R) -> Seq(DumpLines)]
    BY <1>1, <1>3
  <2> QED BY <1>1, <2>1
<1>5. \A i \in DOMAIN R : Line(R[i].at, R[i].map) \in DumpLines
  BY DEF DumpLines, LinesOf
<1>6. GlobalLines \in Seq(DumpLines)
  <2>1. GlobalLines \in [1..Len(R) -> DumpLines]
    BY <1>1, <1>5 DEF GlobalLines
  <2> QED BY <1>1, <2>1
<1>7. Range(GlobalLines) = {Line(R[i].at, R[i].map) : i \in DOMAIN R}
  BY DEF Range, GlobalLines
<1>8. Range(AllLocalLines) = UNION {Locals(R[i]) : i \in DOMAIN R} /\ AllLocalLines \in Seq(DumpLines)
  <2> HIDE DEF g, Locals
  <2>1. Range(FlattenSeq(g)) = UNION {Range(g[i]) : i \in DOMAIN g} /\ FlattenSeq(g) \in Seq(DumpLines)
    BY <1>4, FlattenElements
  <2>2. UNION {Range(g[i]) : i \in DOMAIN g} = UNION {Locals(R[i]) : i \in DOMAIN R}
    BY <1>3, <1>4
  <2> QED BY <1>2, <2>1, <2>2
<1>9. DumpLines = Range(GlobalLines) \cup Range(AllLocalLines)
  <2>1. \A i \in DOMAIN R : LinesOf(R[i]) = {Line(R[i].at, R[i].map)} \cup Locals(R[i])
    BY DEF LinesOf
  <2> HIDE DEF Locals
  <2>2. ASSUME NEW x \in DumpLines PROVE x \in Range(GlobalLines) \cup Range(AllLocalLines)
    <3>1. PICK i \in DOMAIN R : x \in LinesOf(R[i])
      BY DEF DumpLines
    <3>2. x = Line(R[i].at, R[i].map) \/ x \in Locals(R[i])
      BY <2>1, <3>1
    <3> QED BY <1>7, <1>8, <3>2
  <2>3. ASSUME NEW x \in Range(GlobalLines) \cup Range(AllLocalLines) PROVE x \in DumpLines
    <3>1. PICK i \in DOMAIN R : x = Line(R[i].at, R[i].map) \/ x \in Locals(R[i])
      BY <1>7, <1>8
    <3>2. x \in LinesOf(R[i])
      BY <2>1, <3>1
    <3> QED BY <3>2 DEF DumpLines
  <2> QED BY <2>2, <2>3
<1>10. GlobalLines \o AllLocalLines \in Seq(DumpLines)
  BY <1>6, <1>8
<1>11. Range(GlobalLines \o AllLocalLines) = Range(GlobalLines) \cup Range(AllLocalLines)
  BY ONLY <1>6, <1>8, ConcatRange
<1> QED BY ONLY <1>9, <1>10, <1>11

-----------------------------------------------------------------------------
(* The numbers of maps.                                                    *)

\* The number of a call under which no other relocation is dumped stands for
\* the map the call names, and for nothing when it names none.
OwnName(c) ==
  LET id == c.at - c.start
      m == MapAt(c.at)
  IN  Unambiguous(Lifted(c)) =>
        /\ m = NoMap => id \notin DOMAIN mapIdToName
        /\ m # NoMap => id \in DOMAIN mapIdToName /\ mapIdToName[id] = m
NumbersInv ==
  fphase \in {"globals", "calls", "done"} =>
    /\ \A id \in DOMAIN mapIdToName : IsReal(mapIdToName[id])
    /\ \A i \in DOMAIN fobj.calls : OwnName(fobj.calls[i])
ConfigInv == fphase = "read" => config \in Seq(DumpLines) /\ Range(config) = DumpLines

\* The map at an offset is that of the relocation there.
LEMMA MapAtReloc ==
  ASSUME fobj \in Objects, NEW i \in DOMAIN fobj.relocs
  PROVE  MapAt(fobj.relocs[i].at) = fobj.relocs[i].map
<1> DEFINE at == fobj.relocs[i].at
           rs == {j \in DOMAIN fobj.relocs : fobj.relocs[j].at = at}
<1>1. rs = {i}
  BY ObjectAssumption
<1>2. (CHOOSE j \in rs : TRUE) = i
  BY <1>1
<1> QED BY <1>1, <1>2 DEF MapAt

\* Every line that has the number of an unambiguous call names its map.
LEMMA LinesAgree ==
  ASSUME fobj \in Objects, NEW k \in DOMAIN fobj.calls, Unambiguous(Lifted(fobj.calls[k])),
         NEW x \in DumpLines, x.id = fobj.calls[k].at - fobj.calls[k].start
  PROVE  x.name = MapAt(fobj.calls[k].at)
<1> DEFINE c == fobj.calls[k]
<1>1. PICK i \in DOMAIN fobj.relocs : x \in LinesOf(fobj.relocs[i])
  BY DEF DumpLines
<1> DEFINE r == fobj.relocs[i]
<1>2. /\ x.name = r.map
      /\ \/ x.id = r.at
         \/ \E j \in DOMAIN fobj.starts : fobj.starts[j] < r.at /\ x.id = r.at - fobj.starts[j]
  BY <1>1 DEF LinesOf, Line, Range
<1>3. r.at = c.at
  <2> SUFFICES ASSUME r.at # c.at PROVE FALSE
    OBVIOUS
  <2>1. /\ r.at # c.at - c.start
        /\ \A j \in DOMAIN fobj.starts : fobj.starts[j] < r.at => r.at - fobj.starts[j] # c.at - c.start
    BY DEF Unambiguous, Lifted
  <2> QED BY <1>2, <2>1
<1> QED BY <1>2, <1>3, MapAtReloc

\* An unambiguous call with a relocation has a line.
LEMMA LineExists ==
  ASSUME fobj \in Objects, NEW k \in DOMAIN fobj.calls, Unambiguous(Lifted(fobj.calls[k])),
         MapAt(fobj.calls[k].at) # NoMap
  PROVE  \E x \in DumpLines : x.id = fobj.calls[k].at - fobj.calls[k].start
<1> DEFINE c == fobj.calls[k]
<1>1. PICK i \in DOMAIN fobj.relocs : fobj.relocs[i].at = c.at
  BY DEF MapAt
<1> DEFINE r == fobj.relocs[i]
<1>2. c.at \in Nat /\ c.start \in 0..c.at /\ (c.start # 0 => c.start \in Range(fobj.starts))
  BY ObjectAssumption
<1>3. LinesOf(r) \subseteq DumpLines
  BY DEF DumpLines
<1>4. CASE c.start = 0
  <2>1. Line(r.at, r.map) \in DumpLines /\ Line(r.at, r.map).id = c.at
    BY <1>1, <1>3 DEF LinesOf, Line
  <2> QED BY <1>2, <1>4, <2>1
<1>5. CASE c.start # 0
  <2>1. c.start < c.at
    <3> SUFFICES ASSUME c.start = c.at PROVE FALSE
      BY <1>2
    <3>1. Lifted(c).id = 0 /\ Lifted(c).at = c.at
      BY <1>2 DEF Lifted
    <3> QED BY <1>2, <1>5, <3>1 DEF Unambiguous
  <2>2. c.at - c.start \notin GlobalOffsets
    <3> SUFFICES ASSUME NEW j \in DOMAIN fobj.relocs, fobj.relocs[j].at = c.at - c.start PROVE FALSE
      BY DEF GlobalOffsets
    <3>1. fobj.relocs[j].at # c.at
      BY <1>2, <1>5
    <3> QED BY <3>1 DEF Unambiguous, Lifted
  <2>3. Line(r.at - c.start, r.map) \in LinesOf(r)
    BY <1>1, <1>2, <1>5, <2>1, <2>2 DEF LinesOf
  <2> QED BY <1>1, <1>3, <2>3 DEF Line
<1> QED BY <1>4, <1>5

\* Names of maps are names of symbols.
LEMMA DumpNamesReal ==
  ASSUME fobj \in Objects, NEW x \in DumpLines
  PROVE  IsReal(x.name)
<1>1. PICK i \in DOMAIN fobj.relocs : x \in LinesOf(fobj.relocs[i])
  BY DEF DumpLines
<1>2. x.name = fobj.relocs[i].map
  BY <1>1 DEF LinesOf, Line
<1> QED BY <1>2, ObjectAssumption

\* readMapConfig keeps a line for each number that has one with a name.
LEMMA ReadFacts ==
  ASSUME NEW X, config \in Seq(X), readMapConfig
  PROVE  /\ \A id : id \in DOMAIN mapIdToName' <=> \E x \in Range(config) : x.id = id /\ x.name # NoMap
         /\ \A id \in DOMAIN mapIdToName' :
              \E x \in Range(config) : x.id = id /\ x.name # NoMap /\ mapIdToName'[id] = x.name
<1> DEFINE named == {i \in DOMAIN config : config[i].name # NoMap}
           last(id) == CHOOSE i \in named : /\ config[i].id = id
                                            /\ \A j \in named : config[j].id = id => j <= i
<1>1. mapIdToName' = [id \in {config[i].id : i \in named} |-> config[last(id)].name]
  BY DEF readMapConfig
<1>2. Len(config) \in Nat /\ DOMAIN config = 1..Len(config)
  OBVIOUS
<1>3. ASSUME NEW id \in {config[i].id : i \in named}
      PROVE  last(id) \in named /\ config[last(id)].id = id
  <2> DEFINE W == {i \in named : config[i].id = id}
  <2>1. W \in SUBSET (1..Len(config)) /\ W # {}
    BY <1>2
  <2>2. PICK i \in W : \A j \in W : j <= i
    BY <1>2, <2>1, LastLine
  <2>3. i \in named /\ config[i].id = id /\ \A j \in named : config[j].id = id => j <= i
    BY <2>2
  <2> QED BY <2>3
<1>4. ASSUME NEW id \in DOMAIN mapIdToName'
      PROVE  \E x \in Range(config) : x.id = id /\ x.name # NoMap /\ mapIdToName'[id] = x.name
  <2>1. id \in {config[i].id : i \in named} /\ mapIdToName'[id] = config[last(id)].name
    BY <1>1
  <2>2. last(id) \in named /\ config[last(id)].id = id
    BY <1>3, <2>1
  <2> HIDE DEF last
  <2> QED BY <2>1, <2>2 DEF Range
<1>5. ASSUME NEW x \in Range(config), x.name # NoMap PROVE x.id \in DOMAIN mapIdToName'
  <2>1. PICK i \in DOMAIN config : x = config[i]
    BY DEF Range
  <2> HIDE DEF last
  <2> QED BY <1>1, <1>5, <2>1
<1> QED BY <1>4, <1>5

LEMMA NumbersStep ==
  ASSUME fobj \in Objects, ConfigInv, readMapConfig
  PROVE  NumbersInv'
<1>1. config \in Seq(DumpLines) /\ Range(config) = DumpLines
  BY DEF ConfigInv, readMapConfig
<1>2. /\ \A id : id \in DOMAIN mapIdToName' <=> \E x \in DumpLines : x.id = id /\ x.name # NoMap
      /\ \A id \in DOMAIN mapIdToName' :
           \E x \in DumpLines : x.id = id /\ x.name # NoMap /\ mapIdToName'[id] = x.name
  BY <1>1, ReadFacts
<1>3. \A id \in DOMAIN mapIdToName' : IsReal(mapIdToName'[id])
  BY <1>2, DumpNamesReal
<1>4. fobj' = fobj
  BY DEF readMapConfig
<1>5. ASSUME NEW k \in DOMAIN fobj.calls PROVE OwnName(fobj.calls[k])'
  <2> DEFINE c == fobj.calls[k]
             id == c.at - c.start
             m == MapAt(c.at)
  <2>1. SUFFICES ASSUME Unambiguous(Lifted(c))
                 PROVE  /\ m = NoMap => id \notin DOMAIN mapIdToName'
                        /\ m # NoMap => id \in DOMAIN mapIdToName' /\ mapIdToName'[id] = m
    BY <1>4 DEF OwnName, MapAt, Unambiguous, Lifted
  <2>2. \A x \in DumpLines : x.id = id => x.name = m
    BY <2>1, LinesAgree
  <2>3. m # NoMap => \E x \in DumpLines : x.id = id
    BY <2>1, LineExists
  <2> HIDE DEF m, id
  <2> QED BY <1>2, <2>2, <2>3
<1> QED BY <1>3, <1>4, <1>5 DEF NumbersInv

-----------------------------------------------------------------------------
(* The module.                                                             *)

\* A lifted call with what the pass has put into it.
Site(c, callee, map, built) ==
  [helper |-> c.helper, at |-> c.at, id |-> c.at - c.start, constant |-> c.constant,
   args |-> [i \in 1..5 |-> "i64"], type |-> "i64", callee |-> callee, map |-> map, built |-> built]
SitesInv ==
  /\ sites \in Seq(Range(sites)) /\ Len(sites) = Len(fobj.calls)
  /\ \A i \in DOMAIN sites :
       /\ sites[i] = Site(fobj.calls[i], sites[i].callee, sites[i].map, sites[i].built)
       /\ sites[i].callee \in {ToReplace(sites[i].helper), Real(sites[i].helper)} \cap functions
       /\ sites[i].built.args = sites[i].built.params
       /\ sites[i].built.result \in {"i64", "void"}
  /\ fnext \in Nat \ {0}
  /\ fphase = "done" => fnext > Len(sites)

\* The functions are those of the object and the helpers of its calls.
FunctionsInv ==
  /\ fobj.functions \subseteq functions
  /\ \A n \in functions :
       \/ n \in fobj.functions
       \/ \E i \in DOMAIN fobj.calls :
            n \in {ToReplace(fobj.calls[i].helper), Real(fobj.calls[i].helper)}
  /\ fphase \in {"dump", "read", "globals"} =>
       \A n \in functions : IsReal(n) => n \in fobj.functions
  /\ fphase = "done" =>
       \A h \in Helpers : ToReplace(h) \in functions =>
                             \E i \in DOMAIN sites : sites[i].callee = ToReplace(h)

\* A map has a definition of its own name unless a function has that name.
GlobalsInv ==
  /\ fphase \in {"dump", "read", "globals"} => globals = fobj.globals
  /\ fphase \in {"calls", "done"} =>
       \A n \in MapNames :
         /\ n \notin fobj.functions => n \in globals
         /\ Renamed(n) \in globals => n \in fobj.functions

\* The calls before fnext have their maps, the others none.
MapsInv ==
  \A i \in DOMAIN sites :
    sites[i].helper \in MapHelpers /\ sites[i].constant /\ Unambiguous(sites[i]) =>
      sites[i].map = IF i < fnext THEN MapAt(sites[i].at) ELSE NoMap

ModuleInv ==
  /\ fobj \in Objects
  /\ fphase \in {"dump", "read", "globals", "calls", "done"}
  /\ SitesInv /\ FunctionsInv /\ GlobalsInv /\ MapsInv /\ ConfigInv /\ NumbersInv

\* The conversions give the operands the types of the parameters: the
\* operands of a lifted call are all i64, and so is its value.
LEMMA RebuiltTypes ==
  ASSUME NEW c, c.args = [i \in 1..5 |-> "i64"], c.type = "i64"
  PROVE  Rebuilt(c).args = Rebuilt(c).params /\ Rebuilt(c).result \in {"i64", "void"}
<1>1. c.args[1] = "i64" /\ c.args[2] = "i64" /\ c.args[3] = "i64" /\ c.args[4] = "i64"
  OBVIOUS
<1>2. Ptr("i64") = "ptr" /\ IntToPtr("i64") = "ptr" /\ I64("i64") = "i64" /\ I32("i64") = "i32"
  BY DEF Ptr, IntToPtr, I64, I32
<1>3. \A p, t : Built(p, p, t).args = Built(p, p, t).params /\ Built(p, p, t).result = t
  BY DEF Built
<1> DEFINE OK(b) == \E p : b = Built(p, p, "i64") \/ b = Built(p, p, "void")
<1>4. OK(bpf_ktime_get_ns(c)) /\ OK(bpf_get_smp_processor_id(c)) /\ OK(bpf_xdp_adjust_head(c))
      /\ OK(bpf_ringbuf_submit(c)) /\ OK(bpf_ringbuf_reserve(c)) /\ OK(bpf_ringbuf_output(c))
  BY <1>1, <1>2 DEF bpf_ktime_get_ns, bpf_get_smp_processor_id, bpf_xdp_adjust_head, bpf_ringbuf_submit,
     bpf_ringbuf_reserve, bpf_ringbuf_output
<1>5. OK(bpf_get_current_comm(c)) /\ OK(bpf_probe_read(c)) /\ OK(bpf_probe_read_str(c))
      /\ OK(bpf_trace_printk(c)) /\ OK(bpf_probe_write_user(c)) /\ OK(bpf_override_return(c))
  BY <1>1, <1>2 DEF bpf_get_current_comm, bpf_probe_read, bpf_probe_read_str, bpf_trace_printk,
     bpf_probe_write_user, bpf_override_return
<1>6. OK(bpf_tail_call(c)) /\ OK(lookup_or_delete(c)) /\ OK(bpf_map_update_elem(c))
  BY <1>1, <1>2 DEF bpf_tail_call, lookup_or_delete, bpf_map_update_elem
<1> HIDE DEF OK
<1>7. OK(Rebuilt(c))
  BY <1>4, <1>5, <1>6 DEF Rebuilt
<1> QED BY <1>3, <1>7 DEF OK

\* A name with a suffix is not that of a symbol, and a suffix hides nothing.
LEMMA SuffixFacts ==
  /\ \A h, k : ToReplace(h) # Real(k) /\ (ToReplace(h) = ToReplace(k) => h = k)
               /\ (Real(h) = Real(k) => h = k)
  /\ \A h : IsReal(Real(h)) /\ ~IsReal(ToReplace(h))
  /\ \A n : ~IsReal(Renamed(n))
  /\ \A n, m : IsReal(n) /\ IsReal(m) /\ Renamed(n) = Renamed(m) => n = m
<1>1. \A h : Real(h)[1] = h /\ Real(h)[2] = "" /\ ToReplace(h)[1] = h /\ ToReplace(h)[2] = "toreplace"
  BY DEF ToReplace, Real
<1>2. \A n : Renamed(n)[1] = n[1] /\ Renamed(n)[2] = "1"
  BY DEF Renamed
<1>3. "toreplace" # "" /\ "1" # ""
  OBVIOUS
<1>4. \A h, k : ToReplace(h) # Real(k)
  BY <1>1, <1>3, Zenon
<1>5. \A h, k : (ToReplace(h) = ToReplace(k) => h = k) /\ (Real(h) = Real(k) => h = k)
  <2> TAKE h, k
  <2>1. (ToReplace(h) = ToReplace(k) => ToReplace(h)[1] = ToReplace(k)[1])
        /\ (Real(h) = Real(k) => Real(h)[1] = Real(k)[1])
    OBVIOUS
  <2>2. ToReplace(h)[1] = h /\ ToReplace(k)[1] = k /\ Real(h)[1] = h /\ Real(k)[1] = k
    BY <1>1
  <2> QED BY ONLY <2>1, <2>2
<1>6. \A h : IsReal(Real(h)) /\ ~IsReal(ToReplace(h))
  BY <1>1, <1>4, Zenon DEF IsReal
<1>7. \A n : ~IsReal(Renamed(n))
  BY <1>1, <1>2, <1>3, Zenon DEF IsReal
<1>8. \A n, m : IsReal(n) /\ IsReal(m) /\ Renamed(n) = Renamed(m) => n = m
  BY <1>2, Zenon DEF IsReal
<1> QED BY <1>4, <1>5, <1>6, <1>7, <1>8

LEMMA ModuleInit == FuncPassInit => ModuleInv
<1> SUFFICES ASSUME FuncPassInit PROVE ModuleInv
  OBVIOUS
<1> USE DEF FuncPassInit
<1>1. fobj \in Objects /\ fphase = "dump" /\ fnext = 1
  OBVIOUS
<1>2. fobj.calls \in Seq(Range(fobj.calls)) /\ \A n \in fobj.functions : IsReal(n)
  BY <1>1, ObjectAssumption
<1>3. DOMAIN fobj.calls = 1..Len(fobj.calls) /\ Len(fobj.calls) \in Nat
  BY <1>2
<1>4. DOMAIN sites = DOMAIN fobj.calls /\ \A i \in DOMAIN sites : sites[i] = Lifted(fobj.calls[i])
  OBVIOUS
<1>5. sites \in Seq(Range(sites)) /\ Len(sites) = Len(fobj.calls)
  <2>1. sites \in [1..Len(fobj.calls) -> Range(sites)]
    <3>1. sites = [i \in 1..Len(fobj.calls) |-> sites[i]]
      BY <1>3
    <3>2. \A i \in 1..Len(fobj.calls) : sites[i] \in Range(sites)
      BY <1>3, <1>4 DEF Range
    <3> QED BY <3>1, <3>2
  <2> QED BY <1>3, <2>1
<1>6. SitesInv
  <2> SUFFICES ASSUME NEW i \in DOMAIN sites
               PROVE  /\ sites[i] = Site(fobj.calls[i], sites[i].callee, sites[i].map, sites[i].built)
                      /\ sites[i].callee \in {ToReplace(sites[i].helper), Real(sites[i].helper)} \cap functions
                      /\ sites[i].built.args = sites[i].built.params
                      /\ sites[i].built.result \in {"i64", "void"}
    <3> HIDE DEF FuncPassInit
    <3>1. fnext \in Nat \ {0} /\ (fphase = "done" => fnext > Len(sites))
      BY <1>1
    <3> QED BY <1>5, <3>1 DEF SitesInv
  <2>1. sites[i] = Lifted(fobj.calls[i])
    BY <1>4
  <2>2. sites[i].callee = ToReplace(fobj.calls[i].helper) /\ sites[i].helper = fobj.calls[i].helper
        /\ sites[i].built = Built(<< >>, << >>, "i64")
    BY <2>1 DEF Lifted
  <2>3. sites[i].callee \in functions
    BY <1>4, <2>2
  <2> QED BY <2>1, <2>2, <2>3 DEF Lifted, Built, Site
<1>7. FunctionsInv
  BY <1>1, <1>2, SuffixFacts DEF FunctionsInv
<1>8. GlobalsInv
  BY <1>1 DEF GlobalsInv
<1>9. MapsInv
  <2>1. \A i \in DOMAIN sites : sites[i].map = NoMap /\ ~(i < fnext)
    BY <1>1, <1>3, <1>4 DEF Lifted
  <2> QED BY <2>1 DEF MapsInv
<1> QED BY <1>1, <1>6, <1>7, <1>8, <1>9 DEF ModuleInv, ConfigInv, NumbersInv

\* What the invariants of the module read.
modvars == <<fobj, functions, sites, fnext>>

LEMMA UnchangedModule ==
  ASSUME ModuleInv, UNCHANGED modvars, (fphase' = "done") => (fphase = "done")
  PROVE  SitesInv' /\ MapsInv'
<1> USE DEF modvars
<1>1. SitesInv'
  BY DEF ModuleInv, SitesInv
<1>2. MapsInv'
  BY DEF ModuleInv, MapsInv, Unambiguous, MapAt
<1> QED BY <1>1, <1>2

LEMMA DumpStep ==
  ASSUME ModuleInv, gen_reloc_dump
  PROVE  ModuleInv'
<1> USE DEF gen_reloc_dump
<1>1. SitesInv' /\ MapsInv'
  BY UnchangedModule DEF modvars
<1>2. FunctionsInv' /\ GlobalsInv'
  BY DEF ModuleInv, FunctionsInv, GlobalsInv
<1>3. ConfigInv'
  <2>1. DumpLines' = DumpLines
    BY DEF DumpLines, LinesOf, GlobalOffsets
  <2>2. config' \in Seq(DumpLines) /\ Range(config') = DumpLines
    BY DumpElements DEF ModuleInv
  <2> QED BY <2>1, <2>2 DEF ConfigInv
<1> QED BY <1>1, <1>2, <1>3 DEF ModuleInv, NumbersInv

LEMMA ReadStep ==
  ASSUME ModuleInv, readMapConfig
  PROVE  ModuleInv'
<1>1. /\ fphase = "read" /\ fphase' = "globals"
      /\ UNCHANGED <<fobj, config, globals, functions, sites, fnext>>
  BY DEF readMapConfig
<1>2. SitesInv' /\ MapsInv'
  BY <1>1, UnchangedModule DEF modvars
<1>3. FunctionsInv' /\ GlobalsInv'
  BY <1>1 DEF ModuleInv, FunctionsInv, GlobalsInv
<1>4. NumbersInv'
  BY NumbersStep DEF ModuleInv
<1> QED BY <1>1, <1>2, <1>3, <1>4 DEF ModuleInv, ConfigInv

LEMMA UnchangedNumbers ==
  ASSUME NumbersInv, UNCHANGED <<fobj, mapIdToName>>,
         fphase \in {"globals", "calls"} \/ fphase' = fphase
  PROVE  NumbersInv'
BY DEF NumbersInv, OwnName, MapAt, Unambiguous, Lifted

LEMMA DefinitionsStep ==
  ASSUME ModuleInv, createMapDefinitions
  PROVE  ModuleInv'
<1> USE DEF createMapDefinitions
<1>1. SitesInv' /\ MapsInv'
  BY UnchangedModule DEF modvars
<1>2. FunctionsInv'
  BY DEF ModuleInv, FunctionsInv
<1>3. NumbersInv'
  BY UnchangedNumbers DEF ModuleInv
<1>4. \A n \in MapNames : IsReal(n)
  BY DEF ModuleInv, NumbersInv, MapNames
<1>5. \A n \in functions : IsReal(n) => n \in fobj.functions
  BY DEF ModuleInv, FunctionsInv
<1>6. \A n \in globals : IsReal(n)
  BY ObjectAssumption DEF ModuleInv, GlobalsInv
<1>7. fobj.functions \subseteq functions /\ MapNames' = MapNames
  BY DEF ModuleInv, FunctionsInv, MapNames
<1>8. GlobalsInv'
  <2> SUFFICES ASSUME NEW n \in MapNames
               PROVE  /\ n \notin fobj.functions => n \in globals'
                      /\ Renamed(n) \in globals' => n \in fobj.functions
    BY <1>7 DEF GlobalsInv
  <2>1. n \notin fobj.functions => n \in globals'
    BY <1>4, <1>5
  <2>2. ASSUME Renamed(n) \in globals' PROVE n \in fobj.functions
    <3>1. ~IsReal(Renamed(n))
      BY SuffixFacts
    <3>2. PICK m \in MapNames \cap functions : Renamed(n) = Renamed(m)
      BY <1>4, <1>6, <2>2, <3>1
    <3>3. n = m
      BY <1>4, <3>2, SuffixFacts
    <3> QED BY <1>4, <1>5, <3>2, <3>3
  <2> QED BY <2>1, <2>2
<1> QED BY <1>1, <1>2, <1>3, <1>8 DEF ModuleInv, ConfigInv

\* The map the pass gives to an unambiguous call is its own.
LEMMA OwnMapArg ==
  ASSUME ModuleInv, fphase = "calls", NEW i \in DOMAIN sites,
         sites[i].helper \in MapHelpers, sites[i].constant, Unambiguous(sites[i])
  PROVE  /\ MapArg(sites[i]) = MapAt(sites[i].at)
         /\ ~Rewrites(sites[i]) => MapAt(sites[i].at) = NoMap
<1> DEFINE c == fobj.calls[i]
           id == c.at - c.start
           m == MapAt(c.at)
<1>1. i \in DOMAIN fobj.calls /\ fobj \in Objects
  <2>1. fobj \in Objects /\ DOMAIN sites = 1..Len(fobj.calls)
    BY DEF ModuleInv, SitesInv
  <2>2. fobj.calls \in Seq(Range(fobj.calls))
    BY <2>1, ObjectAssumption
  <2> QED BY <2>1, <2>2
<1>2. sites[i] = Site(c, sites[i].callee, sites[i].map, sites[i].built)
  BY DEF ModuleInv, SitesInv
<1>3. sites[i].helper = c.helper /\ sites[i].at = c.at /\ sites[i].id = id
  BY <1>2 DEF Site
<1>4. Unambiguous(Lifted(c))
  <2>1. Lifted(c).id = sites[i].id /\ Lifted(c).at = sites[i].at
    BY <1>3 DEF Lifted
  <2> QED BY <2>1 DEF Unambiguous
<1>5. /\ m = NoMap => id \notin DOMAIN mapIdToName
      /\ m # NoMap => id \in DOMAIN mapIdToName /\ mapIdToName[id] = m
  BY <1>1, <1>4 DEF ModuleInv, NumbersInv, OwnName
<1>6. m # NoMap => m \notin fobj.functions
  <2> SUFFICES ASSUME m # NoMap PROVE m \notin fobj.functions
    OBVIOUS
  <2>1. PICK j \in DOMAIN fobj.relocs : fobj.relocs[j].at = c.at
    BY DEF MapAt
  <2>2. m = fobj.relocs[j].map
    BY <1>1, <2>1, MapAtReloc
  <2> QED BY <1>1, <1>3, <2>1, <2>2, ObjectAssumption
<1>7. m # NoMap => m \in globals
  <2> SUFFICES ASSUME m # NoMap PROVE m \in globals
    OBVIOUS
  <2>1. m \in MapNames
    BY <1>5 DEF MapNames
  <2>2. \A n \in MapNames : n \notin fobj.functions => n \in globals
    BY DEF ModuleInv, GlobalsInv
  <2> QED BY <1>6, <2>1, <2>2
<1> HIDE DEF m, id, c
<1>8. m # NoMap => Found(sites[i]) /\ mapIdToName[sites[i].id] = m
  BY <1>3, <1>5, <1>7 DEF Found
<1>9. m = NoMap => ~Found(sites[i])
  BY <1>3, <1>5 DEF Found
<1>10. MapArg(sites[i]) = m
  BY <1>8, <1>9 DEF MapArg
<1>11. ~Rewrites(sites[i]) => m = NoMap
  BY <1>8 DEF Rewrites
<1> QED BY <1>3, <1>10, <1>11 DEF m

LEMMA ReplaceStep ==
  ASSUME ModuleInv, replaceMapLookupDelete
  PROVE  ModuleInv'
<1> DEFINE c == sites[fnext]
           new == Site(fobj.calls[fnext], Real(c.helper), MapArg(c), Rebuilt(c))
<1>1. /\ fphase = "calls" /\ fphase' = "calls" /\ fnext <= Len(sites) /\ fnext' = fnext + 1
      /\ UNCHANGED <<fobj, config, mapIdToName, globals>>
  BY DEF replaceMapLookupDelete
<1>2. /\ fobj \in Objects /\ sites \in Seq(Range(sites)) /\ Len(sites) = Len(fobj.calls)
      /\ fnext \in Nat \ {0}
  BY DEF ModuleInv, SitesInv
<1>3. fnext \in DOMAIN sites /\ DOMAIN sites = 1..Len(sites) /\ Len(sites) \in Nat
      /\ DOMAIN fobj.calls = DOMAIN sites
  <2>1. fobj.calls \in Seq(Range(fobj.calls))
    BY <1>2, ObjectAssumption
  <2> QED BY <1>1, <1>2, <2>1
<1>4. \A i \in DOMAIN sites :
        /\ sites[i] = Site(fobj.calls[i], sites[i].callee, sites[i].map, sites[i].built)
        /\ sites[i].callee \in {ToReplace(sites[i].helper), Real(sites[i].helper)} \cap functions
        /\ sites[i].built.args = sites[i].built.params
        /\ sites[i].built.result \in {"i64", "void"}
  BY DEF ModuleInv, SitesInv
<1>5. CASE ~Rewrites(c)
  <2>1. UNCHANGED <<sites, functions>>
    BY <1>5 DEF replaceMapLookupDelete
  <2>2. SitesInv'
    BY <1>1, <1>2, <1>3, <1>4, <2>1 DEF SitesInv
  <2>3. FunctionsInv' /\ GlobalsInv'
    BY <1>1, <2>1 DEF ModuleInv, FunctionsInv, GlobalsInv, MapNames
  <2>4. MapsInv'
    <3> SUFFICES ASSUME NEW i \in DOMAIN sites,
                        sites[i].helper \in MapHelpers, sites[i].constant, Unambiguous(sites[i])
                 PROVE  sites[i].map = IF i < fnext + 1 THEN MapAt(sites[i].at) ELSE NoMap
      <4>1. (\A x : Unambiguous(x)' = Unambiguous(x)) /\ (\A x : MapAt(x)' = MapAt(x))
        BY <1>1 DEF Unambiguous, MapAt
      <4> QED BY <1>1, <2>1, <4>1 DEF MapsInv
    <3>1. sites[i].map = IF i < fnext THEN MapAt(sites[i].at) ELSE NoMap
      BY DEF ModuleInv, MapsInv
    <3>2. CASE i = fnext
      <4>1. MapAt(sites[i].at) = NoMap
        BY <1>1, <1>5, <3>2, OwnMapArg
      <4> QED BY <3>1, <4>1
    <3>3. CASE i # fnext
      BY <1>2, <1>3, <3>1, <3>3
    <3> QED BY <3>2, <3>3
  <2>5. NumbersInv'
    BY <1>1, UnchangedNumbers DEF ModuleInv
  <2> QED BY <1>1, <2>2, <2>3, <2>4, <2>5 DEF ModuleInv, ConfigInv
<1>6. CASE Rewrites(c)
  <2>1. /\ sites' = [sites EXCEPT ![fnext] =
                       [sites[fnext] EXCEPT !.callee = Real(c.helper), !.map = MapArg(c), !.built = Rebuilt(c)]]
        /\ functions' = functions \cup {Real(c.helper)}
    BY <1>6 DEF replaceMapLookupDelete
  <2>2. [sites[fnext] EXCEPT !.callee = Real(c.helper), !.map = MapArg(c), !.built = Rebuilt(c)] = new
    <3> DEFINE s(x, y, z) == Site(fobj.calls[fnext], x, y, z)
    <3>1. /\ \A x, y, z, x2 : [s(x, y, z) EXCEPT !.callee = x2] = s(x2, y, z)
          /\ \A x, y, z, y2 : [s(x, y, z) EXCEPT !.map = y2] = s(x, y2, z)
          /\ \A x, y, z, z2 : [s(x, y, z) EXCEPT !.built = z2] = s(x, y, z2)
      BY DEF Site
    <3>2. c = s(c.callee, c.map, c.built)
      BY <1>3, <1>4
    <3> HIDE DEF s
    <3>3. [s(c.callee, c.map, c.built) EXCEPT !.callee = Real(c.helper)] = s(Real(c.helper), c.map, c.built)
      BY <3>1
    <3>4. [s(Real(c.helper), c.map, c.built) EXCEPT !.map = MapArg(c)] = s(Real(c.helper), MapArg(c), c.built)
      BY <3>1
    <3>5. [s(Real(c.helper), MapArg(c), c.built) EXCEPT !.built = Rebuilt(c)]
            = s(Real(c.helper), MapArg(c), Rebuilt(c))
      BY <3>1
    <3>6. sites[fnext] = s(c.callee, c.map, c.built) /\ new = s(Real(c.helper), MapArg(c), Rebuilt(c))
      BY <3>2 DEF s
    <3> HIDE DEF new
    <3> QED BY ONLY <3>3, <3>4, <3>5, <3>6, Zenon
  <2> HIDE DEF new
  <2>3. sites' = [sites EXCEPT ![fnext] = new]
    BY <2>1, <2>2
  <2>4. DOMAIN sites' = DOMAIN sites /\ sites'[fnext] = new
        /\ \A i \in DOMAIN sites : i # fnext => sites'[i] = sites[i]
    BY <1>2, <1>3, <2>3
  <2>5. new.helper = c.helper /\ new.at = c.at /\ new.id = c.id /\ new.constant = c.constant
        /\ new.callee = Real(c.helper) /\ new.map = MapArg(c) /\ new.built = Rebuilt(c)
        /\ new = Site(fobj.calls[fnext], new.callee, new.map, new.built)
        /\ c.args = [i \in 1..5 |-> "i64"] /\ c.type = "i64" /\ c.helper = fobj.calls[fnext].helper
    <3>1. c = Site(fobj.calls[fnext], c.callee, c.map, c.built)
      BY <1>3, <1>4
    <3>2. /\ c.helper = fobj.calls[fnext].helper /\ c.at = fobj.calls[fnext].at
          /\ c.id = fobj.calls[fnext].at - fobj.calls[fnext].start
          /\ c.constant = fobj.calls[fnext].constant
          /\ c.args = [i \in 1..5 |-> "i64"] /\ c.type = "i64"
      BY <3>1 DEF Site
    <3> HIDE DEF c
    <3>3. /\ new.helper = fobj.calls[fnext].helper /\ new.at = fobj.calls[fnext].at
          /\ new.id = fobj.calls[fnext].at - fobj.calls[fnext].start
          /\ new.constant = fobj.calls[fnext].constant
          /\ new.callee = Real(c.helper) /\ new.map = MapArg(c) /\ new.built = Rebuilt(c)
      BY DEF Site, new
    <3>4. new = Site(fobj.calls[fnext], new.callee, new.map, new.built)
      BY <3>3 DEF new
    <3> QED BY <3>2, <3>3, <3>4
  <2>6. SitesInv'
    <3>1. sites' \in Seq(Range(sites')) /\ Len(sites') = Len(sites)
      <4>1. sites' \in [1..Len(sites) -> Range(sites')]
        <5>1. \A i \in DOMAIN sites' : sites'[i] \in Range(sites')
          BY DEF Range
        <5>2. sites' = [i \in 1..Len(sites) |-> sites'[i]]
          BY <1>3, <2>3
        <5> QED BY <1>3, <2>4, <5>1, <5>2
      <4> QED BY <1>3, <4>1
    <3>2. ASSUME NEW i \in DOMAIN sites'
          PROVE  /\ sites'[i] = Site(fobj'.calls[i], sites'[i].callee, sites'[i].map, sites'[i].built)
                 /\ sites'[i].callee \in {ToReplace(sites'[i].helper), Real(sites'[i].helper)} \cap functions'
                 /\ sites'[i].built.args = sites'[i].built.params
                 /\ sites'[i].built.result \in {"i64", "void"}
      <4>1. CASE i = fnext
        <5>1. Rebuilt(c).args = Rebuilt(c).params /\ Rebuilt(c).result \in {"i64", "void"}
          BY <2>5, RebuiltTypes
        <5> QED BY <1>1, <2>1, <2>4, <2>5, <4>1, <5>1
      <4>2. CASE i # fnext
        BY <1>1, <1>4, <2>1, <2>4, <4>2
      <4> QED BY <4>1, <4>2
    <3> QED BY <1>1, <1>2, <3>1, <3>2 DEF SitesInv
  <2>7. FunctionsInv'
    BY <1>1, <1>3, <2>1, <2>5 DEF ModuleInv, FunctionsInv
  <2>8. GlobalsInv'
    BY <1>1 DEF ModuleInv, GlobalsInv, MapNames
  <2>9. MapsInv'
    <3> SUFFICES ASSUME NEW i \in DOMAIN sites,
                        sites'[i].helper \in MapHelpers, sites'[i].constant, Unambiguous(sites'[i])
                 PROVE  sites'[i].map = IF i < fnext + 1 THEN MapAt(sites'[i].at) ELSE NoMap
      BY <1>1, <2>4 DEF MapsInv, Unambiguous, MapAt
    <3>1. CASE i = fnext
      <4>1. c.helper \in MapHelpers /\ c.constant /\ Unambiguous(c)
        BY <2>4, <2>5, <3>1 DEF Unambiguous
      <4>2. MapArg(c) = MapAt(c.at)
        BY <1>1, <1>3, <4>1, OwnMapArg
      <4> QED BY <1>2, <2>4, <2>5, <3>1, <4>2
    <3>2. CASE i # fnext
      <4>1. sites[i].map = IF i < fnext THEN MapAt(sites[i].at) ELSE NoMap
        BY <2>4, <3>2 DEF ModuleInv, MapsInv
      <4> QED BY <1>2, <1>3, <2>4, <3>2, <4>1
    <3> QED BY <3>1, <3>2
  <2>10. NumbersInv'
    BY <1>1, UnchangedNumbers DEF ModuleInv
  <2> QED BY <1>1, <2>6, <2>7, <2>8, <2>9, <2>10 DEF ModuleInv, ConfigInv
<1> QED BY <1>5, <1>6

LEMMA EraseStep ==
  ASSUME ModuleInv, eraseDeclarations
  PROVE  ModuleInv'
<1> DEFINE gone == {ToReplace(sites[i].helper) : i \in {j \in DOMAIN sites : sites[j].helper \in Helpers}}
           called == {sites[i].callee : i \in DOMAIN sites}
<1>1. /\ fphase = "calls" /\ fphase' = "done" /\ fnext > Len(sites)
      /\ functions' = functions \ (gone \ called)
      /\ UNCHANGED <<fobj, config, mapIdToName, globals, sites, fnext>>
  BY DEF eraseDeclarations
<1>2. \A i \in DOMAIN sites : sites[i].callee \in functions'
  BY <1>1 DEF ModuleInv, SitesInv
<1>3. SitesInv'
  BY <1>1, <1>2 DEF ModuleInv, SitesInv
<1>4. MapsInv'
  <2>1. (\A x : Unambiguous(x)' = Unambiguous(x)) /\ (\A x : MapAt(x)' = MapAt(x))
    BY <1>1 DEF Unambiguous, MapAt
  <2> QED BY <1>1, <2>1 DEF ModuleInv, MapsInv
<1>5. fobj.functions \subseteq functions'
  <2> SUFFICES ASSUME NEW n \in fobj.functions PROVE n \in functions'
    OBVIOUS
  <2>1. IsReal(n) /\ n \in functions
    BY ObjectAssumption DEF ModuleInv, FunctionsInv
  <2>2. n \notin gone
    BY <2>1, SuffixFacts
  <2> QED BY <1>1, <2>1, <2>2
<1>6. ASSUME NEW h \in Helpers, ToReplace(h) \in functions'
      PROVE  \E i \in DOMAIN sites : sites[i].callee = ToReplace(h)
  <2>1. ToReplace(h) \in functions /\ (ToReplace(h) \in gone => ToReplace(h) \in called)
    BY <1>1, <1>6
  <2>2. ToReplace(h) \notin fobj.functions
    BY ObjectAssumption, SuffixFacts DEF ModuleInv
  <2>3. PICK i \in DOMAIN fobj.calls : ToReplace(h) \in {ToReplace(fobj.calls[i].helper), Real(fobj.calls[i].helper)}
    BY <2>1, <2>2 DEF ModuleInv, FunctionsInv
  <2>4. h = fobj.calls[i].helper
    BY <2>3, SuffixFacts
  <2>5. i \in DOMAIN sites
    <3>1. fobj.calls \in Seq(Range(fobj.calls))
      BY ObjectAssumption DEF ModuleInv
    <3> QED BY <3>1 DEF ModuleInv, SitesInv
  <2>6. sites[i].helper = h
    <3>1. sites[i] = Site(fobj.calls[i], sites[i].callee, sites[i].map, sites[i].built)
      BY <2>5 DEF ModuleInv, SitesInv
    <3> QED BY <2>4, <3>1 DEF Site
  <2>7. ToReplace(h) \in called
    BY <2>1, <2>5, <2>6
  <2> QED BY <2>7
<1>7. FunctionsInv'
  <2>1. \A n \in functions' :
          \/ n \in fobj.functions
          \/ \E i \in DOMAIN fobj.calls :
               n \in {ToReplace(fobj.calls[i].helper), Real(fobj.calls[i].helper)}
    BY <1>1 DEF ModuleInv, FunctionsInv
  <2> HIDE DEF gone, called
  <2> QED BY <1>1, <1>5, <1>6, <2>1 DEF FunctionsInv
<1>8. GlobalsInv'
  BY <1>1 DEF ModuleInv, GlobalsInv, MapNames
<1>9. NumbersInv'
  BY <1>1, UnchangedNumbers DEF ModuleInv
<1> QED BY <1>1, <1>3, <1>4, <1>7, <1>8, <1>9 DEF ModuleInv, ConfigInv

LEMMA ModuleStep == ModuleInv /\ [FuncPassNext]_fvars => ModuleInv'
<1> SUFFICES ASSUME ModuleInv, [FuncPassNext]_fvars PROVE ModuleInv'
  OBVIOUS
<1>1. CASE gen_reloc_dump
  BY <1>1, DumpStep
<1>2. CASE readMapConfig
  BY <1>2, ReadStep
<1>3. CASE createMapDefinitions
  BY <1>3, DefinitionsStep
<1>4. CASE replaceMapLookupDelete
  BY <1>4, ReplaceStep
<1>5. CASE eraseDeclarations
  BY <1>5, EraseStep
<1>6. CASE UNCHANGED fvars
  <2> USE <1>6 DEF fvars
  <2>1. SitesInv' /\ MapsInv'
    BY UnchangedModule DEF modvars
  <2>2. FunctionsInv' /\ GlobalsInv' /\ ConfigInv' /\ NumbersInv'
    <3>1. FunctionsInv'
      BY DEF ModuleInv, FunctionsInv
    <3>2. GlobalsInv'
      BY DEF ModuleInv, GlobalsInv, MapNames
    <3>3. ConfigInv'
      <4>1. DumpLines' = DumpLines
        BY DEF DumpLines, LinesOf, GlobalOffsets
      <4> QED BY <4>1 DEF ModuleInv, ConfigInv
    <3>4. NumbersInv'
      BY UnchangedNumbers DEF ModuleInv
    <3> QED BY <3>1, <3>2, <3>3, <3>4
  <2> QED BY <2>1, <2>2 DEF ModuleInv
<1> QED BY <1>1, <1>2, <1>3, <1>4, <1>5, <1>6 DEF FuncPassNext

LEMMA ModuleAlways == FuncPassSpec => []ModuleInv
BY ModuleInit, ModuleStep, PTL DEF FuncPassSpec

-----------------------------------------------------------------------------
(***************************************************************************)
(* For every object file, when the function pass is done a map helper with *)
(* a constant number works on the map the compiled program named, if its   *)
(* number is not that of another relocation (BoundToOwnMap): the dump has  *)
(* a line for the number, all its lines with the number name that map, the *)
(* map has a definition, and the rewriting of the other calls leaves it.   *)
(***************************************************************************)
THEOREM CallsKeepTheirMaps == FuncPassSpec => []BoundToOwnMap
<1>1. ModuleInv => BoundToOwnMap
  <2> SUFFICES ASSUME ModuleInv, fphase = "done", NEW i \in DOMAIN sites,
                      sites[i].helper \in MapHelpers, sites[i].constant, Unambiguous(sites[i])
               PROVE  sites[i].map = MapAt(sites[i].at)
    BY DEF BoundToOwnMap
  <2>1. i < fnext
    BY DEF ModuleInv, SitesInv
  <2> QED BY <2>1 DEF ModuleInv, MapsInv
<1> QED BY <1>1, ModuleAlways, PTL

(***************************************************************************)
(* For every object file, the module the function pass leaves links        *)
(* (RewrittenModuleLinks): the functions it calls are declared, the        *)
(* declarations it replaced are gone unless calls of them are left, the    *)
(* operands have the types of the parameters, and a map was renamed only   *)
(* because a function has its name.                                        *)
(***************************************************************************)
THEOREM RewrittenModulesLink == FuncPassSpec => []RewrittenModuleLinks
<1>1. ModuleInv => RewrittenModuleLinks
  <2> SUFFICES ASSUME ModuleInv, fphase = "done" PROVE RewrittenModuleLinks
    BY DEF RewrittenModuleLinks
  <2>1. ASSUME NEW i \in DOMAIN sites
        PROVE  /\ sites[i].callee \in functions
               /\ sites[i].built.args = sites[i].built.params
               /\ sites[i].built.result \in {sites[i].type, "void"}
    <3>1. sites[i] = Site(fobj.calls[i], sites[i].callee, sites[i].map, sites[i].built)
      BY DEF ModuleInv, SitesInv
    <3>2. sites[i].type = "i64"
      BY <3>1 DEF Site
    <3> QED BY <3>2 DEF ModuleInv, SitesInv
  <2>2. \A h \in Helpers : ToReplace(h) \in functions =>
                              \E i \in DOMAIN sites : sites[i].callee = ToReplace(h)
    BY DEF ModuleInv, FunctionsInv
  <2>3. \A n \in MapNames : Renamed(n) \in globals => n \in functions
    BY DEF ModuleInv, GlobalsInv, FunctionsInv
  <2> QED BY <2>1, <2>2, <2>3 DEF RewrittenModuleLinks
<1> QED BY <1>1, ModuleAlways, PTL

-----------------------------------------------------------------------------
(* The bridge from Clam to KLEE (ClamBridge).                              *)

\* One more sequence at the end.
LEMMA FlattenAppend ==
  ASSUME NEW X, NEW g \in Seq(Seq(X)), NEW x \in Seq(X)
  PROVE  FlattenSeq(Append(g, x)) = FlattenSeq(g) \o x
<1> DEFINE N == Len(g)
           h == Append(g, x)
<1>0. /\ N \in Nat /\ h \in Seq(Seq(X)) /\ Len(h) = N + 1 /\ h[N + 1] = x
      /\ \A i \in 1..N : h[i] = g[i]
  OBVIOUS
<1>1. PICK f \in [1..N + 1 -> Seq(X)] : IsConcat(h, N + 1, f) /\ FlattenSeq(h) = f[N + 1]
  <2> HIDE DEF h, N
  <2>1. Len(h) # 0
    BY <1>0
  <2> QED BY <1>0, <2>1, FlattenIsConcat
<1>2. CASE N = 0
  <2>1. f[1] = h[1] /\ h[1] = x
    BY <1>0, <1>1, <1>2 DEF IsConcat
  <2>2. FlattenSeq(g) = << >>
    BY <1>2, FlattenIsConcat
  <2>3. << >> \o x = x
    OBVIOUS
  <2>4. FlattenSeq(h) = x
    BY <1>1, <1>2, <2>1
  <2> QED BY <2>2, <2>3, <2>4
<1>3. CASE N # 0
  <2>1. PICK e \in [1..N -> Seq(X)] : IsConcat(g, N, e) /\ FlattenSeq(g) = e[N]
    BY <1>3, FlattenIsConcat
  <2> HIDE DEF h, N
  <2> DEFINE T == {i \in 0..N : i # 0 /\ e[i] # f[i]}
  <2>2. ASSUME NEW i \in 1..N, i \in T PROVE i - 1 \in T
    <3>1. e[i] = IF i = 1 THEN g[i] ELSE e[i - 1] \o g[i]
      BY <2>1 DEF IsConcat
    <3>2. i \in 1..N + 1
      BY <1>0
    <3>3. f[i] = IF i = 1 THEN h[i] ELSE f[i - 1] \o h[i]
      BY <1>1, <3>2 DEF IsConcat
    <3>4. h[i] = g[i]
      BY <1>0
    <3>5. i # 1 /\ e[i - 1] # f[i - 1]
      BY <2>2, <3>1, <3>3, <3>4
    <3> QED BY <1>0, <3>5
  <2>3. T \in SUBSET (0..N) /\ 0 \notin T
    OBVIOUS
  <2>4. T = {}
    <3> HIDE DEF T
    <3> QED BY <1>0, <2>2, <2>3, NoSmallest
  <2>5. N \in 0..N /\ N + 1 \in 1..N + 1 /\ N + 1 # 1 /\ (N + 1) - 1 = N
    BY <1>0, <1>3
  <2>6. e[N] = f[N]
    BY <1>3, <2>4, <2>5
  <2>7. f[N + 1] = f[N] \o h[N + 1]
    BY <1>1, <2>5 DEF IsConcat
  <2> QED BY <1>0, <1>1, <2>1, <2>6, <2>7 DEF h
<1> QED BY <1>2, <1>3

\* The first n elements.
Take(s, n) == [i \in 1..n |-> s[i]]

\* A sequence made from the elements of another, one short sequence each: P
\* are those of the first n, and one more.
LEMMA FlattenNext ==
  ASSUME NEW X, NEW n \in Nat, NEW p \in [1..n -> Seq(X)], NEW q \in [1..n + 1 -> Seq(X)],
         \A i \in 1..n : q[i] = p[i]
  PROVE  /\ FlattenSeq(p) \in Seq(X) /\ FlattenSeq(q) \in Seq(X)
         /\ FlattenSeq(q) = FlattenSeq(p) \o q[n + 1]
<1>1. p \in Seq(Seq(X)) /\ Len(p) = n
  OBVIOUS
<1>2. q \in Seq(Seq(X)) /\ Len(q) = n + 1 /\ q[n + 1] \in Seq(X)
  OBVIOUS
<1>3. q = Append(p, q[n + 1])
  <2> DEFINE r == Append(p, q[n + 1])
  <2>1. r \in Seq(Seq(X)) /\ Len(r) = n + 1
    BY <1>1, <1>2
  <2>2. \A i \in 1..n + 1 : r[i] = q[i]
    BY <1>1, <1>2
  <2> HIDE DEF r
  <2>3. q = r
    BY <1>2, <2>1, <2>2
  <2> QED BY <2>3 DEF r
<1>4. FlattenSeq(q) = FlattenSeq(p) \o q[n + 1]
  BY <1>1, <1>2, <1>3, FlattenAppend
<1> QED BY <1>1, <1>2, <1>4, FlattenElements

\* t and e have the first n elements of s and which of them are erased.
SameUpTo(X, n, s, t, d, e) ==
  /\ \A i \in 1..n : s[i] = t[i] /\ s[i] \in X
  /\ t[n + 1] \in X
  /\ \A i \in 1..n : i \in d <=> i \in e

\* What an instruction more adds to what is kept.
LEMMA KeptNext ==
  ASSUME NEW X, NEW n \in Nat, NEW s, NEW t, NEW d, NEW e, SameUpTo(X, n, s, t, d, e)
  PROVE  /\ Kept(Take(s, n), d) \in Seq(X) /\ Kept(Take(t, n + 1), e) \in Seq(X)
         /\ n + 1 \in e => Kept(Take(t, n + 1), e) = Kept(Take(s, n), d)
         /\ n + 1 \notin e => Kept(Take(t, n + 1), e) = Append(Kept(Take(s, n), d), t[n + 1])
<1> USE DEF SameUpTo
<1> DEFINE p == [i \in 1..n |-> IF i \in d THEN << >> ELSE <<s[i]>>]
           q == [i \in 1..n + 1 |-> IF i \in e THEN << >> ELSE <<t[i]>>]
<1>1. \A i \in 1..n + 1 : t[i] \in X
  OBVIOUS
<1>2. \A i \in 1..n + 1 : <<t[i]>> \in Seq(X)
  BY <1>1
<1>3. << >> \in Seq(X)
  OBVIOUS
<1>4. q \in [1..n + 1 -> Seq(X)]
  BY <1>2, <1>3
<1>5. \A i \in 1..n : q[i] = p[i]
  OBVIOUS
<1>6. p \in [1..n -> Seq(X)]
  BY <1>4, <1>5
<1>7. q[n + 1] = IF n + 1 \in e THEN << >> ELSE <<t[n + 1]>>
  OBVIOUS
<1>8. p = [i \in DOMAIN Take(s, n) |-> IF i \in d THEN << >> ELSE <<Take(s, n)[i]>>]
  BY DEF Take
<1>9. q = [i \in DOMAIN Take(t, n + 1) |-> IF i \in e THEN << >> ELSE <<Take(t, n + 1)[i]>>]
  BY DEF Take
<1>10. Kept(Take(s, n), d) = FlattenSeq(p) /\ Kept(Take(t, n + 1), e) = FlattenSeq(q)
  BY <1>8, <1>9 DEF Kept
<1> HIDE DEF p, q
<1>11. /\ FlattenSeq(p) \in Seq(X) /\ FlattenSeq(q) \in Seq(X)
       /\ FlattenSeq(q) = FlattenSeq(p) \o q[n + 1]
  BY <1>4, <1>5, <1>6, FlattenNext
<1>12. \A u \in Seq(X) : \A c \in X : u \o << >> = u /\ u \o <<c>> = Append(u, c)
  OBVIOUS
<1> QED BY <1>1, <1>7, <1>10, <1>11, <1>12

\* A call more, and what KLEE is to assume.
LEMMA KleeNext ==
  ASSUME NEW X, NEW C, \A x \in X : x.cond \in C, NEW s \in Seq(X), NEW c \in X
  PROVE  /\ KleeConds(s) \in Seq(C)
         /\ KleeConds(Append(s, c)) =
              IF c.callee = "klee_assume" THEN Append(KleeConds(s), c.cond) ELSE KleeConds(s)
<1> DEFINE n == Len(s)
           t == Append(s, c)
           p == [i \in 1..n |-> IF s[i].callee = "klee_assume" THEN <<s[i].cond>> ELSE << >>]
           q == [i \in 1..n + 1 |-> IF t[i].callee = "klee_assume" THEN <<t[i].cond>> ELSE << >>]
<1>1. /\ n \in Nat /\ DOMAIN s = 1..n /\ DOMAIN t = 1..n + 1 /\ t[n + 1] = c
      /\ \A i \in 1..n : t[i] = s[i] /\ s[i] \in X
  OBVIOUS
<1>2. KleeConds(s) = FlattenSeq(p) /\ KleeConds(t) = FlattenSeq(q)
  BY <1>1 DEF KleeConds
<1> HIDE DEF n, t
<1>3. \A i \in 1..n + 1 : t[i] \in X
  BY <1>1
<1>4. \A i \in 1..n + 1 : t[i].cond \in C
  BY <1>3
<1>5. << >> \in Seq(C) /\ \A a \in C : <<a>> \in Seq(C)
  OBVIOUS
<1>6. q \in [1..n + 1 -> Seq(C)]
  BY <1>4, <1>5
<1>7. \A i \in 1..n : q[i] = p[i]
  BY <1>1
<1>8. p \in [1..n -> Seq(C)]
  BY <1>1, <1>6, <1>7
<1>9. q[n + 1] = IF c.callee = "klee_assume" THEN <<c.cond>> ELSE << >>
  BY <1>1
<1> HIDE DEF p, q
<1>10. FlattenSeq(p) \in Seq(C) /\ FlattenSeq(q) = FlattenSeq(p) \o q[n + 1]
  BY <1>1, <1>6, <1>7, <1>8, FlattenNext
<1>11. \A u \in Seq(C) : \A a \in C : u \o << >> = u /\ u \o <<a>> = Append(u, a)
  OBVIOUS
<1>12. c.cond \in C
  OBVIOUS
<1> QED BY <1>2, <1>9, <1>10, <1>11, <1>12 DEF t

LEMMA ProvedNext ==
  ASSUME NEW C, NEW n \in Nat, NEW s, \A i \in 1..n + 1 : s[i].cond \in C
  PROVE  /\ ProvedConds(Take(s, n)) \in Seq(C)
         /\ ProvedConds(Take(s, n + 1)) =
              IF ToAssume(s[n + 1]) THEN Append(ProvedConds(Take(s, n)), s[n + 1].cond)
              ELSE ProvedConds(Take(s, n))
<1> DEFINE p == [i \in 1..n |-> IF ToAssume(s[i]) THEN <<s[i].cond>> ELSE << >>]
           q == [i \in 1..n + 1 |-> IF ToAssume(s[i]) THEN <<s[i].cond>> ELSE << >>]
<1>1. p = [i \in DOMAIN Take(s, n) |-> IF ToAssume(Take(s, n)[i]) THEN <<Take(s, n)[i].cond>> ELSE << >>]
  BY DEF Take
<1>2. q = [i \in DOMAIN Take(s, n + 1) |->
             IF ToAssume(Take(s, n + 1)[i]) THEN <<Take(s, n + 1)[i].cond>> ELSE << >>]
  BY DEF Take
<1>3. ProvedConds(Take(s, n)) = FlattenSeq(p) /\ ProvedConds(Take(s, n + 1)) = FlattenSeq(q)
  BY <1>1, <1>2 DEF ProvedConds
<1>4. << >> \in Seq(C) /\ \A a \in C : <<a>> \in Seq(C)
  OBVIOUS
<1>5. q \in [1..n + 1 -> Seq(C)] /\ p \in [1..n -> Seq(C)]
  BY <1>4
<1>6. \A i \in 1..n : q[i] = p[i]
  OBVIOUS
<1>7. q[n + 1] = IF ToAssume(s[n + 1]) THEN <<s[n + 1].cond>> ELSE << >>
  OBVIOUS
<1> HIDE DEF p, q
<1>8. FlattenSeq(p) \in Seq(C) /\ FlattenSeq(q) = FlattenSeq(p) \o q[n + 1]
  BY <1>5, <1>6, FlattenNext
<1>9. \A u \in Seq(C) : \A a \in C : u \o << >> = u /\ u \o <<a>> = Append(u, a)
  OBVIOUS
<1>10. s[n + 1].cond \in C
  OBVIOUS
<1> QED BY <1>3, <1>7, <1>8, <1>9, <1>10

\* The call that is put in front of another.
Inserted(s, b, k) == SubSeq(s, 1, b - 1) \o <<k>> \o SubSeq(s, b, Len(s))
LEMMA InsertedBefore ==
  ASSUME NEW Y, NEW s \in Seq(Y), NEW b \in 1..Len(s), NEW k \in Y, NEW t, t = Inserted(s, b, k)
  PROVE  /\ t \in Seq(Y) /\ Len(t) = Len(s) + 1 /\ t[b] = k
         /\ \A i \in 1..b - 1 : t[i] = s[i]
         /\ \A i \in b..Len(s) : t[i + 1] = s[i]
<1> DEFINE l == SubSeq(s, 1, b - 1)
           r == SubSeq(s, b, Len(s))
           m == l \o <<k>>
<1>4. Len(s) \in Nat /\ b \in Nat /\ 1 <= b /\ b <= Len(s)
  OBVIOUS
<1>1. l \in Seq(Y) /\ Len(l) = b - 1 /\ \A i \in 1..b - 1 : l[i] = s[i]
  <2>1. l \in Seq(Y) /\ Len(l) = (IF 1 <= b - 1 THEN b - 1 - 1 + 1 ELSE 0)
        /\ \A i \in 1..(b - 1) - 1 + 1 : l[i] = s[1 + i - 1]
    <3>1. b - 1 \in 1 - 1..Len(s)
      BY <1>4
    <3>2. \A i \in 1..b - 1 : s[i] \in Y
      BY <1>4
    <3> QED BY <3>1, <3>2, <1>4, SubSeqProperties
  <2> QED BY <1>4, <2>1
<1>2. r \in Seq(Y) /\ Len(r) = Len(s) - b + 1 /\ \A i \in 1..Len(s) - b + 1 : r[i] = s[b + i - 1]
  BY <1>4, SubSeqProperties
<1>3. t = m \o r
  BY DEF Inserted
<1> HIDE DEF l, r
<1>5. m \in Seq(Y) /\ Len(m) = b /\ m[b] = k /\ \A i \in 1..b - 1 : m[i] = s[i]
  <2>1. <<k>> \in Seq(Y) /\ Len(<<k>>) = 1 /\ <<k>>[1] = k
    OBVIOUS
  <2>2. /\ m \in Seq(Y) /\ Len(m) = Len(l) + 1
        /\ \A i \in 1..Len(l) + 1 : m[i] = IF i <= Len(l) THEN l[i] ELSE <<k>>[i - Len(l)]
    BY <1>1, <2>1, ConcatProperties
  <2> HIDE DEF m
  <2>3. Len(l) + 1 = b /\ b \in 1..b /\ ~(b <= b - 1) /\ b - (b - 1) = 1
    BY <1>1, <1>4
  <2>4. \A i \in 1..b - 1 : i \in 1..b /\ i <= b - 1
    BY <1>4
  <2> QED BY <1>1, <2>1, <2>2, <2>3, <2>4
<1> HIDE DEF m
<1>6. /\ t \in Seq(Y) /\ Len(t) = Len(m) + Len(r)
      /\ \A i \in 1..Len(m) + Len(r) : t[i] = IF i <= Len(m) THEN m[i] ELSE r[i - Len(m)]
  <2>1. /\ m \o r \in Seq(Y) /\ Len(m \o r) = Len(m) + Len(r)
        /\ \A i \in 1..Len(m) + Len(r) : (m \o r)[i] = IF i <= Len(m) THEN m[i] ELSE r[i - Len(m)]
    BY <1>2, <1>5, ConcatProperties
  <2> QED BY <1>3, <2>1, Zenon
<1>7. Len(t) = Len(s) + 1 /\ \A i \in 1..b : t[i] = m[i]
  BY <1>2, <1>4, <1>5, <1>6
<1>8. \A i \in 1..Len(s) - b + 1 : t[b + i] = r[i]
  <2>1. ASSUME NEW i \in 1..Len(s) - b + 1, NEW j, j = b + i PROVE t[j] = r[i]
    <3>1. j \in 1..Len(m) + Len(r) /\ ~(j <= Len(m)) /\ j - Len(m) = i
      BY <1>2, <1>4, <1>5, <2>1
    <3> QED BY <1>6, <3>1, Zenon
  <2> QED BY <2>1
<1>9. ASSUME NEW i \in b..Len(s) PROVE t[i + 1] = s[i]
  <2>1. i - b + 1 \in 1..Len(s) - b + 1 /\ b + (i - b + 1) = i + 1 /\ b + (i - b + 1) - 1 = i
    BY <1>4
  <2> QED BY <1>2, <1>8, <2>1
<1>10. \A i \in 1..b - 1 : t[i] = s[i]
  BY <1>5, <1>7
<1> QED BY <1>5, <1>6, <1>7, <1>9, <1>10

\* The calls of a module and those the bridge puts in.
CallsOf(m) == Range(m.calls) \cup {kleeAssume(c) : c \in Range(m.calls)}
CondsOf(m) == {c.cond : c \in CallsOf(m)}

LEMMA CallFacts ==
  ASSUME NEW m \in BridgeModules
  PROVE  /\ m.calls \in Seq(CallsOf(m)) /\ Len(m.calls) \in Nat
         /\ \A c \in CallsOf(m) : c.cond \in CondsOf(m)
         /\ \A i \in 1..Len(m.calls) :
              LET c == m.calls[i]
              IN  /\ c \in CallsOf(m) /\ kleeAssume(c) \in CallsOf(m)
                  /\ kleeAssume(c).callee = "klee_assume" /\ kleeAssume(c).cond = c.cond
<1>1. m.calls \in Seq(Range(m.calls)) /\ \A i \in DOMAIN m.calls :
        DOMAIN m.calls[i] = {"callee", "tagged", "args", "boolean", "cond"}
  BY BridgeAssumption
<1>2. Len(m.calls) \in Nat /\ DOMAIN m.calls = 1..Len(m.calls)
  BY <1>1
<1>3. \A i \in 1..Len(m.calls) : m.calls[i] \in Range(m.calls)
  BY <1>1, <1>2
<1>4. ASSUME NEW c, DOMAIN c = {"callee", "tagged", "args", "boolean", "cond"}
      PROVE  kleeAssume(c).callee = "klee_assume" /\ kleeAssume(c).cond = c.cond
  BY <1>4 DEF kleeAssume
<1>5. \A i \in 1..Len(m.calls) : m.calls[i] \in CallsOf(m) /\ kleeAssume(m.calls[i]) \in CallsOf(m)
  BY <1>3 DEF CallsOf
<1>6. m.calls \in Seq(CallsOf(m))
  <2>1. Range(m.calls) \subseteq CallsOf(m)
    BY DEF CallsOf
  <2> HIDE DEF CallsOf
  <2> QED BY <1>1, <2>1
<1>7. \A c \in CallsOf(m) : c.cond \in CondsOf(m)
  BY DEF CondsOf
<1> QED BY <1>1, <1>2, <1>4, <1>5, <1>6, <1>7

(***************************************************************************)
(* The scan has the calls from bnext on before it as they were, and of     *)
(* what is behind it the calls that are not to be erased tell KLEE what    *)
(* Clam has proved in the calls it came from (the first j).                *)
(***************************************************************************)
Scanned(j) ==
  /\ j + (Len(insts) - (bnext - 1)) = Len(bmod.calls)
  /\ \A i \in 1..Len(bmod.calls) - j : insts[bnext - 1 + i] = bmod.calls[j + i]
  /\ KleeConds(Kept(Take(insts, bnext - 1), toErase)) = ProvedConds(Take(bmod.calls, j))
ScanInv ==
  /\ insts \in Seq(CallsOf(bmod))
  /\ bnext \in 1..Len(insts) + 1
  /\ toErase \subseteq 1..bnext - 1
  /\ \E j \in Nat : Scanned(j)
BridgeInv ==
  /\ bmod \in BridgeModules
  /\ bphase = "scan" => ScanInv
  /\ AssumesWhatClamProved

LEMMA BridgeInitInv == BridgeInit => BridgeInv
<1> SUFFICES ASSUME BridgeInit PROVE BridgeInv
  OBVIOUS
<1>1. bmod \in BridgeModules /\ insts = bmod.calls /\ bphase = "scan" /\ bnext = 1 /\ toErase = {}
  BY DEF BridgeInit
<1>2. insts \in Seq(CallsOf(bmod)) /\ Len(insts) \in Nat
  BY <1>1, CallFacts
<1>3. FlattenSeq(<< >>) = << >>
  BY DEF FlattenSeq
<1>4. \A s : Take(s, 0) = << >>
  BY DEF Take
<1>5. Kept(<< >>, {}) = << >> /\ KleeConds(<< >>) = << >> /\ ProvedConds(<< >>) = << >>
  <2>1. [i \in DOMAIN << >> |-> IF i \in {} THEN << >> ELSE << << >>[i] >>] = << >>
    OBVIOUS
  <2>2. [i \in DOMAIN << >> |-> IF << >>[i].callee = "klee_assume" THEN << << >>[i].cond>> ELSE << >>] = << >>
    OBVIOUS
  <2>3. [i \in DOMAIN << >> |-> IF ToAssume(<< >>[i]) THEN << << >>[i].cond>> ELSE << >>] = << >>
    OBVIOUS
  <2> QED BY <1>3, <2>1, <2>2, <2>3 DEF Kept, KleeConds, ProvedConds
<1>6. KleeConds(Kept(Take(insts, 0), {})) = ProvedConds(Take(bmod.calls, 0))
  BY <1>4, <1>5
<1>7. Scanned(0)
  <2>1. bnext - 1 = 0
    BY <1>1
  <2>2. 0 + (Len(insts) - 0) = Len(bmod.calls)
    BY <1>1, <1>2
  <2>3. \A i \in 1..Len(bmod.calls) - 0 : 0 + i = i
    OBVIOUS
  <2> QED BY <1>1, <1>6, <2>1, <2>2, <2>3 DEF Scanned
<1>8. ScanInv
  BY <1>1, <1>2, <1>7 DEF ScanInv
<1> QED BY <1>1, <1>8 DEF BridgeInv, AssumesWhatClamProved

\* The state of the scan before a call: n instructions behind it, c next.
LEMMA BridgeCallStep == BridgeInv /\ BridgeCall => BridgeInv'
<1> SUFFICES ASSUME BridgeInv, BridgeCall PROVE BridgeInv'
  OBVIOUS
<1> DEFINE Y == CallsOf(bmod)
           C == CondsOf(bmod)
           n == bnext - 1
           c == insts[bnext]
           K == Kept(Take(insts, n), toErase)
<1>1. /\ bmod \in BridgeModules /\ ScanInv /\ bphase = "scan" /\ bnext <= Len(insts)
      /\ bmod' = bmod /\ bphase' = "scan"
  BY DEF BridgeInv, BridgeCall
<1>2. PICK j \in Nat : Scanned(j)
  BY <1>1 DEF ScanInv
<1>3. /\ insts \in Seq(Y) /\ Len(insts) \in Nat /\ bnext \in Nat /\ n \in Nat /\ n + 1 = bnext
      /\ bnext \in 1..Len(insts) /\ toErase \subseteq 1..n
      /\ \A i \in 1..n : insts[i] \in Y
  BY <1>1 DEF ScanInv
<1>4. /\ Len(bmod.calls) \in Nat /\ j + (Len(insts) - n) = Len(bmod.calls)
      /\ \A i \in 1..Len(bmod.calls) - j : insts[n + i] = bmod.calls[j + i]
      /\ KleeConds(K) = ProvedConds(Take(bmod.calls, j))
  BY <1>1, <1>2, CallFacts DEF Scanned
<1>5. j + 1 \in 1..Len(bmod.calls) /\ 1 \in 1..Len(bmod.calls) - j
  BY <1>3, <1>4
<1>6. c = bmod.calls[j + 1]
  BY <1>3, <1>4, <1>5
<1>7. /\ c \in Y /\ kleeAssume(c) \in Y
      /\ kleeAssume(c).callee = "klee_assume" /\ kleeAssume(c).cond = c.cond
      /\ \A x \in Y : x.cond \in C
  BY <1>1, <1>5, <1>6, CallFacts
<1>8. \A i \in 1..j + 1 : bmod.calls[i].cond \in C
  <2>1. \A i \in 1..j + 1 : i \in 1..Len(bmod.calls)
    BY <1>4, <1>5
  <2> QED BY <1>1, <2>1, CallFacts
<1>9. ProvedConds(Take(bmod.calls, j + 1)) =
        IF ToAssume(c) THEN Append(KleeConds(K), c.cond) ELSE KleeConds(K)
  BY <1>4, <1>6, <1>8, ProvedNext
<1>10. ToAssume(c) <=> c.callee = "klee_assume" \/ (Bridged(c) /\ ~Trivial(c))
  BY DEF ToAssume, Bridged, isAssumeLike, Trivial
<1>11. Bridged(c) => c.callee # "klee_assume"
  BY DEF Bridged, isAssumeLike
<1> HIDE DEF c, n, Y, C
\* What is kept of the instructions up to one more, and what is assumed.
<1>12. ASSUME NEW t, NEW e, NEW x \in Y, \A i \in 1..n : insts[i] = t[i], t[n + 1] = x,
              \A i \in 1..n : i \in toErase <=> i \in e
       PROVE  /\ K \in Seq(Y)
              /\ n + 1 \in e => Kept(Take(t, n + 1), e) = K
              /\ n + 1 \notin e =>
                   KleeConds(Kept(Take(t, n + 1), e)) =
                     IF x.callee = "klee_assume" THEN Append(KleeConds(K), x.cond) ELSE KleeConds(K)
  <2>1. /\ K \in Seq(Y)
        /\ n + 1 \in e => Kept(Take(t, n + 1), e) = K
        /\ n + 1 \notin e => Kept(Take(t, n + 1), e) = Append(K, x)
    <3>1. n \in Nat /\ SameUpTo(Y, n, insts, t, toErase, e)
      BY <1>3, <1>12 DEF SameUpTo
    <3>2. /\ Kept(Take(insts, n), toErase) \in Seq(Y)
          /\ n + 1 \in e => Kept(Take(t, n + 1), e) = Kept(Take(insts, n), toErase)
          /\ n + 1 \notin e => Kept(Take(t, n + 1), e) = Append(Kept(Take(insts, n), toErase), t[n + 1])
      BY <3>1, KeptNext
    <3> QED BY <1>12, <3>2
  <2> HIDE DEF K
  <2>2. KleeConds(Append(K, x)) =
          IF x.callee = "klee_assume" THEN Append(KleeConds(K), x.cond) ELSE KleeConds(K)
    BY <1>7, <2>1, KleeNext
  <2> QED BY <2>1, <2>2
<1> HIDE DEF K
<1>13. j + 1 \in Nat /\ \A i \in 1..Len(bmod.calls) - (j + 1) :
         i + 1 \in 1..Len(bmod.calls) - j /\ (j + 1) + i = j + (i + 1)
  BY <1>4
<1>14. CASE ~Bridged(c)
  <2>1. bnext' = bnext + 1 /\ insts' = insts /\ toErase' = toErase
    BY <1>14 DEF BridgeCall, c
  <2>2. n + 1 \notin toErase
    BY <1>3
  <2>3. KleeConds(Kept(Take(insts, n + 1), toErase)) = ProvedConds(Take(bmod.calls, j + 1))
    BY <1>3, <1>7, <1>9, <1>10, <1>12, <1>14, <2>2 DEF c
  <2>4. bnext' - 1 = n + 1 /\ (j + 1) + (Len(insts) - (n + 1)) = Len(bmod.calls)
    <3>1. /\ n \in Nat /\ Len(insts) \in Nat /\ Len(bmod.calls) \in Nat
          /\ bnext = n + 1 /\ bnext' = bnext + 1 /\ j + (Len(insts) - n) = Len(bmod.calls)
      BY <1>3, <1>4, <2>1
    <3> HIDE DEF n
    <3> QED BY <3>1
  <2>5. \A i \in 1..Len(bmod.calls) - (j + 1) : insts[n + 1 + i] = bmod.calls[(j + 1) + i]
    <3> TAKE i \in 1..Len(bmod.calls) - (j + 1)
    <3>1. n + 1 + i = n + (i + 1)
      BY <1>3, <1>4
    <3> QED BY <1>4, <1>13, <3>1
  <2>6. Scanned(j + 1)'
    BY <1>1, <2>1, <2>3, <2>4, <2>5 DEF Scanned
  <2>7. ScanInv'
    <3>1. bnext' \in 1..Len(insts) + 1 /\ toErase \subseteq 1..bnext' - 1
      BY <1>3, <2>1
    <3> QED BY <1>1, <1>3, <1>13, <2>1, <2>6, <3>1 DEF ScanInv, Y
  <2> QED BY <1>1, <2>7 DEF BridgeInv, AssumesWhatClamProved
<1>15. CASE Bridged(c) /\ Trivial(c)
  <2>1. bnext' = bnext + 1 /\ insts' = insts /\ toErase' = toErase \cup {bnext}
    BY <1>15 DEF BridgeCall, c
  <2>2. n + 1 \in toErase' /\ \A i \in 1..n : i \in toErase <=> i \in toErase'
    BY <1>3, <2>1
  <2>3. KleeConds(Kept(Take(insts, n + 1), toErase')) = ProvedConds(Take(bmod.calls, j + 1))
    BY <1>3, <1>7, <1>9, <1>10, <1>11, <1>12, <1>15, <2>2 DEF c
  <2>4. bnext' - 1 = n + 1 /\ (j + 1) + (Len(insts) - (n + 1)) = Len(bmod.calls)
    <3>1. /\ n \in Nat /\ Len(insts) \in Nat /\ Len(bmod.calls) \in Nat
          /\ bnext = n + 1 /\ bnext' = bnext + 1 /\ j + (Len(insts) - n) = Len(bmod.calls)
      BY <1>3, <1>4, <2>1
    <3> HIDE DEF n
    <3> QED BY <3>1
  <2>5. \A i \in 1..Len(bmod.calls) - (j + 1) : insts[n + 1 + i] = bmod.calls[(j + 1) + i]
    <3> TAKE i \in 1..Len(bmod.calls) - (j + 1)
    <3>1. n + 1 + i = n + (i + 1)
      BY <1>3, <1>4
    <3> QED BY <1>4, <1>13, <3>1
  <2>6. Scanned(j + 1)'
    BY <1>1, <2>1, <2>3, <2>4, <2>5 DEF Scanned
  <2>7. ScanInv'
    <3>1. bnext' \in 1..Len(insts) + 1 /\ toErase' \subseteq 1..bnext' - 1
      BY <1>3, <2>1
    <3> QED BY <1>1, <1>3, <1>13, <2>1, <2>6, <3>1 DEF ScanInv, Y
  <2> QED BY <1>1, <2>7 DEF BridgeInv, AssumesWhatClamProved
<1>16. CASE Bridged(c) /\ ~Trivial(c)
  <2> DEFINE k == kleeAssume(c)
             t == insts'
  <2>1. /\ t = Inserted(insts, bnext, k)
        /\ bnext' = bnext + 2 /\ toErase' = toErase \cup {bnext + 1}
    BY <1>16 DEF BridgeCall, Inserted, c
  <2> HIDE DEF k, t
  <2>2. /\ t \in Seq(Y) /\ Len(t) = Len(insts) + 1 /\ t[bnext] = k
        /\ \A i \in 1..bnext - 1 : t[i] = insts[i]
        /\ \A i \in bnext..Len(insts) : t[i + 1] = insts[i]
    <3>1. k \in Y /\ bnext \in 1..Len(insts) /\ insts \in Seq(Y)
      BY <1>3, <1>7 DEF k
    <3> QED BY <2>1, <3>1, InsertedBefore
  <2>3. /\ n + 1 \notin toErase' /\ (n + 1) + 1 \in toErase'
        /\ \A i \in 1..n : i \in toErase <=> i \in toErase'
        /\ bnext \in bnext..Len(insts) /\ n = bnext - 1
    BY <1>3, <2>1
  <2>4. KleeConds(Kept(Take(t, n + 1), toErase')) = Append(KleeConds(K), c.cond)
    BY <1>3, <1>7, <1>12, <2>2, <2>3 DEF k
  <2>5. Kept(Take(t, (n + 1) + 1), toErase') = Kept(Take(t, n + 1), toErase')
    <3>1. t[(n + 1) + 1] \in Y /\ \A i \in 1..n + 1 : t[i] \in Y
      BY <1>3, <2>2
    <3>2. n + 1 \in Nat /\ SameUpTo(Y, n + 1, t, t, toErase', toErase')
      BY <1>3, <3>1 DEF SameUpTo
    <3>3. ASSUME NEW i \in Nat, NEW u, NEW e, SameUpTo(Y, i, u, u, e, e)
          PROVE  i + 1 \in e => Kept(Take(u, i + 1), e) = Kept(Take(u, i), e)
      <4>1. /\ Kept(Take(u, i), e) \in Seq(Y) /\ Kept(Take(u, i + 1), e) \in Seq(Y)
            /\ i + 1 \in e => Kept(Take(u, i + 1), e) = Kept(Take(u, i), e)
            /\ i + 1 \notin e => Kept(Take(u, i + 1), e) = Append(Kept(Take(u, i), e), u[i + 1])
        BY <3>3, KeptNext
      <4> QED BY <4>1
    <3> QED BY <2>3, <3>2, <3>3
  <2>6. KleeConds(Kept(Take(t, (n + 1) + 1), toErase')) = ProvedConds(Take(bmod.calls, j + 1))
    BY <1>9, <1>10, <1>16, <2>4, <2>5
  <2>7. bnext' - 1 = (n + 1) + 1 /\ (j + 1) + (Len(t) - ((n + 1) + 1)) = Len(bmod.calls)
    <3>1. Len(t) = Len(insts) + 1
      BY <2>2
    <3>2. bnext' = n + 3
      BY <1>3, <2>1
    <3>3. n \in Nat /\ Len(insts) \in Nat /\ j + (Len(insts) - n) = Len(bmod.calls)
      BY <1>3, <1>4
    <3>4. ASSUME NEW a \in Nat, NEW b \in Nat, NEW d, j + (a - b) = d
          PROVE  (b + 3) - 1 = (b + 1) + 1 /\ (j + 1) + ((a + 1) - ((b + 1) + 1)) = d
      BY <3>4
    <3> QED BY <3>1, <3>2, <3>3, <3>4
  <2>8. \A i \in 1..Len(bmod.calls) - (j + 1) : t[(n + 1) + 1 + i] = bmod.calls[(j + 1) + i]
    <3> TAKE i \in 1..Len(bmod.calls) - (j + 1)
    <3>1. (n + 1) + 1 + i = (n + (i + 1)) + 1 /\ n + (i + 1) \in bnext..Len(insts)
      BY <1>3, <1>4
    <3> QED BY <1>4, <1>13, <2>2, <3>1
  <2>9. Scanned(j + 1)'
    BY <1>1, <2>6, <2>7, <2>8 DEF Scanned, t
  <2>10. ScanInv'
    <3>1. bnext' \in 1..Len(t) + 1 /\ toErase' \subseteq 1..bnext' - 1
      BY <1>3, <2>1, <2>2
    <3> QED BY <1>1, <1>13, <2>2, <2>9, <3>1 DEF ScanInv, Y, t
  <2> QED BY <1>1, <2>10 DEF BridgeInv, AssumesWhatClamProved
<1> QED BY <1>14, <1>15, <1>16

LEMMA BridgeEraseStep == BridgeInv /\ BridgeErase => BridgeInv'
<1> SUFFICES ASSUME BridgeInv, BridgeErase PROVE BridgeInv'
  OBVIOUS
<1>1. /\ bmod \in BridgeModules /\ ScanInv /\ bnext > Len(insts)
      /\ bmod' = bmod /\ bphase' = "link" /\ insts' = Kept(insts, toErase)
  BY DEF BridgeInv, BridgeErase, Left
<1>2. PICK j \in Nat : Scanned(j)
  BY <1>1 DEF ScanInv
<1>3. /\ insts \in Seq(CallsOf(bmod)) /\ Len(insts) \in Nat /\ bnext - 1 = Len(insts)
  BY <1>1 DEF ScanInv
<1>4. bmod.calls \in Seq(CallsOf(bmod)) /\ Len(bmod.calls) \in Nat
  BY <1>1, CallFacts
<1>5. j = Len(bmod.calls)
  BY <1>2, <1>3, <1>4 DEF Scanned
<1>6. ASSUME NEW X, NEW s \in Seq(X) PROVE Take(s, Len(s)) = s
  BY DEF Take
<1>7. Take(insts, bnext - 1) = insts /\ Take(bmod.calls, j) = bmod.calls
  BY <1>3, <1>4, <1>5, <1>6
<1>8. KleeConds(Kept(insts, toErase)) = ProvedConds(bmod.calls)
  BY <1>2, <1>7 DEF Scanned
<1> QED BY <1>1, <1>8 DEF BridgeInv, AssumesWhatClamProved

LEMMA BridgeStep == BridgeInv /\ [BridgeNext]_bvars => BridgeInv'
<1> SUFFICES ASSUME BridgeInv, [BridgeNext]_bvars PROVE BridgeInv'
  OBVIOUS
<1>1. CASE BridgeCall
  BY <1>1, BridgeCallStep
<1>2. CASE BridgeErase
  BY <1>2, BridgeEraseStep
<1>3. CASE InternalToExternal
  <2>1. /\ bmod' = bmod /\ insts' = insts /\ bphase = "link" /\ bphase' = "done"
    BY <1>3 DEF InternalToExternal
  <2> QED BY <2>1 DEF BridgeInv, AssumesWhatClamProved
<1>4. CASE UNCHANGED bvars
  <2>1. /\ bmod' = bmod /\ insts' = insts /\ bphase' = bphase
        /\ toErase' = toErase /\ bnext' = bnext
    BY <1>4 DEF bvars
  <2> QED BY <2>1 DEF BridgeInv, ScanInv, Scanned, AssumesWhatClamProved
<1> QED BY <1>1, <1>2, <1>3, <1>4 DEF BridgeNext

(***************************************************************************)
(* For every module, with the option that asks for tagged calls or without *)
(* it: what the bridge has KLEE assume is what KLEE was told to assume     *)
(* before and what Clam has proved, in the order of the program            *)
(* (AssumesWhatClamProved), although the calls move while they are         *)
(* scanned and the places to erase are counted in the moved module.        *)
(***************************************************************************)
THEOREM KleeAssumesWhatClamProved == BridgeSpec => []AssumesWhatClamProved
<1>1. BridgeInv => AssumesWhatClamProved
  BY DEF BridgeInv
<1> QED BY <1>1, BridgeInitInv, BridgeStep, PTL DEF BridgeSpec
-----------------------------------------------------------------------------
(* The policy-prune pass.                                                  *)

(***************************************************************************)
(* The inductive invariant.  While a loop runs, relevant lies between its  *)
(* seed and the least fixpoint; as long as the current sweep has changed   *)
(* nothing, the nodes it has visited need no further change.               *)
(***************************************************************************)
UpInv ==
  phase = "up" =>
    /\ Directly \subseteq relevant
    /\ relevant \subseteq Up
    /\ ~changed => \A f \in mod.defined \ todo :
                     Callees(f) \cap relevant # {} => f \in relevant

DownInv ==
  phase = "down" =>
    /\ Seed \subseteq relevant
    /\ relevant \subseteq Down
    /\ ~changed => \A f \in relevant \ todo :
                     Callees(f) \cap mod.defined \subseteq relevant

MarkInv ==
  /\ phase \in {"taken", "helpers"} => todo = Funcs
  /\ phase = "taken" => relevant = Up
  /\ phase = "helpers" => relevant = Up \cup (mod.taken \cap mod.defined)

DoneInv ==
  /\ phase \in {"stub", "done"} => relevant = Down
  /\ phase = "done" => stubbed = mod.defined \ (mod.reserved \cup relevant)

IInv == TypeOK /\ mod \in Modules /\ UpInv /\ MarkInv /\ DownInv /\ DoneInv

-----------------------------------------------------------------------------
(* Facts about the module and the two least fixpoints.                     *)

\* The scan only finds functions of the module, and only functions with a
\* body call anything.
LEMMA ModuleFacts ==
  ASSUME mod \in Modules
  PROVE  /\ Directly \subseteq Funcs
         /\ mod.defined \subseteq Funcs
         /\ mod.taken \subseteq Funcs
         /\ mod.helpers \subseteq Funcs
         /\ mod.indirect \subseteq mod.defined
         /\ \A f \in Funcs : f \notin mod.defined => Callees(f) = {}
<1>1. mod \in Module
  BY ModuleAssumption
<1>2. /\ mod.defined \subseteq Funcs /\ mod.taken \subseteq Funcs
      /\ mod.helpers \subseteq Funcs /\ mod.hits \subseteq Funcs
      /\ mod.entry \in Funcs \cup {None}
  BY <1>1 DEF Module
<1>3. Directly \subseteq Funcs
  BY <1>2 DEF Directly
<1>4. \A f \in Funcs : f \notin mod.defined => Callees(f) = {}
  <2> SUFFICES ASSUME NEW f \in Funcs, f \notin mod.defined, NEW g \in Callees(f)
               PROVE  FALSE
    OBVIOUS
  <2>1. <<f, g>> \in mod.calls
    BY DEF Callees
  <2>2. <<f, g>>[1] \in mod.defined
    BY <2>1, ModuleAssumption
  <2> QED
    BY <2>2
<1> QED
  BY <1>2, <1>3, <1>4, ModuleAssumption

\* Up is the least set the upward rule is closed in.
LEMMA UpIsLeast ==
  ASSUME mod \in Modules
  PROVE  /\ Up \subseteq Funcs
         /\ UpClosed(Up)
         /\ \A S \in SUBSET Funcs : UpClosed(S) => Up \subseteq S
<1>1. Directly \subseteq Up
  BY ModuleFacts DEF Up, UpClosed
<1>2. ASSUME NEW f \in mod.defined, Callees(f) \cap Up # {}
      PROVE  f \in Up
  <2>1. PICK g \in Callees(f) : g \in Up
    BY <1>2
  <2>2. ASSUME NEW S \in SUBSET Funcs, UpClosed(S)
        PROVE  f \in S
    <3>1. g \in S
      BY <2>1, <2>2 DEF Up
    <3> QED
      BY <2>1, <2>2, <3>1 DEF UpClosed
  <2> QED
    BY <2>2, ModuleFacts DEF Up
<1> QED
  BY <1>1, <1>2 DEF Up, UpClosed

\* Down is the least set that the downward rule is closed in.
LEMMA DownIsLeast ==
  ASSUME mod \in Modules
  PROVE  /\ Down \subseteq Funcs
         /\ DownClosed(Down)
         /\ \A S \in SUBSET Funcs : DownClosed(S) => Down \subseteq S
<1>1. Seed \subseteq Funcs
  BY ModuleFacts, UpIsLeast DEF Seed
<1>2. Seed \subseteq Down
  BY <1>1 DEF Down, DownClosed
<1>3. ASSUME NEW f \in Down, NEW g \in Callees(f) \cap mod.defined
      PROVE  g \in Down
  <2>1. ASSUME NEW S \in SUBSET Funcs, DownClosed(S)
        PROVE  g \in S
    <3>1. f \in S
      BY <1>3, <2>1 DEF Down
    <3> QED
      BY <1>3, <2>1, <3>1 DEF DownClosed
  <2> QED
    BY <1>3, <2>1, ModuleFacts DEF Down
<1> QED
  BY <1>2, <1>3 DEF Down, DownClosed

\* A step does not change the module, so it does not change what the loops
\* are meant to compute.
LEMMA Rigid ==
  ASSUME mod' = mod
  PROVE  /\ Directly' = Directly
         /\ Up' = Up
         /\ Seed' = Seed
         /\ Down' = Down
         /\ \A f : Callees(f)' = Callees(f)
<1>1. \A f : Callees(f)' = Callees(f)
  BY DEF Callees
<1>2. Directly' = Directly
  BY DEF Directly
<1>3. \A S : UpClosed(S)' <=> UpClosed(S)
  BY <1>2 DEF UpClosed, Callees
<1>4. Up' = Up
  BY <1>3 DEF Up
<1>5. Seed' = Seed
  BY <1>4 DEF Seed
<1>6. \A S : DownClosed(S)' <=> DownClosed(S)
  BY <1>5 DEF DownClosed, Callees
<1> QED
  BY <1>1, <1>2, <1>4, <1>5, <1>6 DEF Down

-----------------------------------------------------------------------------

\* The pass starts with what the instruction scan found, inside both least
\* fixpoints.
LEMMA InitInv == Init => IInv
<1> SUFFICES ASSUME Init PROVE IInv
  OBVIOUS
<1>1. mod \in Modules /\ mod \in Module
  BY ModuleAssumption DEF Init
<1>2. relevant = Directly
  BY DEF Init, Directly
<1>3. TypeOK
  BY <1>1, <1>2, ModuleFacts DEF Init, TypeOK
<1>4. UpInv
  BY <1>1, <1>2, ModuleFacts, UpIsLeast DEF Init, UpInv, UpClosed
<1> QED
  BY <1>1, <1>3, <1>4 DEF Init, IInv, MarkInv, DownInv, DoneInv

\* Every visit, sweep end and marking loop of the pass keeps the invariant.
LEMMA StepInv == IInv /\ [Next]_vars => IInv'
<1> SUFFICES ASSUME IInv, [Next]_vars PROVE IInv'
  OBVIOUS
<1> USE DEF IInv
<1>0. /\ mod \in Modules
      /\ mod' = mod
      /\ mod' \in Modules /\ mod' \in Module
  BY ModuleAssumption DEF Next, vars, VisitUp, VisitDown, EndSweep,
     MarkAddressTaken, MarkHelpers, Stub
<1>r. /\ Directly' = Directly /\ Up' = Up /\ Seed' = Seed /\ Down' = Down
      /\ \A f : Callees(f)' = Callees(f)
  BY <1>0, Rigid
<1>1. ASSUME NEW f \in Funcs, VisitUp(f) PROVE IInv'
  <2>1. TypeOK'
    BY <1>0, <1>1, ModuleFacts DEF VisitUp, TypeOK
  <2>2. UpInv'
    <3>1. relevant' \subseteq Up
      BY <1>0, <1>1, UpIsLeast DEF VisitUp, UpInv, UpClosed
    <3>2. Directly \subseteq relevant'
      BY <1>1 DEF VisitUp, UpInv
    <3>3. ASSUME ~changed', NEW g \in mod.defined \ todo',
                 Callees(g) \cap relevant' # {}
          PROVE  g \in relevant'
      <4>1. relevant' = relevant /\ ~changed
        BY <1>1, <3>3 DEF VisitUp, TypeOK
      <4>2. CASE g = f
        BY <1>1, <3>3, <4>1, <4>2 DEF VisitUp
      <4>3. CASE g # f
        BY <1>1, <3>3, <4>1, <4>3 DEF VisitUp, UpInv
      <4> QED
        BY <4>2, <4>3
    <3> QED
      BY <1>0, <1>r, <3>1, <3>2, <3>3 DEF UpInv
  <2> QED
    BY <1>0, <1>1, <2>1, <2>2 DEF VisitUp, MarkInv, DownInv, DoneInv
<1>2. ASSUME EndSweep("up", "taken") PROVE IInv'
  <2>1. TypeOK'
    BY <1>0, <1>2 DEF EndSweep, TypeOK
  <2>2. CASE changed
    BY <1>0, <1>r, <1>2, <2>1, <2>2, ModuleFacts
       DEF EndSweep, UpInv, MarkInv, DownInv, DoneInv
  <2>3. CASE ~changed
    <3>1. UpClosed(relevant)
      BY <1>2, <2>3 DEF EndSweep, UpInv, UpClosed
    <3>2. relevant = Up
      BY <1>0, <1>2, <3>1, UpIsLeast DEF EndSweep, UpInv, TypeOK
    <3> QED
      BY <1>0, <1>r, <1>2, <2>1, <2>3, <3>2
         DEF EndSweep, UpInv, MarkInv, DownInv, DoneInv
  <2> QED
    BY <2>2, <2>3
<1>3. ASSUME MarkAddressTaken PROVE IInv'
  <2>1. TypeOK'
    BY <1>0, <1>3, ModuleFacts DEF MarkAddressTaken, TypeOK
  <2> QED
    BY <1>0, <1>r, <1>3, <2>1
       DEF MarkAddressTaken, UpInv, MarkInv, DownInv, DoneInv
<1>4. ASSUME MarkHelpers PROVE IInv'
  <2>1. TypeOK'
    BY <1>0, <1>4, ModuleFacts DEF MarkHelpers, TypeOK
  <2>2. relevant' = Seed
    BY <1>4 DEF MarkHelpers, MarkInv, Seed
  <2>3. relevant' \subseteq Down
    BY <1>0, <2>2, DownIsLeast DEF DownClosed
  <2>4. todo' = Funcs
    BY <1>4 DEF MarkHelpers, MarkInv
  <2>5. DownInv'
    BY <1>0, <1>r, <2>1, <2>2, <2>3, <2>4 DEF DownInv, TypeOK
  <2> QED
    BY <1>0, <1>4, <2>1, <2>5 DEF MarkHelpers, UpInv, MarkInv, DoneInv
<1>5. ASSUME NEW f \in Funcs, VisitDown(f) PROVE IInv'
  <2> DEFINE new == IF f \in relevant THEN (Callees(f) \cap mod.defined) \ relevant
                                      ELSE {}
  <2>0. /\ relevant' = relevant \cup new /\ changed' = (changed \/ new # {})
        /\ phase = "down" /\ phase' = "down" /\ todo' = todo \ {f}
        /\ stubbed' = stubbed
    BY <1>5 DEF VisitDown
  <2>1. TypeOK'
    BY <1>0, <2>0, ModuleFacts DEF TypeOK
  <2>2. DownInv'
    <3>1. relevant' \subseteq Down
      BY <1>0, <2>0, DownIsLeast DEF DownInv, DownClosed
    <3>2. Seed \subseteq relevant'
      BY <2>0 DEF DownInv
    <3>3. ASSUME ~changed', NEW g \in relevant' \ todo'
          PROVE  Callees(g) \cap mod.defined \subseteq relevant'
      <4>1. new = {} /\ ~changed /\ relevant' = relevant
        BY <2>0, <3>3 DEF TypeOK
      <4>2. CASE g = f
        BY <3>3, <4>1, <4>2
      <4>3. CASE g # f
        BY <2>0, <3>3, <4>1, <4>3 DEF DownInv
      <4> QED
        BY <4>2, <4>3
    <3> QED
      BY <1>0, <1>r, <3>1, <3>2, <3>3 DEF DownInv
  <2> QED
    BY <1>0, <2>0, <2>1, <2>2 DEF UpInv, MarkInv, DoneInv
<1>6. ASSUME EndSweep("down", "stub") PROVE IInv'
  <2>1. TypeOK'
    BY <1>0, <1>6 DEF EndSweep, TypeOK
  <2>2. CASE changed
    BY <1>0, <1>r, <1>6, <2>1, <2>2
       DEF EndSweep, UpInv, MarkInv, DownInv, DoneInv, TypeOK
  <2>3. CASE ~changed
    <3>1. DownClosed(relevant)
      BY <1>6, <2>3 DEF EndSweep, DownInv, DownClosed
    <3>2. relevant = Down
      BY <1>0, <1>6, <3>1, DownIsLeast DEF EndSweep, DownInv, TypeOK
    <3> QED
      BY <1>0, <1>r, <1>6, <2>1, <2>3, <3>2
         DEF EndSweep, UpInv, MarkInv, DownInv, DoneInv
  <2> QED
    BY <2>2, <2>3
<1>7. ASSUME Stub PROVE IInv'
  <2>1. TypeOK'
    BY <1>0, <1>7 DEF Stub, TypeOK
  <2> QED
    BY <1>0, <1>r, <1>7, <2>1 DEF Stub, UpInv, MarkInv, DownInv, DoneInv
<1>8. CASE UNCHANGED vars
  <2>1. TypeOK'
    BY <1>0, <1>8 DEF vars, TypeOK
  <2> QED
    BY <1>0, <1>r, <1>8, <2>1 DEF vars, UpInv, MarkInv, DownInv, DoneInv
<1> QED
  BY <1>1, <1>2, <1>3, <1>4, <1>5, <1>6, <1>7, <1>8 DEF Next

\* The inductive invariant holds throughout a run of the pass.
THEOREM PruneInvariant == Spec => []IInv
  BY InitInv, StepInv, PTL DEF Spec

\* Type correctness of the pass, for modules of any size.
THEOREM PruneTypeCorrect == Spec => []TypeOK
<1>1. IInv => TypeOK
  BY DEF IInv
<1> QED
  BY <1>1, PruneInvariant, PTL

-----------------------------------------------------------------------------

(***************************************************************************)
(* Whatever the order of the sweeps, policy-prune keeps exactly the least  *)
(* set of functions its rules ask for.                                     *)
(***************************************************************************)
THEOREM PruneOrderIndependent == Spec => []OrderIndependent
<1>1. IInv => OrderIndependent
  BY DEF IInv, DoneInv, OrderIndependent
<1> QED
  BY <1>1, PruneInvariant, PTL

(***************************************************************************)
(* Code KLEE can reach from a relevant function is never stubbed, through  *)
(* direct calls and through pointers.                                      *)
(***************************************************************************)
THEOREM PruneKeepsWhatRuns == Spec => []KeepsWhatRuns
<1>1. IInv => KeepsWhatRuns
  <2> SUFFICES ASSUME IInv, phase = "done", NEW root \in relevant,
                      NEW g \in Reach(root) \cap stubbed
               PROVE  FALSE
    BY DEF KeepsWhatRuns
  <2> DEFINE S == relevant \cup (Funcs \ mod.defined)
  <2>0. mod \in Modules /\ relevant = Down
    BY DEF IInv, DoneInv
  <2>1. S \in SUBSET Funcs /\ root \in S
    BY DEF IInv, TypeOK
  <2>2. ASSUME NEW f \in S, NEW h \in MayCall(f)
        PROVE  h \in S
    <3>1. CASE f \notin mod.defined
      BY <2>0, <2>1, <2>2, <3>1, ModuleFacts DEF MayCall
    <3>2. CASE f \in mod.defined /\ h \in mod.defined
      <4>1. f \in relevant
        BY <2>2, <3>2
      <4>2. CASE h \in Callees(f)
        BY <2>0, <3>2, <4>1, <4>2, DownIsLeast DEF DownClosed
      <4>3. CASE h \in mod.taken
        BY <2>0, <3>2, <4>3, DownIsLeast DEF DownClosed, Seed
      <4> QED
        BY <2>2, <4>2, <4>3 DEF MayCall
    <3>3. CASE h \notin mod.defined
      BY <2>0, <2>2, <3>3, ModuleFacts DEF MayCall, Callees
    <3> QED
      BY <3>1, <3>2, <3>3
  <2>3. ClosedUnder(S, MayCall)
    BY <2>2 DEF ClosedUnder
  <2>4. g \in S
    BY <2>1, <2>3 DEF Reach
  <2> QED
    BY <2>4 DEF IInv, DoneInv
<1> QED
  BY <1>1, PruneInvariant, PTL

(***************************************************************************)
(* A function from which direct calls must lead to a policy-relevant       *)
(* function is kept.                                                       *)
(***************************************************************************)
THEOREM PruneKeepsDirectCallers == Spec => []KeepsDirectCallers
<1>1. IInv => KeepsDirectCallers
  <2> SUFFICES ASSUME IInv, phase = "done", NEW f \in mod.defined,
                      \A S \in SUBSET Funcs :
                        f \in S /\ ClosedUnder(S, Callees) => S \cap Directly # {},
                      f \in stubbed
               PROVE  FALSE
    BY DEF KeepsDirectCallers
  <2> DEFINE S == Funcs \ Up
  <2>0. mod \in Modules /\ f \in Funcs
    BY ModuleFacts DEF IInv
  <2>1. ASSUME NEW h \in S, NEW g \in Callees(h)
        PROVE  g \in S
    <3>1. h \in mod.defined /\ g \in Funcs
      BY <2>0, <2>1, ModuleFacts DEF Callees
    <3> QED
      BY <2>0, <2>1, <3>1, UpIsLeast DEF UpClosed
  <2>2. ClosedUnder(S, Callees)
    BY <2>1 DEF ClosedUnder
  <2>3. S \cap Directly = {}
    BY <2>0, UpIsLeast DEF UpClosed
  <2>4. f \in Up
    BY <2>0, <2>2, <2>3
  <2>5. f \in relevant
    BY <2>0, <2>4, DownIsLeast DEF IInv, DoneInv, DownClosed, Seed
  <2> QED
    BY <2>5 DEF IInv, DoneInv
<1> QED
  BY <1>1, PruneInvariant, PTL

-----------------------------------------------------------------------------
(* The selective packet symbolisation pass.                                *)

PolicyRoot == loadJsonRoot[policyText].root
\* The fields that are pinned are known and not relevant, and only what their
\* indices lead to is stored over, in packets.
PinInv ==
  /\ policyText \in PolicyTexts /\ harness \in Harnesses /\ DOMAIN zeroed = DOMAIN harness
  /\ concretized \subseteq Fields \ collectDirectRelevantFields(PolicyRoot)
  /\ sphase = "load" => \A i \in DOMAIN zeroed : zeroed[i] = {}
  /\ \A i \in DOMAIN zeroed : zeroed[i] # {} =>
       isHarnessPacketSymbolic(harness[i]) /\ zeroed[i] \subseteq StoredBytes(harness[i])

\* Both steps of SelectivePacketSymPass::run keep it.
LEMMA PinStep == ASSUME PinInv, [PacketSymNext]_pvars PROVE PinInv'
<1>1. CASE LoadSpecs
  <2>1. UNCHANGED <<policyText, harness, zeroed>> /\ sphase = "load" BY <1>1 DEF LoadSpecs
  <2>2. PolicyRoot' = PolicyRoot BY <2>1 DEF PolicyRoot, loadJsonRoot
  <2>3. concretized' = concretized
          \/ concretized' = (collectIrrelevantFields(loadJsonRoot[irrelevanceText].root) \cap Fields)
                              \ collectDirectRelevantFields(PolicyRoot)
    BY <1>1 DEF LoadSpecs, PolicyRoot
  <2>4. concretized' \subseteq Fields \ collectDirectRelevantFields(PolicyRoot) BY <2>3 DEF PinInv
  <2>5. \A i \in DOMAIN zeroed' : zeroed'[i] = {} BY <2>1 DEF PinInv
  <2> QED BY <2>1, <2>2, <2>4, <2>5 DEF PinInv
<1>2. CASE ConcretizeCall
  <2>1. UNCHANGED <<policyText, harness, concretized>> /\ sphase' # "load" BY <1>2 DEF ConcretizeCall
  <2>2. zeroed' = [zeroed EXCEPT ![snext] =
                     IF isHarnessPacketSymbolic(harness[snext]) THEN StoredBytes(harness[snext]) ELSE {}]
    BY <1>2 DEF ConcretizeCall
  <2>3. PolicyRoot' = PolicyRoot BY <2>1 DEF PolicyRoot, loadJsonRoot
  <2>4. \A c : StoredBytes(c)' = StoredBytes(c) BY <2>1 DEF StoredBytes
  <2>5. ASSUME NEW i \in DOMAIN zeroed', zeroed'[i] # {}
        PROVE  isHarnessPacketSymbolic(harness[i]) /\ zeroed'[i] \subseteq StoredBytes(harness[i])
    BY <2>2, <2>5 DEF PinInv
  <2> QED BY <2>1, <2>2, <2>3, <2>4, <2>5 DEF PinInv
<1>3. CASE UNCHANGED pvars
  <2>1. UNCHANGED <<policyText, harness, concretized, zeroed, sphase>> BY <1>3 DEF pvars
  <2>2. PolicyRoot' = PolicyRoot BY <2>1 DEF PolicyRoot, loadJsonRoot
  <2>3. \A c : StoredBytes(c)' = StoredBytes(c) BY <2>1 DEF StoredBytes
  <2> QED BY <2>1, <2>2, <2>3 DEF PinInv
<1> QED BY <1>1, <1>2, <1>3 DEF PacketSymNext

\* The table of offsets: two fields share no byte.
LEMMA FieldsApart ==
  ASSUME NEW f \in {"sIP", "dIP", "sPort", "dPort"}, NEW g \in Fields, NEW x \in Int,
         knownFieldRanges[f].lo <= x, x <= knownFieldRanges[f].hi,
         knownFieldRanges[g].lo <= x, x <= knownFieldRanges[g].hi
  PROVE  f = g
BY DEF knownFieldRanges, Fields, Range2

\* A byte of a field that is not relevant is no byte of the policy.
LEMMA IrrelevantByte ==
  ASSUME policyText \in PolicyTexts, NEW g \in Fields \ collectDirectRelevantFields(PolicyRoot),
         NEW x \in knownFieldRanges[g].lo..knownFieldRanges[g].hi
  PROVE  ~PolicyByte(PolicyRoot, x)
<1> DEFINE Fixed(f) == \E e \in ArrayAt(PolicyRoot, "packet_constraints") : IsA(e, f, "String") /\ find(e, f).s # "*"
           Numbered(c) == IsA(c, "offset", "Number") /\ IsA(c, "size", "Number")
           Off(c) == find(c, "offset").n
           Size(c) == find(c, "size").n
<1>0. knownFieldRanges[g].lo \in Nat /\ knownFieldRanges[g].hi \in Nat BY DEF knownFieldRanges, Fields, Range2
<1>1. x \in Int /\ knownFieldRanges[g].lo <= x /\ x <= knownFieldRanges[g].hi BY <1>0
<1>2. ASSUME NEW f \in DOMAIN addressBytes, Fixed(f), x \in addressBytes[f] PROVE FALSE
  <2>1. f \in {"sIP", "dIP", "sPort", "dPort"} BY DEF addressBytes
  <2>2. knownFieldRanges[f].lo <= x /\ x <= knownFieldRanges[f].hi
    BY <1>2, <2>1 DEF knownFieldRanges, Range2, addressBytes
  <2>3. f = g BY <1>1, <2>1, <2>2, FieldsApart
  <2>4. f \in collectDirectRelevantFields(PolicyRoot) BY <1>2, <2>1 DEF collectDirectRelevantFields
  <2> QED BY <2>3, <2>4
<1>3. ASSUME NEW c \in Conditions(PolicyRoot), Numbered(c), x \in Off(c)..(Off(c) + Size(c) - 1) PROVE FALSE
  <2>1. Off(c) \in Nat /\ Size(c) \in Nat BY <1>3, SpecNumbers DEF PolicyRoot, loadJsonRoot
  <2>2. g \in markFieldRelevantForOffset(Off(c), Size(c))
    BY <1>0, <1>1, <1>3, <2>1 DEF markFieldRelevantForOffset
  <2>3. markFieldRelevantForOffset(Off(c), Size(c)) \subseteq collectDirectRelevantFields(PolicyRoot)
    BY <1>3 DEF collectDirectRelevantFields
  <2> QED BY <2>2, <2>3
<1> QED BY <1>2, <1>3, Zenon DEF PolicyByte

\* Every policy and every list of irrelevant fields: where the layout of the
\* packets agrees with the table of offsets, no byte the policy is about is
\* stored over (SelectivePacketSymPass::run).
THEOREM PinnedBytesAreIrrelevant == PacketSymSpec /\ LayoutsAgree(Harnesses) => []PolicyBytesStaySymbolic
<1>1. PacketSymInit => PinInv BY DEF PacketSymInit, PinInv
<1>2. PinInv /\ [PacketSymNext]_pvars => PinInv' BY PinStep
<1>3. PinInv /\ LayoutsAgree(Harnesses) => PolicyBytesStaySymbolic
  <2> SUFFICES ASSUME PinInv, LayoutsAgree(Harnesses), NEW i \in DOMAIN zeroed, NEW b \in zeroed[i]
               PROVE  ~PolicyByte(PolicyRoot, b - harness[i].ether)
    BY DEF PolicyBytesStaySymbolic, PolicyRoot
  <2> DEFINE c == harness[i]
  <2>1. isHarnessPacketSymbolic(c) /\ b \in StoredBytes(c) /\ i \in DOMAIN harness BY DEF PinInv
  <2>2. LayoutAgrees(c) BY <2>1 DEF PinInv, LayoutsAgree
  <2>3. PICK r \in Regions(c) : r[1] \in concretized /\ ~Gep(c.type, r[2]).bad
                 /\ b \in Gep(c.type, r[2]).off..(Gep(c.type, r[2]).off + Gep(c.type, r[2]).type.size - 1)
    BY <2>1 DEF StoredBytes
  <2> HIDE DEF c
  <2>4. b - c.ether \in knownFieldRanges[r[1]].lo..knownFieldRanges[r[1]].hi BY <2>2, <2>3 DEF LayoutAgrees
  <2>5. r[1] \in Fields \ collectDirectRelevantFields(PolicyRoot) BY <2>3 DEF PinInv
  <2>6. ~PolicyByte(PolicyRoot, b - c.ether) BY <2>4, <2>5, IrrelevantByte DEF PinInv
  <2> QED BY <2>6 DEF c
<1>4. LayoutsAgree(Harnesses) => (PacketSymSpec => []PolicyBytesStaySymbolic)
  <2> SUFFICES ASSUME LayoutsAgree(Harnesses) PROVE PacketSymSpec => []PolicyBytesStaySymbolic OBVIOUS
  <2>1. PinInv => PolicyBytesStaySymbolic BY <1>3
  <2> QED BY <1>1, <1>2, <2>1, PTL DEF PacketSymSpec
<1> QED BY <1>4
=============================================================================
