----------------------------- MODULE UrlProofs -----------------------------
(***************************************************************************)
(* Theorems about Url, for every list of URLs, whatever their paths and    *)
(* parameters.  What the loops over segments and parameters compute is     *)
(* proved by induction over the numbers that a set contains, so that no    *)
(* lemma takes an operator for a parameter.                                *)
(***************************************************************************)
EXTENDS Url, SequenceTheorems, FunctionTheorems, FiniteSetTheorems, WellFoundedInduction,
        TLAPS

(* Induction and recursion *)

\* A set of numbers has a least one.
LEMMA LeastNumber ==
  ASSUME NEW S, S \subseteq Nat, S # {}
  PROVE  \E x \in S : \A y \in S : x <= y
<1>1. PICK x \in S : \A y \in S : ~ (<<y, x>> \in OpToRel(<, Nat))
  BY NatLessThanWellFounded, WFMin
<1>2. \A y \in S : ~ (y < x)
  BY <1>1 DEF OpToRel
<1>3. ASSUME NEW y \in S PROVE x <= y
  BY <1>2
<1> QED  BY <1>3

\* A set that has 0, and with n the number after it, has them all.
LEMMA AllNumbers ==
  ASSUME NEW S, 0 \in S, \A n \in Nat : n \in S => n + 1 \in S
  PROVE  \A n \in Nat : n \in S
<1>1. SUFFICES ASSUME Nat \ S # {} PROVE FALSE
  OBVIOUS
<1>2. PICK x \in Nat \ S : \A y \in Nat \ S : x <= y
  BY <1>1, LeastNumber
<1>3. x \in Nat \ {0} /\ x - 1 \in Nat
  BY <1>2
<1>4. x - 1 \in S
  BY <1>2, <1>3
<1> QED  BY <1>2, <1>3, <1>4

\* What a loop over a sequence has computed before and after each of its elements.
Loops(A, start, step, seq) ==
    {f \in [0..Len(seq) -> A] :
        f[0] = start /\ \A n \in 1..Len(seq) : f[n] = step[<<f[n - 1], seq[n]>>]}

LEMMA LoopExists ==
  ASSUME NEW A, NEW B, NEW start \in A, NEW step \in [A \X B -> A], NEW seq \in Seq(B)
  PROVE  Loops(A, start, step, seq) # {}
<1> DEFINE IsLoop(f, m) ==
             f[0] = start /\ \A n \in 1..m : f[n] = step[<<f[n - 1], seq[n]>>]
           S == {m \in Nat : m <= Len(seq) => \E f \in [0..m -> A] : IsLoop(f, m)}
<1>1. Len(seq) \in Nat /\ \A n \in 1..Len(seq) : seq[n] \in B
  BY LenProperties, ElementOfSeq
<1>2. 0 \in S
  <2>1. [k \in 0..0 |-> start] \in [0..0 -> A] /\ IsLoop([k \in 0..0 |-> start], 0)
    OBVIOUS
  <2> QED  BY <2>1
<1>3. ASSUME NEW m \in Nat, m \in S PROVE m + 1 \in S
  <2>1. SUFFICES ASSUME m + 1 <= Len(seq)
                 PROVE  \E f \in [0..(m + 1) -> A] : IsLoop(f, m + 1)
    OBVIOUS
  <2>2. PICK f \in [0..m -> A] : IsLoop(f, m)
    BY <1>1, <1>3, <2>1
  <2> DEFINE last == step[<<f[m], seq[m + 1]>>]
             g == [k \in 0..(m + 1) |-> IF k = m + 1 THEN last ELSE f[k]]
  <2>3. last \in A
    <3>1. f[m] \in A /\ seq[m + 1] \in B
      BY <1>1, <2>1
    <3> QED  BY <3>1
  <2>4. g \in [0..(m + 1) -> A]
    <3> HIDE DEF last
    <3> QED  BY <2>3
  <2>5. g[0] = start
    BY <2>2
  <2>6. ASSUME NEW n \in 1..(m + 1) PROVE g[n] = step[<<g[n - 1], seq[n]>>]
    <3>1. CASE n = m + 1
      <4>1. g[n] = last /\ g[n - 1] = f[m]
        BY <3>1
      <4> QED  BY <3>1, <4>1
    <3>2. CASE n \in 1..m
      <4>1. g[n] = f[n] /\ g[n - 1] = f[n - 1]
        BY <3>2
      <4> QED  BY <2>2, <3>2, <4>1
    <3> QED  BY <3>1, <3>2
  <2> HIDE DEF g
  <2> QED  BY <2>4, <2>5, <2>6
<1> HIDE DEF S
<1>4. Len(seq) \in S
  BY <1>1, <1>2, <1>3, AllNumbers
<1> QED  BY <1>1, <1>4 DEF S, Loops

-----------------------------------------------------------------------------
(* Paths *)

\* The segments that resolveDotSegments keeps, and its stacks.
Segments == STRING \ {".", ".."}
Stacks == {s \in Seq(Segments) : s # <<>> /\ s[1] = Empty}

LEMMA EmptyIs == Empty \in Segments
BY UrlAssumption DEF UrlAssumption, Segments

\* What is left of a sequence when its last element is removed.
LEMMA FrontIs ==
  ASSUME NEW S, NEW s \in Seq(S), s # <<>>
  PROVE  /\ Front(s) \in Seq(S) /\ Len(Front(s)) = Len(s) - 1 /\ Len(s) \in Nat \ {0}
         /\ \A i \in 1..(Len(s) - 1) : Front(s)[i] = s[i]
         /\ Last(s) = s[Len(s)] /\ Last(s) \in S
<1>1. Len(s) \in Nat \ {0} /\ \A i \in 1..Len(s) : s[i] \in S
  BY EmptySeq, ElementOfSeq
<1> DEFINE n == Len(s) - 1
           t == SubSeq(s, 1, n)
<1>2. n \in Int /\ \A i \in 1..n : s[i] \in S
  BY <1>1
<1>3. t \in Seq(S) /\ \A i \in 1..(n - 1 + 1) : t[i] = s[1 + i - 1]
  <2> HIDE DEF n
  <2> QED  BY <1>2, SubSeqProperties
<1>4. Len(t) = IF 1 <= n THEN n - 1 + 1 ELSE 0
  <2> HIDE DEF n
  <2> QED  BY <1>2, SubSeqProperties
<1> HIDE DEF t
<1>5. Len(t) = Len(s) - 1
  <2>1. n \in Nat /\ n = Len(s) - 1
    BY <1>1
  <2> HIDE DEF n
  <2>2. Len(t) = n
    BY <1>4, <2>1
  <2> QED  BY <2>1, <2>2
<1>6. ASSUME NEW i \in 1..(Len(s) - 1) PROVE t[i] = s[i]
  <2>1. i \in 1..(n - 1 + 1) /\ 1 + i - 1 = i
    BY <1>1
  <2> QED  BY <1>3, <2>1
<1> QED  BY <1>1, <1>3, <1>5, <1>6 DEF Front, Last, t

LEMMA DotStepType ==
  ASSUME NEW s \in Stacks, NEW seg \in STRING
  PROVE  DotStep(s, seg) \in Stacks
<1>1. s \in Seq(Segments) /\ s # <<>> /\ s[1] = Empty /\ Len(s) \in Nat \ {0}
  BY EmptySeq DEF Stacks
<1>2. CASE seg = "."
  BY <1>2 DEF DotStep
<1>3. CASE seg = ".." /\ Last(s) # Empty
  <2>1. DotStep(s, seg) = Front(s)
    BY <1>3 DEF DotStep
  <2>2. /\ Front(s) \in Seq(Segments) /\ Len(Front(s)) = Len(s) - 1 /\ Last(s) = s[Len(s)]
        /\ \A i \in 1..(Len(s) - 1) : Front(s)[i] = s[i]
    BY <1>1, FrontIs
  <2>3. Len(s) > 1
    BY <1>1, <1>3, <2>2
  <2>4. Front(s)[1] = Empty /\ Len(Front(s)) > 0
    BY <1>1, <2>2, <2>3
  <2> QED  BY <2>1, <2>2, <2>4, EmptySeq DEF Stacks
<1>4. CASE seg = ".." /\ Last(s) = Empty
  BY <1>4 DEF DotStep
<1>5. CASE seg \notin {".", ".."}
  <2>1. DotStep(s, seg) = Append(s, seg) /\ seg \in Segments
    BY <1>5 DEF DotStep, Segments
  <2> DEFINE t == Append(s, seg)
  <2>2. t \in Seq(Segments) /\ t # <<>> /\ \A i \in 1..Len(s) : t[i] = s[i]
    <3> HIDE DEF Segments
    <3>1. t \in Seq(Segments)
      <4>1. s \in Seq(Segments) /\ seg \in Segments
        BY <1>1, <2>1
      <4> QED  BY ONLY <4>1, AppendProperties, Zenon DEF t
    <3>2. t # <<>>
      BY <1>1, <2>1, EmptySeq, AppendProperties
    <3>3. \A i \in 1..Len(s) : t[i] = s[i]
      BY <1>1, <2>1
    <3> QED  BY <3>1, <3>2, <3>3
  <2> HIDE DEF t
  <2>3. t \in Stacks
    BY <1>1, <2>2 DEF Stacks
  <2> QED  BY <2>1, <2>3 DEF t
<1> QED  BY <1>2, <1>3, <1>4, <1>5

\* The definition of DotStacks by recursion has a solution.
LEMMA DotStacksAre ==
  ASSUME NEW path \in Seq(STRING)
  PROVE  /\ DotStacks(path) \in [0..Len(path) -> Stacks]
         /\ DotStacks(path)[0] = <<Empty>>
         /\ \A n \in 1..Len(path) :
              DotStacks(path)[n] = DotStep(DotStacks(path)[n - 1], path[n])
<1> DEFINE start == <<Empty>>
           step == [x \in Stacks \X STRING |-> DotStep(x[1], x[2])]
           Rhs(f) == [n \in 0..Len(path) |-> IF n = 0 THEN start ELSE DotStep(f[n - 1], path[n])]
<1>1. Len(path) \in Nat /\ \A n \in 1..Len(path) : path[n] \in STRING
  BY LenProperties, ElementOfSeq
<1>2. start \in Stacks
  BY EmptyIs DEF Stacks
<1>3. step \in [Stacks \X STRING -> Stacks]
  BY DotStepType
<1>4. PICK f \in [0..Len(path) -> Stacks] :
         f[0] = start /\ \A n \in 1..Len(path) : f[n] = step[<<f[n - 1], path[n]>>]
  <2> HIDE DEF start, step
  <2>1. Loops(Stacks, start, step, path) # {}
    BY <1>2, <1>3, LoopExists
  <2> QED  BY <2>1 DEF Loops
<1> HIDE DEF start
<1>5. ASSUME NEW n \in 1..Len(path) PROVE f[n] = DotStep(f[n - 1], path[n])
  <2>1. f[n - 1] \in Stacks /\ path[n] \in STRING
    BY <1>1
  <2> QED  BY <1>4, <2>1
<1>6. f = Rhs(f)
  <2>1. ASSUME NEW n \in 0..Len(path) PROVE f[n] = Rhs(f)[n]
    BY <1>1, <1>4, <1>5
  <2> QED  BY <2>1
<1>7. DotStacks(path) = CHOOSE g : g = Rhs(g)
  BY DEF DotStacks, start
<1>8. DotStacks(path) = Rhs(DotStacks(path))
  <2> HIDE DEF Rhs
  <2> QED  BY <1>6, <1>7
<1>9. /\ DotStacks(path)[0] = start
      /\ \A n \in 1..Len(path) : DotStacks(path)[n] = DotStep(DotStacks(path)[n - 1], path[n])
  BY <1>1, <1>8
<1> DEFINE g == DotStacks(path)
           S == {n \in Nat : n <= Len(path) => g[n] \in Stacks}
<1>10. 0 \in S
  BY <1>2, <1>9
<1>11. \A n \in Nat : n \in S => n + 1 \in S
  <2>1. ASSUME NEW n \in Nat, n \in S, n + 1 <= Len(path) PROVE g[n + 1] \in Stacks
    <3>1. g[n] \in Stacks /\ path[n + 1] \in STRING /\ g[n + 1] = DotStep(g[n], path[n + 1])
      BY <1>1, <1>9, <2>1
    <3> QED  BY <3>1, DotStepType
  <2> QED  BY <2>1
<1>12. \A n \in 0..Len(path) : g[n] \in Stacks
  <2>1. \A n \in Nat : n \in S
    <3> HIDE DEF S
    <3> QED  BY <1>10, <1>11, AllNumbers
  <2> QED  BY <1>1, <2>1
<1>13. g \in [0..Len(path) -> Stacks]
  BY <1>8, <1>12
<1> QED  BY <1>9, <1>13 DEF start

\* The same of Prunings.
LEMMA PruningsAre ==
  ASSUME NEW B, NEW seq \in Seq(B), NEW out
  PROVE  /\ Prunings(seq, out)[0] = <<>>
         /\ \A n \in 1..Len(seq) :
              Prunings(seq, out)[n] =
                 IF seq[n] \in out THEN Prunings(seq, out)[n - 1]
                 ELSE Append(Prunings(seq, out)[n - 1], seq[n])
         /\ \A n \in 0..Len(seq) : Prunings(seq, out)[n] \in Seq(B \ out)
<1> DEFINE A == Seq(B \ out)
           Prune(s, e) == IF e \in out THEN s ELSE Append(s, e)
           step == [x \in A \X B |-> Prune(x[1], x[2])]
           Rhs(f) == [n \in 0..Len(seq) |-> IF n = 0 THEN <<>> ELSE Prune(f[n - 1], seq[n])]
           g == Prunings(seq, out)
<1>1. Len(seq) \in Nat /\ \A n \in 1..Len(seq) : seq[n] \in B
  BY LenProperties, ElementOfSeq
<1>2. <<>> \in A
  BY EmptySeq
<1>3. \A s \in A, e \in B : Prune(s, e) \in A
  <2>1. ASSUME NEW s \in A, NEW e \in B PROVE Prune(s, e) \in A
    <3>1. CASE e \in out
      BY <3>1
    <3>2. CASE e \notin out
      BY <3>2, AppendProperties
    <3> QED  BY <3>1, <3>2
  <2> QED  BY <2>1
<1> HIDE DEF A, Prune
<1>4. step \in [A \X B -> A]
  BY <1>3
<1>5. PICK f \in [0..Len(seq) -> A] :
         f[0] = <<>> /\ \A n \in 1..Len(seq) : f[n] = step[<<f[n - 1], seq[n]>>]
  <2> HIDE DEF step
  <2>1. Loops(A, <<>>, step, seq) # {}
    BY <1>2, <1>4, LoopExists
  <2> QED  BY <2>1 DEF Loops
<1>6. ASSUME NEW n \in 1..Len(seq) PROVE f[n] = Prune(f[n - 1], seq[n])
  <2>1. f[n - 1] \in A /\ seq[n] \in B
    BY <1>1
  <2> QED  BY <1>5, <2>1
<1>7. f = Rhs(f)
  <2>1. ASSUME NEW n \in 0..Len(seq) PROVE f[n] = Rhs(f)[n]
    BY <1>1, <1>5, <1>6
  <2> QED  BY <2>1
<1>8. g = CHOOSE h : h = Rhs(h)
  BY DEF Prunings, Prune
<1>9. g = Rhs(g)
  <2> HIDE DEF Rhs, g
  <2> QED  BY <1>7, <1>8
<1> HIDE DEF g
<1>10. g[0] = <<>> /\ \A n \in 1..Len(seq) : g[n] = Prune(g[n - 1], seq[n])
  BY <1>1, <1>9
<1> DEFINE S == {n \in Nat : n <= Len(seq) => g[n] \in A}
<1>11. \A n \in Nat : n \in S => n + 1 \in S
  <2>1. ASSUME NEW n \in Nat, n \in S, n + 1 <= Len(seq) PROVE g[n + 1] \in A
    <3>1. g[n] \in A /\ seq[n + 1] \in B /\ g[n + 1] = Prune(g[n], seq[n + 1])
      BY <1>1, <1>10, <2>1
    <3> QED  BY <1>3, <3>1
  <2> QED  BY <2>1
<1>12. \A n \in 0..Len(seq) : g[n] \in A
  <2>1. \A n \in Nat : n \in S
    <3>1. 0 \in S
      BY <1>2, <1>10
    <3> HIDE DEF S
    <3> QED  BY <1>11, <3>1, AllNumbers
  <2> QED  BY <1>1, <2>1
<1> QED  BY <1>10, <1>12 DEF g, A, Prune

\* The same of RfcStacks, whose stacks have no dot segments either.
LEMMA RfcStepType ==
  ASSUME NEW s \in Seq(Segments), NEW seg \in STRING
  PROVE  RfcStep(s, seg) \in Seq(Segments)
<1>1. CASE seg = "."
  BY <1>1 DEF RfcStep
<1>2. CASE seg = ".."
  <2>1. RfcStep(s, seg) = IF s = <<>> THEN s ELSE Front(s)
    BY <1>2 DEF RfcStep
  <2> QED  BY <2>1, FrontIs
<1>3. CASE seg \notin {".", ".."}
  <2>1. RfcStep(s, seg) = Append(s, seg) /\ seg \in Segments
    BY <1>3 DEF RfcStep, Segments
  <2>2. Append(s, seg) \in Seq(Segments)
    BY <2>1, AppendProperties
  <2> QED  BY <2>1, <2>2
<1> QED  BY <1>1, <1>2, <1>3

LEMMA RfcStacksAre ==
  ASSUME NEW path \in Seq(STRING)
  PROVE  /\ RfcStacks(path)[0] = <<>>
         /\ \A n \in 1..Len(path) :
              RfcStacks(path)[n] = RfcStep(RfcStacks(path)[n - 1], path[n])
         /\ \A n \in 0..Len(path) : RfcStacks(path)[n] \in Seq(Segments)
<1> DEFINE A == Seq(Segments)
           step == [x \in A \X STRING |-> RfcStep(x[1], x[2])]
           Rhs(f) == [n \in 0..Len(path) |-> IF n = 0 THEN <<>> ELSE RfcStep(f[n - 1], path[n])]
           g == RfcStacks(path)
<1>1. Len(path) \in Nat /\ \A n \in 1..Len(path) : path[n] \in STRING
  BY LenProperties, ElementOfSeq
<1>2. <<>> \in A
  BY EmptySeq
<1>3. \A s \in A, e \in STRING : RfcStep(s, e) \in A
  BY RfcStepType
<1> HIDE DEF A
<1>4. step \in [A \X STRING -> A]
  BY <1>3
<1>5. PICK f \in [0..Len(path) -> A] :
         f[0] = <<>> /\ \A n \in 1..Len(path) : f[n] = step[<<f[n - 1], path[n]>>]
  <2> HIDE DEF step
  <2>1. Loops(A, <<>>, step, path) # {}
    BY <1>2, <1>4, LoopExists
  <2> QED  BY <2>1 DEF Loops
<1>6. ASSUME NEW n \in 1..Len(path) PROVE f[n] = RfcStep(f[n - 1], path[n])
  <2>1. f[n - 1] \in A /\ path[n] \in STRING
    BY <1>1
  <2> QED  BY <1>5, <2>1
<1>7. f = Rhs(f)
  <2>1. ASSUME NEW n \in 0..Len(path) PROVE f[n] = Rhs(f)[n]
    BY <1>1, <1>5, <1>6
  <2> QED  BY <2>1
<1>8. g = CHOOSE h : h = Rhs(h)
  BY DEF RfcStacks
<1>9. g = Rhs(g)
  <2> HIDE DEF Rhs, g
  <2> QED  BY <1>7, <1>8
<1> HIDE DEF g
<1>10. g[0] = <<>> /\ \A n \in 1..Len(path) : g[n] = RfcStep(g[n - 1], path[n])
  BY <1>1, <1>9
<1> DEFINE S == {n \in Nat : n <= Len(path) => g[n] \in A}
<1>11. \A n \in Nat : n \in S => n + 1 \in S
  <2>1. ASSUME NEW n \in Nat, n \in S, n + 1 <= Len(path) PROVE g[n + 1] \in A
    <3>1. g[n] \in A /\ path[n + 1] \in STRING /\ g[n + 1] = RfcStep(g[n], path[n + 1])
      BY <1>1, <1>10, <2>1
    <3> QED  BY <1>3, <3>1
  <2> QED  BY <2>1
<1>12. \A n \in 0..Len(path) : g[n] \in A
  <2>1. \A n \in Nat : n \in S
    <3>1. 0 \in S
      BY <1>2, <1>10
    <3> HIDE DEF S
    <3> QED  BY <1>11, <3>1, AllNumbers
  <2> QED  BY <1>1, <2>1
<1> QED  BY <1>10, <1>12 DEF g, A

\* Without leaves nothing of what it is to remove, and all of a sequence that has
\* nothing of it.
LEMMA WithoutIs ==
  ASSUME NEW B, NEW seq \in Seq(B), NEW out
  PROVE  /\ Without(seq, out) \in Seq(B \ out)
         /\ seq \in Seq(B \ out) => Without(seq, out) = seq
<1> DEFINE g == Prunings(seq, out)
<1>1. Len(seq) \in Nat
  BY LenProperties
<1>2. Without(seq, out) = g[Len(seq)]
  BY DEF Without
<1>3. /\ g[0] = <<>>
      /\ \A n \in 1..Len(seq) :
            g[n] = IF seq[n] \in out THEN g[n - 1] ELSE Append(g[n - 1], seq[n])
      /\ \A n \in 0..Len(seq) : g[n] \in Seq(B \ out)
  BY PruningsAre
<1> HIDE DEF g
<1>4. ASSUME seq \in Seq(B \ out) PROVE g[Len(seq)] = seq
  <2> DEFINE S == {n \in Nat : n <= Len(seq) =>
                      Len(g[n]) = n /\ \A i \in 1..n : g[n][i] = seq[i]}
  <2>1. 0 \in S
    BY <1>3, EmptySeq
  <2>2. ASSUME NEW n \in Nat, n \in S, n + 1 <= Len(seq)
        PROVE  Len(g[n + 1]) = n + 1 /\ \A i \in 1..(n + 1) : g[n + 1][i] = seq[i]
    <3>1. n + 1 \in 1..Len(seq) /\ n \in 0..Len(seq) /\ (n + 1) - 1 = n
      BY <1>1, <2>2
    <3>2. seq[n + 1] \in B \ out /\ g[n] \in Seq(B \ out)
      BY <1>3, <1>4, <3>1, ElementOfSeq
    <3> DEFINE s == g[n]
               t == g[n + 1]
               e == seq[n + 1]
    <3>3. t = Append(s, e)
      BY <1>3, <3>1, <3>2
    <3>4. Len(s) = n /\ \A i \in 1..n : s[i] = seq[i]
      BY <2>2, <3>1
    <3> HIDE DEF s, t
    <3>5. s \in Seq(B \ out) /\ e \in B \ out
      BY <3>2 DEF s
    <3> HIDE DEF e
    <3>6. /\ Len(t) = Len(s) + 1 /\ t[Len(s) + 1] = e
          /\ \A i \in 1..Len(s) : t[i] = s[i]
      BY <3>3, <3>5, AppendProperties
    <3>7. \A i \in 1..(n + 1) : t[i] = seq[i]
      BY <3>4, <3>6 DEF e
    <3> QED  BY <3>4, <3>6, <3>7 DEF t
  <2>3. \A n \in Nat : n \in S => n + 1 \in S
    BY <2>2
  <2>4. Len(seq) \in S
    <3> HIDE DEF S
    <3> QED  BY <1>1, <2>1, <2>3, AllNumbers
  <2> DEFINE r == g[Len(seq)]
  <2>5. r \in Seq(B \ out) /\ Len(r) = Len(seq) /\ \A i \in 1..Len(seq) : r[i] = seq[i]
    <3>1. Len(seq) \in 0..Len(seq)
      BY <1>1
    <3>2. r \in Seq(B \ out)
      BY <1>3, <3>1
    <3>3. Len(r) = Len(seq) /\ \A i \in 1..Len(seq) : r[i] = seq[i]
      BY <2>4, <3>1
    <3> QED  BY <3>2, <3>3
  <2> HIDE DEF r
  <2>6. r = seq
    BY <1>4, <2>5, SeqEqual
  <2> QED  BY <2>6 DEF r
<1>5. g[Len(seq)] \in Seq(B \ out)
  BY <1>1, <1>3
<1> QED  BY <1>2, <1>4, <1>5

\* Without of a longer sequence.
LEMMA WithoutAppend ==
  ASSUME NEW B, NEW seq \in Seq(B), NEW e \in B, NEW out
  PROVE  Without(Append(seq, e), out) =
            IF e \in out THEN Without(seq, out) ELSE Append(Without(seq, out), e)
<1> DEFINE more == Append(seq, e)
           f == Prunings(seq, out)
           g == Prunings(more, out)
<1>1. /\ Len(seq) \in Nat /\ more \in Seq(B) /\ Len(more) = Len(seq) + 1
      /\ more[Len(seq) + 1] = e /\ \A i \in 1..Len(seq) : more[i] = seq[i]
  BY LenProperties, AppendProperties
<1>2. /\ f[0] = <<>>
      /\ \A n \in 1..Len(seq) :
            f[n] = IF seq[n] \in out THEN f[n - 1] ELSE Append(f[n - 1], seq[n])
      /\ \A n \in 0..Len(seq) : f[n] \in Seq(B \ out)
  BY PruningsAre
<1> HIDE DEF more
<1>3. /\ g[0] = <<>>
      /\ \A n \in 1..Len(more) :
            g[n] = IF more[n] \in out THEN g[n - 1] ELSE Append(g[n - 1], more[n])
      /\ \A n \in 0..Len(more) : g[n] \in Seq(B \ out)
  BY <1>1, PruningsAre
<1>4. Without(seq, out) = f[Len(seq)] /\ Without(more, out) = g[Len(more)]
  BY DEF Without
<1> HIDE DEF f, g
<1> DEFINE S == {n \in Nat : n <= Len(seq) => f[n] = g[n]}
<1>5. 0 \in S
  BY <1>2, <1>3
<1>6. \A n \in Nat : n \in S => n + 1 \in S
  <2>1. ASSUME NEW n \in Nat, n \in S, n + 1 <= Len(seq) PROVE f[n + 1] = g[n + 1]
    <3>1. /\ n + 1 \in 1..Len(seq) /\ n + 1 \in 1..Len(more) /\ (n + 1) - 1 = n
          /\ f[n] = g[n] /\ more[n + 1] = seq[n + 1]
      BY <1>1, <2>1
    <3>2. f[n + 1] = IF seq[n + 1] \in out THEN f[n] ELSE Append(f[n], seq[n + 1])
      BY <1>2, <3>1
    <3>3. g[n + 1] = IF more[n + 1] \in out THEN g[n] ELSE Append(g[n], more[n + 1])
      BY <1>3, <3>1
    <3> QED  BY <3>1, <3>2, <3>3
  <2> QED  BY <2>1
<1>7. Len(seq) \in S
  <2> HIDE DEF S
  <2> QED  BY <1>1, <1>5, <1>6, AllNumbers
<1>8. f[Len(seq)] = g[Len(seq)]
  BY <1>1, <1>7
<1> HIDE DEF S
<1>9. g[Len(more)] = IF e \in out THEN g[Len(seq)] ELSE Append(g[Len(seq)], e)
  <2>1. Len(more) \in 1..Len(more) /\ Len(more) - 1 = Len(seq) /\ more[Len(more)] = e
    BY <1>1
  <2> QED  BY <1>3, <2>1
<1> QED  BY <1>4, <1>8, <1>9 DEF more

\* A path without dot segments is resolved.
LEMMA NothingToResolve ==
  ASSUME NEW path \in Seq(Segments), path # <<>>
  PROVE  ResolveDotSegments(path) = path
<1> DEFINE g == DotStacks(path)
           last == g[Len(path)]
<1>1. Len(path) \in Nat \ {0} /\ \A n \in 1..Len(path) : path[n] \in Segments
  BY EmptySeq, ElementOfSeq
<1>2. path \in Seq(STRING)
  BY SeqMonotonic DEF Segments
<1>3. /\ g[0] = <<Empty>>
      /\ \A n \in 1..Len(path) : g[n] = DotStep(g[n - 1], path[n])
      /\ \A n \in 0..Len(path) : g[n] \in Seq(Segments)
  BY <1>2, DotStacksAre DEF Stacks
<1>4. ResolveDotSegments(path) = IF last = <<Empty>> THEN <<Empty>> ELSE Tail(last)
  BY DEF ResolveDotSegments
<1> HIDE DEF g
<1> DEFINE S == {n \in Nat : n <= Len(path) =>
                    Len(g[n]) = n + 1 /\ \A i \in 1..n : g[n][i + 1] = path[i]}
<1>5. 0 \in S
  <2>1. Len(g[0]) = 0 + 1
    BY <1>3
  <2>2. \A i \in 1..0 : g[0][i + 1] = path[i]
    OBVIOUS
  <2> QED  BY <2>1, <2>2
<1>6. ASSUME NEW n \in Nat, n \in S, n + 1 <= Len(path)
      PROVE  Len(g[n + 1]) = n + 2 /\ \A i \in 1..(n + 1) : g[n + 1][i + 1] = path[i]
  <2>1. n + 1 \in 1..Len(path) /\ n \in 0..Len(path) /\ (n + 1) - 1 = n
    BY <1>1, <1>6
  <2> DEFINE s == g[n]
             t == g[n + 1]
             seg == path[n + 1]
  <2>2. s \in Seq(Segments) /\ seg \in Segments /\ t = DotStep(s, seg)
    BY <1>1, <1>3, <2>1
  <2>3. Len(s) = n + 1 /\ \A i \in 1..n : s[i + 1] = path[i]
    BY <1>6, <2>1
  <2> HIDE DEF s, t, seg
  <2>4. t = Append(s, seg)
    BY <2>2 DEF DotStep, Segments
  <2>5. /\ Len(t) = Len(s) + 1 /\ t[Len(s) + 1] = seg
        /\ \A i \in 1..Len(s) : t[i] = s[i]
    BY <2>2, <2>4, AppendProperties
  <2>6. ASSUME NEW i \in 1..(n + 1) PROVE t[i + 1] = path[i]
    <3>1. CASE i = n + 1
      BY <2>3, <2>5, <3>1 DEF seg
    <3>2. CASE i \in 1..n
      BY <2>3, <2>5, <3>2
    <3> QED  BY <3>1, <3>2
  <2> QED  BY <2>3, <2>5, <2>6 DEF t
<1>7. Len(path) \in S
  <2>1. \A n \in Nat : n \in S => n + 1 \in S
    BY <1>6
  <2> HIDE DEF S
  <2> QED  BY <1>1, <1>5, <2>1, AllNumbers
<1>8. /\ last \in Seq(Segments) /\ Len(last) = Len(path) + 1
      /\ \A i \in 1..Len(path) : last[i + 1] = path[i]
  <2>1. Len(path) \in 0..Len(path)
    BY <1>1
  <2>2. last \in Seq(Segments)
    BY <1>3, <2>1
  <2> QED  BY <1>7, <2>1, <2>2
<1> HIDE DEF last, S
<1>9. last # <<Empty>> /\ last # <<>>
  <2>1. Len(last) > 1
    BY <1>1, <1>8
  <2>2. last # <<>>
    BY <2>1, EmptySeq
  <2>3. last # <<Empty>>
    <3>1. Len(<<Empty>>) = 1
      OBVIOUS
    <3>2. ASSUME last = <<Empty>> PROVE FALSE
      <4>1. Len(last) = 1
        BY <3>1, <3>2
      <4> QED  BY <2>1, <4>1
    <3> QED  BY <3>2
  <2> QED  BY <2>2, <2>3
<1> DEFINE t == Tail(last)
<1>10. t \in Seq(Segments) /\ Len(t) = Len(last) - 1 /\ \A i \in 1..Len(t) : t[i] = last[i + 1]
  BY <1>8, <1>9, HeadTailProperties
<1> HIDE DEF t
<1>11. Len(t) = Len(path) /\ \A i \in 1..Len(t) : t[i] = path[i]
  BY <1>1, <1>8, <1>10
<1>12. t = path
  BY <1>10, <1>11, SeqEqual
<1> QED  BY <1>4, <1>9, <1>12 DEF t

LEMMA ResolveType ==
  ASSUME NEW path \in Seq(STRING)
  PROVE  ResolveDotSegments(path) \in Seq(Segments) /\ ResolveDotSegments(path) # <<>>
<1> DEFINE last == DotStacks(path)[Len(path)]
<1>1. last \in Stacks
  <2>1. Len(path) \in 0..Len(path)
    BY LenProperties
  <2> QED  BY <2>1, DotStacksAre
<1>2. ResolveDotSegments(path) = IF last = <<Empty>> THEN <<Empty>> ELSE Tail(last)
  BY DEF ResolveDotSegments
<1> HIDE DEF last
<1>3. last \in Seq(Segments) /\ last # <<>> /\ last[1] = Empty /\ Len(last) \in Nat \ {0}
  BY <1>1, EmptySeq DEF Stacks
<1>4. CASE last = <<Empty>>
  <2>1. <<Empty>> \in Seq(Segments) /\ <<Empty>> # <<>>
    BY EmptyIs
  <2> QED  BY <1>2, <1>4, <2>1
<1>5. CASE last # <<Empty>>
  <2> DEFINE t == Tail(last)
             one == <<Empty>>
  <2>1. t \in Seq(Segments) /\ Len(t) = Len(last) - 1
    BY <1>3, HeadTailProperties
  <2>2. one \in Seq(Segments) /\ Len(one) = 1 /\ one[1] = Empty
    BY EmptyIs
  <2> HIDE DEF t, one
  <2>3. Len(last) # 1
    <3>1. SUFFICES ASSUME Len(last) = 1 PROVE last = one
      BY <1>5 DEF one
    <3>2. \A i \in 1..Len(last) : last[i] = one[i]
      BY <1>3, <2>2, <3>1
    <3> QED  BY <1>3, <2>2, <3>1, <3>2, SeqEqual
  <2>4. Len(t) > 0
    BY <1>3, <2>1, <2>3
  <2>5. t # <<>>
    BY <2>4, EmptySeq
  <2> QED  BY <1>2, <1>5, <2>1, <2>5 DEF t
<1> QED  BY <1>4, <1>5

\* The path without segments is the root.
Root(path) == IF path = <<>> THEN <<Empty>> ELSE path

\* What is left of a path without empty segments, and perhaps a slash at its end.
Trimmed(p) == IF Len(p) > 1 /\ Last(p) = Empty THEN Front(p) ELSE p

LEMMA TrimmedIs ==
  ASSUME NEW path \in Seq(Segments \ {Empty})
  PROVE  /\ Trimmed(path \o <<Empty>>) = Root(path)
         /\ path # <<>> => Trimmed(path \o <<>>) = Root(path)
<1> DEFINE p == Append(path, Empty)
<1>1. path \in Seq(Segments) /\ Len(path) \in Nat
  BY SeqMonotonic, LenProperties
<1>2. /\ p \in Seq(Segments) /\ p # <<>> /\ Len(p) = Len(path) + 1
      /\ p[Len(path) + 1] = Empty /\ \A i \in 1..Len(path) : p[i] = path[i]
  BY <1>1, EmptyIs, AppendProperties
<1>3. path \o <<Empty>> = p
  BY <1>1, EmptyIs, AppendIsConcat
<1> HIDE DEF p
<1>4. /\ Front(p) \in Seq(Segments) /\ Len(Front(p)) = Len(p) - 1 /\ Last(p) = p[Len(p)]
      /\ \A i \in 1..(Len(p) - 1) : Front(p)[i] = p[i]
  BY <1>2, FrontIs
<1>5. CASE path = <<>>
  <2>1. Len(p) = 1
    BY <1>2, <1>5, EmptySeq
  <2>2. Trimmed(p) = p
    BY <2>1 DEF Trimmed
  <2>3. p = <<Empty>>
    BY <1>5 DEF p
  <2> QED  BY <1>3, <1>5, <2>2, <2>3 DEF Root
<1>6. CASE path # <<>>
  <2>1. Len(path) \in Nat \ {0}
    BY <1>6, EmptySeq
  <2>2. Len(p) > 1 /\ Last(p) = Empty
    BY <1>2, <1>4, <2>1
  <2>3. Trimmed(p) = Front(p)
    BY <2>2 DEF Trimmed
  <2>4. Len(Front(p)) = Len(path) /\ \A i \in 1..Len(Front(p)) : Front(p)[i] = path[i]
    BY <1>1, <1>2, <1>4
  <2>5. Front(p) = path
    BY <1>1, <1>4, <2>4, SeqEqual
  <2>6. Last(path) # Empty
    BY <1>6, FrontIs
  <2>7. path \o <<>> = path
    BY ConcatEmptySeq
  <2>8. Trimmed(path) = path
    BY <2>6 DEF Trimmed
  <2> QED  BY <1>3, <1>6, <2>3, <2>5, <2>7, <2>8 DEF Root
<1> QED  BY <1>5, <1>6

\* A path that does not end with a slash has a segment that is not empty.
LEMMA WithoutNothing ==
  ASSUME NEW path \in Seq(Segments), path # <<>>, Last(path) # Empty
  PROVE  Without(path, {Empty}) # <<>>
<1>1. PICK s \in Seq(Segments), e \in Segments : path = Append(s, e)
  BY SequenceEmptyOrAppend
<1>2. e # Empty
  <2> DEFINE t == Append(s, e)
  <2>1. /\ t \in Seq(Segments) /\ t # <<>> /\ Len(t) = Len(s) + 1
        /\ t[Len(s) + 1] = e
    BY AppendProperties
  <2> HIDE DEF t
  <2>2. Last(t) = t[Len(t)]
    BY <2>1, FrontIs
  <2> QED  BY <1>1, <2>1, <2>2 DEF t
<1>3. Without(path, {Empty}) = Append(Without(s, {Empty}), e)
  BY <1>1, <1>2, WithoutAppend
<1>4. Without(s, {Empty}) \in Seq(Segments \ {Empty})
  BY WithoutIs
<1> HIDE DEF Without
<1> QED  BY <1>2, <1>3, <1>4, AppendProperties

\* What becomes of a path: its segments that are left by resolveDotSegments and not
\* empty.
LEMMA NormalPathIs ==
  ASSUME NEW path \in Seq(STRING), path # <<>>
  PROVE  NormalPath(path) = Root(Without(ResolveDotSegments(path), {Empty}))
<1> DEFINE x == ResolveDotSegments(path)
           w == Without(x, {Empty})
<1>1. x \in Seq(Segments) /\ x # <<>>
  BY ResolveType
<1>2. NormalPath(path) = Trimmed(w \o IF Last(x) = Empty THEN <<Empty>> ELSE <<>>)
  BY DEF NormalPath, CollapseSlashes, Trimmed
<1> HIDE DEF x
<1>3. w \in Seq(Segments \ {Empty}) /\ (Last(x) # Empty => w # <<>>)
  BY <1>1, WithoutIs, WithoutNothing
<1> HIDE DEF w
<1>4. CASE Last(x) = Empty
  <2>1. NormalPath(path) = Trimmed(w \o <<Empty>>)
    BY <1>2, <1>4
  <2> QED  BY <1>3, <2>1, TrimmedIs DEF w, x
<1>5. CASE Last(x) # Empty
  <2>1. NormalPath(path) = Trimmed(w \o <<>>)
    BY <1>2, <1>5
  <2> QED  BY <1>3, <1>5, <2>1, TrimmedIs DEF w, x
<1> QED  BY <1>4, <1>5

\* The root has no segment but an empty one.
LEMMA WithoutRoot ==
  ASSUME NEW path \in Seq(Segments)
  PROVE  Without(Root(path), {Empty}) = Without(path, {Empty})
<1>1. CASE path = <<>>
  <2>1. <<>> \in Seq(Segments) /\ Empty \in Segments
    BY EmptySeq, EmptyIs
  <2>2. Without(Append(<<>>, Empty), {Empty}) = Without(<<>>, {Empty})
    BY <2>1, WithoutAppend
  <2>3. Append(<<>>, Empty) = <<Empty>>
    OBVIOUS
  <2> QED  BY <1>1, <2>2, <2>3 DEF Root
<1>2. CASE path # <<>>
  BY <1>2 DEF Root
<1> QED  BY <1>1, <1>2

\* Normalising a path that is resolved only removes its empty segments.
LEMMA NormalOfResolved ==
  ASSUME NEW path \in Seq(Segments)
  PROVE  NormalPath(Root(path)) = Root(Without(path, {Empty}))
<1> DEFINE r == Root(path)
<1>1. r \in Seq(Segments) /\ r # <<>>
  BY EmptyIs DEF Root
<1>2. Without(r, {Empty}) = Without(path, {Empty})
  BY WithoutRoot
<1> HIDE DEF r
<1>3. r \in Seq(STRING)
  BY <1>1, SeqMonotonic DEF Segments
<1>4. NormalPath(r) = Root(Without(r, {Empty}))
  BY <1>1, <1>3, NormalPathIs, NothingToResolve
<1> QED  BY <1>2, <1>4 DEF r

\* A normal path is a path, and its own normal form.
LEMMA NormalPathIsStable ==
  ASSUME NEW path \in Seq(STRING)
  PROVE  NormalPath(path) \in Seq(STRING) /\ NormalPath(NormalPath(path)) = NormalPath(path)
<1>1. PICK w \in Seq(Segments \ {Empty}) : NormalPath(path) = Root(w)
  <2>1. CASE path = <<>>
    <3>1. NormalPath(path) = Root(<<>>)
      BY <2>1 DEF NormalPath, Root
    <3> QED  BY <3>1, EmptySeq
  <2>2. CASE path # <<>>
    <3>1. ResolveDotSegments(path) \in Seq(Segments)
      BY ResolveType
    <3>2. Without(ResolveDotSegments(path), {Empty}) \in Seq(Segments \ {Empty})
      BY <3>1, WithoutIs
    <3> QED  BY <2>2, <3>2, NormalPathIs
  <2> QED  BY <2>1, <2>2
<1>2. w \in Seq(Segments)
  BY SeqMonotonic
<1>3. NormalPath(Root(w)) = Root(Without(w, {Empty}))
  BY <1>2, NormalOfResolved
<1>4. Without(w, {Empty}) = w
  BY <1>2, WithoutIs
<1>5. Root(w) \in Seq(STRING)
  <2>1. Root(w) \in Seq(Segments)
    BY <1>2, EmptyIs DEF Root
  <2> QED  BY <2>1, SeqMonotonic DEF Segments
<1> QED  BY <1>1, <1>3, <1>4, <1>5

\* A stack of resolveDotSegments that holds what one of RFC 3986 does, after the
\* empty segment that stands for the leading slash.
Above(d, r) ==
    Len(d) = Len(r) + 1 /\ d[1] = Empty /\ \A i \in 1..Len(r) : d[i + 1] = r[i]

\* The two treat a segment alike, but for ".." after an empty segment.
LEMMA StepsAreAlike ==
  ASSUME NEW d \in Stacks, NEW r \in Seq(Segments), Above(d, r), NEW seg \in STRING,
         seg = ".." => r \in Seq(Segments \ {Empty})
  PROVE  Above(DotStep(d, seg), RfcStep(r, seg))
<1>1. d \in Seq(Segments) /\ d # <<>> /\ Len(d) \in Nat \ {0} /\ Len(r) \in Nat
  BY EmptySeq, LenProperties DEF Stacks
<1>2. CASE seg = "."
  BY <1>2 DEF DotStep, RfcStep
<1>3. CASE seg = ".." /\ r = <<>>
  <2>1. Len(r) = 0
    BY <1>3, EmptySeq
  <2>2. Last(d) = d[Len(d)]
    BY <1>1, FrontIs
  <2>3. Last(d) = Empty
    BY <1>1, <2>1, <2>2 DEF Above
  <2> QED  BY <1>3, <2>3 DEF DotStep, RfcStep
<1>4. CASE seg = ".." /\ r # <<>>
  <2>1. Len(r) \in Nat \ {0}
    BY <1>4, EmptySeq
  <2>2. r[Len(r)] # Empty
    BY <1>4, <2>1, ElementOfSeq
  <2> DEFINE fd == Front(d)
             fr == Front(r)
  <2>3. /\ Len(fd) = Len(d) - 1 /\ Last(d) = d[Len(d)]
        /\ \A i \in 1..(Len(d) - 1) : fd[i] = d[i]
    BY <1>1, FrontIs
  <2>4. Len(fr) = Len(r) - 1 /\ \A i \in 1..(Len(r) - 1) : fr[i] = r[i]
    BY <1>4, FrontIs
  <2>5. Last(d) # Empty
    BY <2>1, <2>2, <2>3 DEF Above
  <2>6. DotStep(d, seg) = fd /\ RfcStep(r, seg) = fr
    BY <1>4, <2>5 DEF DotStep, RfcStep
  <2> HIDE DEF fd, fr
  <2>7. Len(fd) = Len(fr) + 1 /\ fd[1] = Empty
    BY <1>1, <2>1, <2>3, <2>4 DEF Above
  <2>8. ASSUME NEW i \in 1..Len(fr) PROVE fd[i + 1] = fr[i]
    <3>1. i \in 1..Len(r) /\ i \in 1..(Len(r) - 1) /\ i + 1 \in 1..(Len(d) - 1)
      BY <1>1, <2>1, <2>4 DEF Above
    <3> QED  BY <2>3, <2>4, <3>1 DEF Above
  <2> QED  BY <2>6, <2>7, <2>8 DEF Above
<1>5. CASE seg \notin {".", ".."}
  <2> DEFINE ad == Append(d, seg)
             ar == Append(r, seg)
  <2>1. DotStep(d, seg) = ad /\ RfcStep(r, seg) = ar /\ seg \in Segments
    BY <1>5 DEF DotStep, RfcStep, Segments
  <2>2. /\ Len(ad) = Len(d) + 1 /\ ad[Len(d) + 1] = seg
        /\ \A i \in 1..Len(d) : ad[i] = d[i]
    BY <1>1, <2>1, AppendProperties
  <2>3. /\ Len(ar) = Len(r) + 1 /\ ar[Len(r) + 1] = seg
        /\ \A i \in 1..Len(r) : ar[i] = r[i]
    BY <2>1, AppendProperties
  <2> HIDE DEF ad, ar
  <2>4. Len(ad) = Len(ar) + 1 /\ ad[1] = Empty
    BY <1>1, <2>2, <2>3 DEF Above
  <2>5. ASSUME NEW i \in 1..Len(ar) PROVE ad[i + 1] = ar[i]
    <3>1. CASE i \in 1..Len(r)
      <4>1. i + 1 \in 1..Len(d)
        BY <1>1, <3>1 DEF Above
      <4> QED  BY <2>2, <2>3, <3>1, <4>1 DEF Above
    <3>2. CASE i = Len(r) + 1
      BY <1>1, <2>2, <2>3, <3>2 DEF Above
    <3> QED  BY <1>1, <2>3, <3>1, <3>2
  <2> QED  BY <2>1, <2>4, <2>5 DEF Above
<1> QED  BY <1>2, <1>3, <1>4, <1>5

\* What RFC 3986 keeps has no empty segment as long as none was met.
LEMMA NoneWasMet ==
  ASSUME NEW r \in Seq(Segments \ {Empty}), NEW seg \in STRING \ {Empty}
  PROVE  RfcStep(r, seg) \in Seq(Segments \ {Empty})
<1>1. CASE seg = "."
  BY <1>1 DEF RfcStep
<1>2. CASE seg = ".."
  <2>1. RfcStep(r, seg) = IF r = <<>> THEN r ELSE Front(r)
    BY <1>2 DEF RfcStep
  <2> QED  BY <2>1, FrontIs
<1>3. CASE seg \notin {".", ".."}
  <2>1. RfcStep(r, seg) = Append(r, seg) /\ seg \in Segments \ {Empty}
    BY <1>3 DEF RfcStep, Segments
  <2>2. Append(r, seg) \in Seq(Segments \ {Empty})
    BY <2>1, AppendProperties
  <2> QED  BY <2>1, <2>2
<1> QED  BY <1>1, <1>2, <1>3

\* On a path in which no ".." comes after an empty segment, the two agree.
LEMMA StacksAreAlike ==
  ASSUME NEW path \in Seq(STRING), NoDotsAfterEmpty(path)
  PROVE  Above(DotStacks(path)[Len(path)], RfcStacks(path)[Len(path)])
<1> DEFINE d == DotStacks(path)
           r == RfcStacks(path)
           Met(n) == \E i \in 1..n : path[i] = Empty
           S == {n \in Nat : n <= Len(path) =>
                    /\ Above(d[n], r[n])
                    /\ Met(n) \/ r[n] \in Seq(Segments \ {Empty})}
<1>1. /\ Len(path) \in Nat /\ DOMAIN path = 1..Len(path)
      /\ \A n \in 1..Len(path) : path[n] \in STRING
  BY LenProperties, ElementOfSeq
<1>2. /\ d[0] = <<Empty>> /\ \A n \in 1..Len(path) : d[n] = DotStep(d[n - 1], path[n])
      /\ \A n \in 0..Len(path) : d[n] \in Stacks
  BY DotStacksAre
<1>3. /\ r[0] = <<>> /\ \A n \in 1..Len(path) : r[n] = RfcStep(r[n - 1], path[n])
      /\ \A n \in 0..Len(path) : r[n] \in Seq(Segments)
  BY RfcStacksAre
<1> HIDE DEF d, r
<1>4. 0 \in S
  <2> DEFINE none == <<>>
             one == <<Empty>>
  <2>1. Len(one) = 1 /\ one[1] = Empty
    OBVIOUS
  <2>2. Len(none) = 0 /\ none \in Seq(Segments \ {Empty})
    BY EmptySeq
  <2> HIDE DEF one, none
  <2>3. Above(one, none)
    BY <2>1, <2>2 DEF Above
  <2> QED  BY <1>2, <1>3, <2>2, <2>3 DEF one, none
<1>5. ASSUME NEW n \in Nat, n \in S, n + 1 <= Len(path)
      PROVE  /\ Above(d[n + 1], r[n + 1])
             /\ Met(n + 1) \/ r[n + 1] \in Seq(Segments \ {Empty})
  <2> DEFINE seg == path[n + 1]
  <2>1. /\ n \in 0..Len(path) /\ n + 1 \in 1..Len(path) /\ (n + 1) - 1 = n
        /\ seg \in STRING
    BY <1>1, <1>5
  <2>2. Above(d[n], r[n]) /\ (Met(n) \/ r[n] \in Seq(Segments \ {Empty}))
    BY <1>5, <2>1
  <2>3. d[n + 1] = DotStep(d[n], seg) /\ r[n + 1] = RfcStep(r[n], seg)
    BY <1>2, <1>3, <2>1
  <2>4. d[n] \in Stacks /\ r[n] \in Seq(Segments)
    BY <1>2, <1>3, <2>1
  <2>5. Met(n) => seg # ".."
    <3>1. ASSUME NEW i \in 1..n, path[i] = Empty PROVE seg # ".."
      <4>1. i \in DOMAIN path /\ n + 1 \in DOMAIN path /\ i < n + 1
        BY <1>1, <1>5
      <4> QED  BY <3>1, <4>1 DEF NoDotsAfterEmpty
    <3> QED  BY <3>1
  <2>6. Above(d[n + 1], r[n + 1])
    <3> HIDE DEF seg, Met
    <3> QED  BY <2>1, <2>2, <2>3, <2>4, <2>5, StepsAreAlike
  <2>7. ASSUME ~Met(n + 1) PROVE r[n + 1] \in Seq(Segments \ {Empty})
    <3>1. ~Met(n) /\ seg # Empty
      BY <2>7
    <3> HIDE DEF seg, Met
    <3> QED  BY <2>1, <2>2, <2>3, <3>1, NoneWasMet
  <2> QED  BY <2>6, <2>7
<1>6. Len(path) \in S
  <2>1. \A n \in Nat : n \in S => n + 1 \in S
    BY <1>5
  <2> HIDE DEF S
  <2> QED  BY <1>1, <1>4, <2>1, AllNumbers
<1> QED  BY <1>1, <1>6 DEF d, r

LEMMA ResolvedIsRfc ==
  ASSUME NEW path \in Seq(STRING), NoDotsAfterEmpty(path)
  PROVE  ResolveDotSegments(path) = Root(RfcStacks(path)[Len(path)])
<1> DEFINE d == DotStacks(path)[Len(path)]
           r == RfcStacks(path)[Len(path)]
<1>1. ResolveDotSegments(path) = IF d = <<Empty>> THEN <<Empty>> ELSE Tail(d)
  BY DEF ResolveDotSegments
<1>2. d \in Stacks /\ r \in Seq(Segments) /\ Above(d, r)
  <2>1. Len(path) \in 0..Len(path)
    BY LenProperties
  <2> QED  BY <2>1, DotStacksAre, RfcStacksAre, StacksAreAlike
<1> HIDE DEF d, r
<1>3. /\ d \in Seq(Segments) /\ d # <<>> /\ Len(r) \in Nat /\ Len(d) = Len(r) + 1
      /\ d[1] = Empty /\ \A i \in 1..Len(r) : d[i + 1] = r[i]
  BY <1>2, LenProperties DEF Stacks, Above
<1> DEFINE one == <<Empty>>
           t == Tail(d)
<1>4. one \in Seq(Segments) /\ Len(one) = 1 /\ one[1] = Empty
  BY EmptyIs
<1>5. t \in Seq(Segments) /\ Len(t) = Len(d) - 1 /\ \A i \in 1..Len(t) : t[i] = d[i + 1]
  BY <1>3, HeadTailProperties
<1> HIDE DEF t
<1>6. t = r
  <2>1. Len(t) = Len(r) /\ \A i \in 1..Len(t) : t[i] = r[i]
    BY <1>3, <1>5
  <2> QED  BY <1>2, <1>5, <2>1, SeqEqual
<1> HIDE DEF one
<1>7. CASE r = <<>>
  <2>1. Len(d) = 1
    BY <1>3, <1>7, EmptySeq
  <2>2. ASSUME NEW i \in 1..Len(d) PROVE d[i] = one[i]
    <3>1. i = 1
      BY <2>1
    <3>2. d[1] = one[1]
      BY <1>3, <1>4
    <3> QED  BY <3>1, <3>2
  <2>3. d = one
    BY <1>3, <1>4, <2>1, <2>2, SeqEqual
  <2> QED  BY <1>1, <1>7, <2>3 DEF Root, one, r
<1>8. CASE r # <<>>
  <2>1. Len(d) > 1
    BY <1>2, <1>3, <1>8, EmptySeq
  <2>2. ASSUME d = one PROVE FALSE
    <3>1. Len(d) = Len(one)
      BY <2>2
    <3> QED  BY <1>4, <2>1, <3>1
  <2> QED  BY <1>1, <1>6, <1>8, <2>2 DEF Root, t, one, r
<1> QED  BY <1>7, <1>8

\* What net/url makes of a path, and its segments that are not empty.
LEMMA RfcPathIs ==
  ASSUME NEW path \in Seq(STRING)
  PROVE  /\ RfcPath(path) \in Seq(Segments)
         /\ Without(RfcPath(path), {Empty}) =
               Without(RfcStacks(path)[Len(path)], {Empty})
<1> DEFINE r == RfcStacks(path)[Len(path)]
           slash == path # <<>> /\ Last(path) \in {".", ".."}
<1>1. r \in Seq(Segments)
  <2>1. Len(path) \in 0..Len(path)
    BY LenProperties
  <2> QED  BY <2>1, RfcStacksAre
<1>2. RfcPath(path) = r \o IF slash THEN <<Empty>> ELSE <<>>
  BY DEF RfcPath
<1> HIDE DEF r, slash
<1>3. CASE slash
  <2>1. RfcPath(path) = Append(r, Empty)
    BY <1>1, <1>2, <1>3, EmptyIs, AppendIsConcat
  <2>2. Append(r, Empty) \in Seq(Segments)
    BY <1>1, EmptyIs, AppendProperties
  <2>3. Without(Append(r, Empty), {Empty}) = Without(r, {Empty})
    BY <1>1, EmptyIs, WithoutAppend
  <2> QED  BY <2>1, <2>2, <2>3 DEF r
<1>4. CASE ~slash
  <2>1. RfcPath(path) = r
    BY <1>1, <1>2, <1>4, ConcatEmptySeq
  <2> QED  BY <1>1, <2>1 DEF r
<1> QED  BY <1>3, <1>4

\* The path of a seed is normalised to the segments that net/url would keep and that
\* are not empty.
LEMMA PlainPath ==
  ASSUME NEW path \in Seq(STRING), NoDotsAfterEmpty(path)
  PROVE  NormalPath(path) = Root(Without(RfcPath(path), {Empty}))
<1> DEFINE r == RfcStacks(path)[Len(path)]
<1>1. r \in Seq(Segments)
  <2>1. Len(path) \in 0..Len(path)
    BY LenProperties
  <2> QED  BY <2>1, RfcStacksAre
<1>2. Without(RfcPath(path), {Empty}) = Without(r, {Empty})
  BY RfcPathIs
<1>3. CASE path = <<>>
  <2>1. NormalPath(path) = Root(<<>>)
    BY <1>3 DEF NormalPath, Root
  <2>2. r = <<>>
    BY <1>3, RfcStacksAre, EmptySeq
  <2>3. Without(<<>>, {Empty}) = <<>>
    BY EmptySeq, WithoutIs
  <2> QED  BY <1>2, <2>1, <2>2, <2>3
<1>4. CASE path # <<>>
  <2>1. ResolveDotSegments(path) = Root(r)
    BY ResolvedIsRfc
  <2>2. Without(Root(r), {Empty}) = Without(r, {Empty})
    BY <1>1, WithoutRoot
  <2> QED  BY <1>2, <1>4, <2>1, <2>2, NormalPathIs
<1> QED  BY <1>3, <1>4

\* A link, whose path net/url has resolved, gets the path of the seed.
LEMMA LinkPath ==
  ASSUME NEW path \in Seq(STRING), NoDotsAfterEmpty(path)
  PROVE  NormalPath(Root(RfcPath(path))) = NormalPath(path)
BY RfcPathIs, NormalOfResolved, PlainPath

-----------------------------------------------------------------------------
(* Parameters *)

\* The pairs of a key and a value, and those that are not removed.
Pairs == Nat \X Nat
Params == {p \in Pairs : p[1] \notin Stripped}

LEMMA FunctionIsSeq ==
  ASSUME NEW S, NEW n \in Nat, NEW f \in [1..n -> S]
  PROVE  f \in Seq(S) /\ Len(f) = n
<1>1. f \in Seq(S)
  BY SeqDef
<1>2. Len(f) \in Nat /\ DOMAIN f = 1..Len(f) /\ DOMAIN f = 1..n
  BY <1>1, LenProperties
<1>3. Len(f) = n
  <2> DEFINE k == Len(f)
  <2>1. k \in Nat /\ 1..k = 1..n
    BY <1>2
  <2> HIDE DEF k
  <2>2. k >= 1 => k \in 1..n
    BY <2>1
  <2>3. n >= 1 => n \in 1..k
    BY <2>1
  <2>4. k = n
    BY <2>1, <2>2, <2>3
  <2> QED  BY <2>4 DEF k
<1> QED  BY <1>1, <1>3

LEMMA BijectionIs ==
  ASSUME NEW S, NEW p
  PROVE  p \in Bijection(S, S) <=>
            /\ p \in [S -> S]
            /\ \A a, b \in S : p[a] = p[b] => a = b
            /\ \A t \in S : \E s \in S : p[s] = t
BY DEF Bijection, Injection, Surjection, IsInjective

\* A rearrangement is a sequence of the same length and elements.
LEMMA RearrangedIs ==
  ASSUME NEW B, NEW seq \in Seq(B), NEW q \in Rearranged(seq)
  PROVE  /\ q \in Seq(B) /\ Len(q) = Len(seq)
         /\ \E p \in Bijection(1..Len(seq), 1..Len(seq)) :
               \A i \in 1..Len(seq) : q[i] = seq[p[i]]
<1>1. Len(seq) \in Nat /\ DOMAIN seq = 1..Len(seq) /\ \A i \in 1..Len(seq) : seq[i] \in B
  BY LenProperties, ElementOfSeq
<1>2. PICK p \in Bijection(1..Len(seq), 1..Len(seq)) :
         q = [i \in 1..Len(seq) |-> seq[p[i]]]
  BY <1>1 DEF Rearranged
<1>3. p \in [1..Len(seq) -> 1..Len(seq)]
  BY BijectionIs
<1>4. q \in [1..Len(seq) -> B]
  BY <1>1, <1>2, <1>3
<1>5. q \in Seq(B) /\ Len(q) = Len(seq)
  BY <1>1, <1>4, FunctionIsSeq
<1> QED  BY <1>2, <1>5

LEMMA IsRearranged ==
  ASSUME NEW B, NEW seq \in Seq(B), NEW q \in Seq(B), Len(q) = Len(seq),
         NEW p \in Bijection(1..Len(seq), 1..Len(seq)),
         \A i \in 1..Len(seq) : q[i] = seq[p[i]]
  PROVE  q \in Rearranged(seq)
<1>1. DOMAIN seq = 1..Len(seq) /\ q \in [1..Len(seq) -> B]
  BY LenProperties
<1>2. q = [i \in 1..Len(seq) |-> seq[p[i]]]
  <2>1. q = [i \in 1..Len(seq) |-> q[i]]
    BY <1>1
  <2> QED  BY <2>1
<1> QED  BY <1>1, <1>2 DEF Rearranged

\* To be a rearrangement of is an equivalence.
LEMMA RearrangedSelf ==
  ASSUME NEW B, NEW seq \in Seq(B)
  PROVE  seq \in Rearranged(seq)
<1> DEFINE p == [i \in 1..Len(seq) |-> i]
<1>1. p \in Bijection(1..Len(seq), 1..Len(seq))
  BY BijectionIs
<1>2. \A i \in 1..Len(seq) : seq[i] = seq[p[i]]
  OBVIOUS
<1> HIDE DEF p
<1> QED  BY <1>1, <1>2, IsRearranged

LEMMA RearrangedBack ==
  ASSUME NEW B, NEW seq \in Seq(B), NEW q \in Rearranged(seq)
  PROVE  seq \in Rearranged(q)
<1> DEFINE D == 1..Len(seq)
<1>1. PICK p \in Bijection(D, D) : \A i \in D : q[i] = seq[p[i]]
  BY RearrangedIs
<1>2. q \in Seq(B) /\ Len(q) = Len(seq)
  BY RearrangedIs
<1>3. /\ p \in [D -> D] /\ \A a, b \in D : p[a] = p[b] => a = b
      /\ \A t \in D : \E s \in D : p[s] = t
  <2> HIDE DEF D
  <2> QED  BY BijectionIs
<1> DEFINE back == [t \in D |-> CHOOSE s \in D : p[s] = t]
<1> HIDE DEF D
<1>4. \A t \in D : back[t] \in D /\ p[back[t]] = t
  BY <1>3
<1>5. \A s \in D : back[p[s]] = s
  BY <1>3, <1>4
<1>6. back \in [D -> D]
  BY <1>4
<1> HIDE DEF back
<1>7. back \in Bijection(D, D)
  <2>1. \A a, b \in D : back[a] = back[b] => a = b
    BY <1>4
  <2>2. \A t \in D : \E s \in D : back[s] = t
    BY <1>3, <1>5
  <2> QED  BY <1>6, <2>1, <2>2, BijectionIs
<1>8. \A i \in D : seq[i] = q[back[i]]
  BY <1>1, <1>4
<1> QED  BY <1>2, <1>7, <1>8, IsRearranged DEF D

LEMMA RearrangedAgain ==
  ASSUME NEW B, NEW seq \in Seq(B), NEW q \in Rearranged(seq), NEW r \in Rearranged(q)
  PROVE  r \in Rearranged(seq)
<1> DEFINE D == 1..Len(seq)
<1>1. PICK p \in Bijection(D, D) : \A i \in D : q[i] = seq[p[i]]
  BY RearrangedIs
<1>2. q \in Seq(B) /\ Len(q) = Len(seq)
  BY RearrangedIs
<1>3. r \in Seq(B) /\ Len(r) = Len(q)
  BY <1>2, RearrangedIs
<1>4. PICK o \in Bijection(D, D) : \A i \in D : r[i] = q[o[i]]
  BY <1>2, RearrangedIs
<1> DEFINE both == [i \in D |-> p[o[i]]]
<1>5. both \in Bijection(D, D)
  <2> HIDE DEF D
  <2> QED  BY Fun_BijTransitive
<1>6. \A i \in D : o[i] \in D
  <2> HIDE DEF D
  <2> QED  BY BijectionIs
<1> HIDE DEF D
<1>7. \A i \in D : r[i] = seq[both[i]]
  BY <1>1, <1>4, <1>6
<1> HIDE DEF both
<1> QED  BY <1>2, <1>3, <1>5, <1>7, IsRearranged DEF D

\* Before is a total order.
LEMMA BeforeIsOrder ==
  ASSUME NEW a \in Pairs, NEW b \in Pairs, NEW c \in Pairs
  PROVE  /\ a # b => Before(a, b) \/ Before(b, a)
         /\ ~Before(a, a)
         /\ Before(a, b) => ~Before(b, a)
         /\ Before(a, b) /\ ~Before(c, b) => Before(a, c)
         /\ ~Before(b, a) /\ Before(b, c) => Before(a, c)
<1>1. /\ a = <<a[1], a[2]>> /\ a[1] \in Nat /\ a[2] \in Nat
      /\ b = <<b[1], b[2]>> /\ b[1] \in Nat /\ b[2] \in Nat
      /\ c[1] \in Nat /\ c[2] \in Nat
  BY DEF Pairs
<1>2. a # b => Before(a, b) \/ Before(b, a)
  <2>1. a # b => a[1] # b[1] \/ a[2] # b[2]
    BY <1>1
  <2> QED  BY <1>1, <2>1 DEF Before
<1> QED  BY <1>1, <1>2 DEF Before

\* A sequence has an element that comes before no other.
LEMMA LastOne ==
  ASSUME NEW seq \in Seq(Pairs), seq # <<>>
  PROVE  \E m \in 1..Len(seq) : \A i \in 1..Len(seq) : ~Before(seq[m], seq[i])
<1> DEFINE S == {n \in Nat : n + 1 <= Len(seq) =>
                    \E m \in 1..(n + 1) : \A i \in 1..(n + 1) : ~Before(seq[m], seq[i])}
<1>1. Len(seq) \in Nat \ {0} /\ \A i \in 1..Len(seq) : seq[i] \in Pairs
  BY EmptySeq, ElementOfSeq
<1>2. 0 \in S
  <2>1. ~Before(seq[1], seq[1])
    BY <1>1, BeforeIsOrder
  <2> QED  BY <2>1
<1>3. ASSUME NEW n \in Nat, n \in S, n + 2 <= Len(seq)
      PROVE  \E m \in 1..(n + 2) : \A i \in 1..(n + 2) : ~Before(seq[m], seq[i])
  <2>1. PICK m \in 1..(n + 1) : \A i \in 1..(n + 1) : ~Before(seq[m], seq[i])
    BY <1>1, <1>3
  <2>2. /\ seq[m] \in Pairs /\ seq[n + 2] \in Pairs
        /\ \A i \in 1..(n + 1) : seq[i] \in Pairs
    BY <1>1, <1>3
  <2>3. CASE Before(seq[m], seq[n + 2])
    <3>1. ASSUME NEW i \in 1..(n + 2) PROVE ~Before(seq[n + 2], seq[i])
      <4>1. CASE i = n + 2
        BY <2>2, <4>1, BeforeIsOrder
      <4>2. CASE i \in 1..(n + 1)
        <5>1. ~Before(seq[m], seq[i]) /\ seq[i] \in Pairs
          BY <2>1, <2>2, <4>2
        <5>2. ASSUME Before(seq[n + 2], seq[i]) PROVE Before(seq[m], seq[i])
          <6>1. ~Before(seq[n + 2], seq[m])
            BY <2>2, <2>3, BeforeIsOrder
          <6> QED  BY <2>2, <5>1, <5>2, <6>1, BeforeIsOrder
        <5> QED  BY <5>1, <5>2
      <4> QED  BY <4>1, <4>2
    <3> QED  BY <3>1
  <2>4. CASE ~Before(seq[m], seq[n + 2])
    <3>1. ASSUME NEW i \in 1..(n + 2) PROVE ~Before(seq[m], seq[i])
      <4>1. i = n + 2 \/ i \in 1..(n + 1)
        OBVIOUS
      <4> QED  BY <2>1, <2>4, <4>1
    <3> QED  BY <3>1
  <2> QED  BY <2>3, <2>4
<1>4. ASSUME NEW n \in Nat, n \in S PROVE n + 1 \in S
  <2>1. CASE n + 2 <= Len(seq)
    <3>1. (n + 1) + 1 = n + 2
      OBVIOUS
    <3>2. \E m \in 1..(n + 2) : \A i \in 1..(n + 2) : ~Before(seq[m], seq[i])
      <4> HIDE DEF S
      <4> QED  BY <1>3, <1>4, <2>1
    <3>3. n + 1 \in Nat
      OBVIOUS
    <3> QED  BY ONLY <3>1, <3>2, <3>3 DEF S
  <2>2. CASE ~((n + 1) + 1 <= Len(seq))
    BY <2>2
  <2> QED  BY <2>1, <2>2
<1>5. Len(seq) - 1 \in S
  <2>1. Len(seq) - 1 \in Nat
    BY <1>1
  <2> HIDE DEF S
  <2> QED  BY <1>2, <1>4, <2>1, AllNumbers
<1> QED  BY <1>1, <1>5

\* There is one order: two rearrangements in order are the same.
LEMMA OneOrder ==
  ASSUME NEW q \in Seq(Pairs), InOrder(q), NEW r \in Rearranged(q), InOrder(r)
  PROVE  r = q
<1> DEFINE n == Len(q)
<1>1. n \in Nat /\ DOMAIN q = 1..n /\ \A i \in 1..n : q[i] \in Pairs
  BY LenProperties, ElementOfSeq
<1>2. r \in Seq(Pairs) /\ Len(r) = n
  BY RearrangedIs
<1>3. PICK p \in Bijection(1..n, 1..n) : \A i \in 1..n : r[i] = q[p[i]]
  BY RearrangedIs
<1>4. DOMAIN r = 1..n /\ \A i \in 1..n : r[i] \in Pairs
  BY <1>2, LenProperties, ElementOfSeq
<1> HIDE DEF n
<1>5. p \in [1..n -> 1..n] /\ \A a, b \in 1..n : p[a] = p[b] => a = b
  BY BijectionIs
<1>6. \A i, j \in 1..n : i <= j => ~Before(q[j], q[i]) /\ ~Before(r[j], r[i])
  <2>1. ASSUME NEW i \in 1..n, NEW j \in 1..n, i <= j
        PROVE  ~Before(q[j], q[i]) /\ ~Before(r[j], r[i])
    <3>1. CASE i = j
      BY <1>1, <1>4, <3>1, BeforeIsOrder
    <3>2. CASE i < j
      BY <1>1, <1>4, <3>2 DEF InOrder
    <3> QED  BY <2>1, <3>1, <3>2
  <2> QED  BY <2>1
<1>7. ASSUME NEW i \in 1..n PROVE ~Before(r[i], q[i])
  <2>1. SUFFICES ASSUME Before(r[i], q[i]) PROVE FALSE
    OBVIOUS
  <2>2. ASSUME NEW j \in 1..i PROVE p[j] \in 1..(i - 1)
    <3>1. j \in 1..n /\ p[j] \in 1..n /\ r[j] = q[p[j]]
      BY <1>1, <1>3, <1>5
    <3>2. ~Before(r[i], r[j]) /\ r[i] \in Pairs /\ r[j] \in Pairs /\ q[i] \in Pairs
      BY <1>1, <1>4, <1>6, <3>1
    <3>3. Before(r[j], q[i])
      BY <2>1, <3>2, BeforeIsOrder
    <3>4. ~(i <= p[j])
      BY <1>6, <3>1, <3>3
    <3> QED  BY <1>1, <3>1, <3>4
  <2>3. \A j, k \in 1..i : p[j] = p[k] => j = k
    <3>1. \A j \in 1..i : j \in 1..n
      BY <1>1
    <3> QED  BY <1>5, <3>1
  <2>4. i \in Nat /\ 1 <= i /\ i - 1 \in Nat /\ (i - 1) - 1 < i - 1
    BY <1>1
  <2> DEFINE f == [j \in 1..i |-> p[j]]
  <2>5. f \in [1..i -> 1..(i - 1)]
    BY <2>2
  <2> HIDE DEF f
  <2>6. \E j, k \in 1..i : j # k /\ f[j] = f[k]
    <3> DEFINE e == i - 1
    <3>1. 1 \in Nat /\ i \in Nat /\ e \in Nat /\ 1 <= i /\ e - 1 < i - 1
      BY <2>4
    <3> DEFINE S == 1..i
               T == 1..e
    <3>2. S = 1..i /\ T = 1..e /\ f \in [S -> T]
      BY <2>5
    <3>3. IsFiniteSet(S) /\ Cardinality(S) = i
      BY <3>1, FS_Interval
    <3>4. IsFiniteSet(T) /\ Cardinality(T) = e
      BY <3>1, FS_Interval
    <3>5. Cardinality(T) < Cardinality(S)
      BY <3>1, <3>3, <3>4
    <3> HIDE DEF e, S, T
    <3>6. \E j, k \in S : j # k /\ f[j] = f[k]
      BY <3>2, <3>3, <3>4, <3>5, FS_PigeonHole
    <3> QED  BY <3>6 DEF S
  <2> QED  BY <2>3, <2>6 DEF f
<1>8. ASSUME NEW i \in 1..n PROVE ~Before(q[i], r[i])
  <2>1. SUFFICES ASSUME Before(q[i], r[i]) PROVE FALSE
    OBVIOUS
  <2>2. ASSUME NEW j \in i..n PROVE p[j] \in (i + 1)..n
    <3>1. j \in 1..n /\ p[j] \in 1..n /\ r[j] = q[p[j]]
      BY <1>1, <1>3, <1>5
    <3>2. ~Before(r[j], r[i]) /\ r[i] \in Pairs /\ r[j] \in Pairs /\ q[i] \in Pairs
      BY <1>1, <1>4, <1>6, <3>1
    <3>3. Before(q[i], r[j])
      BY <2>1, <3>2, BeforeIsOrder
    <3>4. ~(p[j] <= i)
      BY <1>6, <3>1, <3>3
    <3> QED  BY <1>1, <3>1, <3>4
  <2>3. \A j, k \in i..n : p[j] = p[k] => j = k
    <3>1. \A j \in i..n : j \in 1..n
      BY <1>1
    <3> QED  BY <1>5, <3>1
  <2>4. i \in Nat /\ i <= n /\ i + 1 \in Nat /\ n - (i + 1) < n - i
    BY <1>1
  <2> DEFINE f == [j \in i..n |-> p[j]]
  <2>5. f \in [i..n -> (i + 1)..n]
    BY <2>2
  <2> HIDE DEF f
  <2>6. \E j, k \in i..n : j # k /\ f[j] = f[k]
    <3> DEFINE e == i + 1
    <3>1. i \in Nat /\ n \in Nat /\ e \in Nat /\ i <= n /\ n - e < n - i
      BY <1>1, <2>4
    <3> DEFINE S == i..n
               T == e..n
    <3>2. S = i..n /\ T = e..n /\ f \in [S -> T]
      BY <2>5
    <3>3. IsFiniteSet(S) /\ Cardinality(S) = n - i + 1
      BY <3>1, FS_Interval
    <3>4. IsFiniteSet(T) /\ Cardinality(T) = n - i
      BY <3>1, FS_Interval
    <3>5. Cardinality(T) < Cardinality(S)
      BY <3>1, <3>3, <3>4
    <3> HIDE DEF e, S, T
    <3>6. \E j, k \in S : j # k /\ f[j] = f[k]
      BY <3>2, <3>3, <3>4, <3>5, FS_PigeonHole
    <3> QED  BY <3>6 DEF S
  <2> QED  BY <2>3, <2>6 DEF f
<1>9. \A i \in 1..n : r[i] = q[i]
  BY <1>1, <1>4, <1>7, <1>8, BeforeIsOrder
<1> QED  BY <1>2, <1>9, SeqEqual DEF n

\* There is an order: what comes before no other goes to the end.
LEMMA OrderExists ==
  ASSUME NEW seq \in Seq(Pairs)
  PROVE  \E q \in Rearranged(seq) : InOrder(q)
<1> DEFINE S == {n \in Nat : \A s \in Seq(Pairs) :
                    Len(s) = n => \E q \in Rearranged(s) : InOrder(q)}
<1>1. 0 \in S
  <2>1. ASSUME NEW s \in Seq(Pairs), Len(s) = 0 PROVE \E q \in Rearranged(s) : InOrder(q)
    <3>1. s \in Rearranged(s)
      BY RearrangedSelf
    <3>2. DOMAIN s = {}
      BY <2>1, LenProperties
    <3>3. InOrder(s)
      BY <3>2 DEF InOrder
    <3> QED  BY <3>1, <3>3
  <2> QED  BY <2>1
<1>2. ASSUME NEW n \in Nat, n \in S, NEW s \in Seq(Pairs), Len(s) = n + 1
      PROVE  \E q \in Rearranged(s) : InOrder(q)
  <2> DEFINE D == 1..(n + 1)
  <2>1. s # <<>> /\ \A i \in D : s[i] \in Pairs
    BY <1>2, EmptySeq, ElementOfSeq
  <2>2. PICK m \in D : \A i \in D : ~Before(s[m], s[i])
    BY <1>2, <2>1, LastOne
  <2> DEFINE swap == [i \in D |-> IF i = m THEN n + 1 ELSE IF i = n + 1 THEN m ELSE i]
             t == [i \in 1..n |-> s[swap[i]]]
  <2>3. \A i \in D : swap[i] \in D /\ swap[swap[i]] = i /\ (swap[i] = m <=> i = n + 1)
    <3>1. n + 1 \in D /\ m \in D
      OBVIOUS
    <3> HIDE DEF D
    <3> QED  BY <3>1
  <2>4. \A i \in 1..n : i \in D
    OBVIOUS
  <2>5. t \in Seq(Pairs) /\ Len(t) = n
    <3>1. t \in [1..n -> Pairs]
      <4> HIDE DEF D, swap
      <4> QED  BY <2>1, <2>3, <2>4
    <3> HIDE DEF t
    <3> QED  BY <3>1, FunctionIsSeq
  <2>6. \A i \in 1..n : t[i] = s[swap[i]]
    OBVIOUS
  <2> HIDE DEF t, swap
  <2>7. PICK q \in Rearranged(t) : InOrder(q)
    BY <1>2, <2>5
  <2>8. q \in Seq(Pairs) /\ Len(q) = n
    BY <2>5, RearrangedIs
  <2>9. PICK p \in Bijection(1..n, 1..n) : \A i \in 1..n : q[i] = t[p[i]]
    <3>1. \E p \in Bijection(1..Len(t), 1..Len(t)) : \A i \in 1..Len(t) : q[i] = t[p[i]]
      BY <2>5, RearrangedIs
    <3> QED  BY <2>5, <3>1
  <2>10. /\ p \in [1..n -> 1..n] /\ \A a, b \in 1..n : p[a] = p[b] => a = b
         /\ \A k \in 1..n : \E i \in 1..n : p[i] = k
    BY BijectionIs
  <2> DEFINE P == [i \in D |-> IF i = n + 1 THEN m ELSE swap[p[i]]]
             Q == [i \in D |-> s[P[i]]]
  <2>11. P[n + 1] = m /\ \A i \in 1..n : P[i] = swap[p[i]]
    OBVIOUS
  <2>12. \A i \in D : i = n + 1 \/ i \in 1..n
    OBVIOUS
  <2>13. \A i \in D : P[i] \in D
    <3> HIDE DEF D
    <3> QED  BY <2>3, <2>4, <2>10, <2>12
  <2>14. P \in [D -> D]
    BY <2>13
  <2> HIDE DEF P
  <2>15. \A i \in 1..n : p[i] \in D /\ p[i] # n + 1
    BY <2>10
  <2>16. \A a, b \in D : P[a] = P[b] => a = b
    <3>1. ASSUME NEW a \in D, NEW b \in D, P[a] = P[b] PROVE a = b
      <4>1. CASE a \in 1..n /\ b \in 1..n
        <5>1. swap[p[a]] = swap[p[b]]
          BY <2>11, <3>1, <4>1
        <5>2. p[a] = p[b]
          BY <2>3, <2>15, <4>1, <5>1
        <5> QED  BY <2>10, <4>1, <5>2
      <4>2. CASE a \in 1..n /\ b = n + 1
        BY <2>3, <2>11, <2>15, <3>1, <4>2
      <4>3. CASE a = n + 1 /\ b \in 1..n
        BY <2>3, <2>11, <2>15, <3>1, <4>3
      <4> QED  BY <2>12, <4>1, <4>2, <4>3
    <3> QED  BY <3>1
  <2>17. ASSUME NEW k \in D PROVE \E i \in D : P[i] = k
    <3>1. CASE k = m
      <4>1. n + 1 \in D
        OBVIOUS
      <4> QED  BY <2>11, <3>1, <4>1
    <3>2. CASE k # m
      <4>1. swap[k] \in D /\ swap[swap[k]] = k
        BY <2>3
      <4>2. swap[k] # n + 1
        <5>1. ASSUME swap[k] = n + 1 PROVE FALSE
          <6>1. swap[swap[k]] = m
            BY <2>3, <4>1, <5>1
          <6> QED  BY <3>2, <4>1, <6>1
        <5> QED  BY <5>1
      <4>3. swap[k] \in 1..n
        BY <2>12, <4>1, <4>2
      <4>4. PICK i \in 1..n : p[i] = swap[k]
        BY <2>10, <4>3
      <4> QED  BY <2>4, <2>11, <4>1, <4>4
    <3> QED  BY <3>1, <3>2
  <2>18. P \in Bijection(D, D)
    <3> HIDE DEF D
    <3> QED  BY <2>14, <2>16, <2>17, BijectionIs
  <2>19. Q \in Seq(Pairs) /\ Len(Q) = n + 1
    <3>1. Q \in [1..(n + 1) -> Pairs]
      BY <2>1, <2>13
    <3> HIDE DEF Q
    <3> QED  BY <3>1, FunctionIsSeq
  <2>20. \A i \in D : Q[i] = s[P[i]]
    OBVIOUS
  <2> HIDE DEF Q
  <2>21. Q \in Rearranged(s)
    BY <1>2, <2>18, <2>19, <2>20, IsRearranged
  <2>22. \A i \in 1..n : Q[i] = q[i]
    <3>1. ASSUME NEW i \in 1..n PROVE Q[i] = q[i]
      <4>1. Q[i] = s[swap[p[i]]]
        BY <2>4, <2>11, <2>20
      <4>2. q[i] = s[swap[p[i]]]
        BY <2>6, <2>9, <2>10
      <4> QED  BY <4>1, <4>2
    <3> QED  BY <3>1
  <2>23. ASSUME NEW i \in D, NEW j \in D, i < j PROVE ~Before(Q[j], Q[i])
    <3>1. CASE j = n + 1
      <4>1. Q[j] = s[m] /\ Q[i] = s[P[i]] /\ P[i] \in D
        BY <2>11, <2>13, <2>20, <3>1
      <4> QED  BY <2>2, <4>1
    <3>2. CASE j \in 1..n
      <4>1. i \in 1..n
        BY <2>23, <3>2
      <4>2. DOMAIN q = 1..n
        BY <2>8, LenProperties
      <4>3. ~Before(q[j], q[i])
        BY <2>7, <2>23, <3>2, <4>1, <4>2 DEF InOrder
      <4> QED  BY <2>22, <3>2, <4>1, <4>3
    <3> QED  BY <2>12, <3>1, <3>2
  <2>24. InOrder(Q)
    <3>1. DOMAIN Q = D
      BY <2>19, LenProperties
    <3> QED  BY <2>23, <3>1 DEF InOrder
  <2> QED  BY <2>21, <2>24
<1>3. ASSUME NEW n \in Nat, n \in S PROVE n + 1 \in S
  <2>1. \A s \in Seq(Pairs) : Len(s) = n + 1 => \E q \in Rearranged(s) : InOrder(q)
    BY <1>2, <1>3
  <2> QED  BY <2>1
<1>4. Len(seq) \in Nat /\ Len(seq) \in S
  <2>1. Len(seq) \in Nat
    BY LenProperties
  <2> HIDE DEF S
  <2> QED  BY <1>1, <1>3, <2>1, AllNumbers
<1> QED  BY <1>4

LEMMA KeptIs ==
  ASSUME NEW query \in Seq(Pairs)
  PROVE  Kept(query) \in Seq(Params) /\ (query \in Seq(Params) => Kept(query) = query)
<1> DEFINE B == ToSet(query)
           out == {p \in ToSet(query) : p[1] \in Stripped}
<1>1. /\ Len(query) \in Nat /\ DOMAIN query = 1..Len(query) /\ query \in [1..Len(query) -> Pairs]
      /\ \A i \in 1..Len(query) : query[i] \in Pairs
  BY LenProperties, ElementOfSeq
<1>2. \A i \in 1..Len(query) : query[i] \in B
  BY <1>1 DEF ToSet
<1>3. B \subseteq Pairs
  BY <1>1 DEF ToSet
<1>4. Kept(query) = Without(query, out)
  BY DEF Kept
<1> HIDE DEF B
<1>5. query \in Seq(B)
  <2>1. query \in [1..Len(query) -> B]
    BY <1>1, <1>2
  <2> QED  BY <1>1, <2>1, FunctionIsSeq
<1>6. B \ out \subseteq Params
  BY <1>3 DEF Params, B
<1>7. query \in Seq(Params) => query \in Seq(B \ out)
  <2>1. SUFFICES ASSUME query \in Seq(Params) PROVE query \in Seq(B \ out)
    OBVIOUS
  <2>2. \A i \in 1..Len(query) : query[i] \in Params
    BY <2>1, ElementOfSeq
  <2>3. \A i \in 1..Len(query) : query[i] \in B \ out
    BY <1>2, <2>2 DEF Params
  <2> HIDE DEF out
  <2>4. query \in [1..Len(query) -> B \ out]
    BY <1>1, <2>3
  <2> QED  BY <1>1, <2>4, FunctionIsSeq
<1> HIDE DEF out
<1>8. /\ Without(query, out) \in Seq(B \ out)
      /\ query \in Seq(B \ out) => Without(query, out) = query
  BY <1>5, WithoutIs
<1>9. Without(query, out) \in Seq(Params)
  BY <1>6, <1>8, SeqMonotonic
<1> QED  BY <1>4, <1>7, <1>8, <1>9

LEMMA NormalQueryIs ==
  ASSUME NEW query \in Seq(Pairs)
  PROVE  /\ NormalQuery(query) \in Rearranged(Kept(query)) /\ InOrder(NormalQuery(query))
         /\ NormalQuery(query) \in Seq(Params) /\ NormalQuery(query) \in Seq(Pairs)
<1>1. Kept(query) \in Seq(Params)
  BY KeptIs
<1>2. Kept(query) \in Seq(Pairs)
  BY <1>1, SeqMonotonic DEF Params
<1>3. \E q \in Rearranged(Kept(query)) : InOrder(q)
  BY <1>2, OrderExists
<1>4. NormalQuery(query) \in Rearranged(Kept(query)) /\ InOrder(NormalQuery(query))
  BY <1>3 DEF NormalQuery
<1>5. NormalQuery(query) \in Seq(Params)
  BY <1>1, <1>4, RearrangedIs
<1>6. NormalQuery(query) \in Seq(Pairs)
  BY <1>5, SeqMonotonic DEF Params
<1> QED  BY <1>4, <1>5, <1>6

\* The order of the parameters does not matter.
LEMMA SameQuery ==
  ASSUME NEW a \in Seq(Pairs), NEW b \in Seq(Pairs), Kept(a) \in Rearranged(Kept(b))
  PROVE  NormalQuery(a) = NormalQuery(b)
<1> DEFINE k == Kept(a)
           l == Kept(b)
           m == NormalQuery(a)
           n == NormalQuery(b)
<1>1. k \in Seq(Pairs) /\ l \in Seq(Pairs)
  <2>1. k \in Seq(Params) /\ l \in Seq(Params)
    BY KeptIs
  <2> HIDE DEF k, l
  <2> QED  BY <2>1, SeqMonotonic DEF Params
<1>2. m \in Rearranged(k) /\ InOrder(m) /\ n \in Rearranged(l) /\ InOrder(n)
  BY NormalQueryIs
<1>3. m \in Seq(Pairs) /\ n \in Seq(Pairs) /\ k \in Rearranged(l)
  BY NormalQueryIs
<1> HIDE DEF k, l, m, n
<1>4. m \in Rearranged(l)
  BY <1>1, <1>2, <1>3, RearrangedAgain
<1>5. l \in Rearranged(n)
  BY <1>1, <1>2, RearrangedBack
<1>6. m \in Rearranged(n)
  BY <1>3, <1>4, <1>5, RearrangedAgain
<1>7. m = n
  BY <1>2, <1>3, <1>6, OneOrder
<1> QED  BY <1>7 DEF m, n

\* Parameters in their normal form stay as they are.
LEMMA NormalQueryIsStable ==
  ASSUME NEW query \in Seq(Pairs)
  PROVE  NormalQuery(NormalQuery(query)) = NormalQuery(query)
<1> DEFINE n == NormalQuery(query)
           o == NormalQuery(n)
<1>1. n \in Seq(Params) /\ n \in Seq(Pairs) /\ InOrder(n)
  BY NormalQueryIs
<1> HIDE DEF n
<1>2. Kept(n) = n
  BY <1>1, KeptIs
<1>3. o \in Rearranged(n) /\ InOrder(o)
  BY <1>1, <1>2, NormalQueryIs
<1> HIDE DEF o
<1>4. o = n
  BY <1>1, <1>3, OneOrder
<1> QED  BY <1>4 DEF n, o

-----------------------------------------------------------------------------
(* URLs *)

Schemes == {"http", "https"}

\* What NormalizeURL makes of a URL whose scheme it takes.
Normal(u) ==
    [scheme |-> u.scheme, upper |-> FALSE, user |-> FALSE, name |-> u.name,
     port |-> IF DefaultPort(u) THEN Empty ELSE u.port, rooted |-> u.rooted,
     path |-> NormalPath(u.path), query |-> NormalQuery(u.query), lone |-> u.lone,
     frag |-> FALSE]

HasHost(u) == u.name # Empty \/ u.port # Empty
Normals == {Normal(u) : u \in {v \in URL : v.scheme \in Schemes /\ HasHost(v)}}

LEMMA FieldsOf ==
  ASSUME NEW u \in URL
  PROVE  /\ u = [scheme |-> u.scheme, upper |-> u.upper, user |-> u.user, name |-> u.name,
                 port |-> u.port, rooted |-> u.rooted, path |-> u.path, query |-> u.query,
                 lone |-> u.lone, frag |-> u.frag]
         /\ u.scheme \in STRING /\ u.upper \in BOOLEAN /\ u.user \in BOOLEAN
         /\ u.name \in STRING /\ u.port \in STRING /\ u.rooted \in BOOLEAN
         /\ u.path \in Seq(STRING) /\ u.query \in Seq(Pairs) /\ u.lone \in BOOLEAN
         /\ u.frag \in BOOLEAN
         /\ (u.name # Empty \/ u.port # Empty \/ u.user => u.rooted)
BY DEF URL, Pairs, HasAuthority

\* Records with the fields of a URL are the same when their fields are.
Fields == {"scheme", "upper", "user", "name", "port", "rooted", "path", "query", "lone",
           "frag"}
HasFields(r) == r = [x \in Fields |-> r[x]]

LEMMA SameFields ==
  ASSUME NEW r, NEW s, HasFields(r), HasFields(s),
         r.scheme = s.scheme, r.upper = s.upper, r.user = s.user, r.name = s.name,
         r.port = s.port, r.rooted = s.rooted, r.path = s.path, r.query = s.query,
         r.lone = s.lone, r.frag = s.frag
  PROVE  r = s
<1>1. \A x \in Fields : r[x] = s[x]
  BY DEF Fields
<1> HIDE DEF Fields
<1> QED  BY <1>1 DEF HasFields

LEMMA UrlHasFields ==
  ASSUME NEW u \in URL
  PROVE  HasFields(u)
BY DEF URL, Fields, HasFields

\* A record is a URL when its fields are those of one.
LEMMA FieldsMakeUrl ==
  ASSUME NEW r, HasFields(r),
         r.scheme \in STRING, r.upper \in BOOLEAN, r.user \in BOOLEAN, r.name \in STRING,
         r.port \in STRING, r.rooted \in BOOLEAN, r.path \in Seq(STRING),
         r.query \in Seq(Pairs), r.lone \in BOOLEAN, r.frag \in BOOLEAN,
         r.name # Empty \/ r.port # Empty \/ r.user => r.rooted
  PROVE  r \in URL
<1> DEFINE s == [scheme |-> r.scheme, upper |-> r.upper, user |-> r.user, name |-> r.name,
                 port |-> r.port, rooted |-> r.rooted, path |-> r.path,
                 query |-> r.query, lone |-> r.lone, frag |-> r.frag]
<1>1. s \in URL
  BY DEF URL, Pairs, HasAuthority
<1>2. /\ s.scheme = r.scheme /\ s.upper = r.upper /\ s.user = r.user /\ s.name = r.name
      /\ s.port = r.port /\ s.rooted = r.rooted /\ s.path = r.path /\ s.query = r.query
      /\ s.lone = r.lone /\ s.frag = r.frag
  OBVIOUS
<1> HIDE DEF s
<1>3. HasFields(s)
  BY <1>1, UrlHasFields
<1>4. s = r
  BY <1>2, <1>3, SameFields
<1> QED  BY <1>1, <1>4

LEMMA NormalForm ==
  ASSUME NEW u \in URL, u.scheme \in Schemes
  PROVE  NormalizeURL(u) = IF HasHost(u) THEN Normal(u) ELSE Rejected
<1>1. u.scheme # Empty
  BY UrlAssumption DEF UrlAssumption, Schemes
<1>2. WithScheme(u) = u
  BY <1>1 DEF WithScheme
<1>3. NormalizeURL(u) =
        IF HasHost(u)
        THEN [WithoutDefaultPort(u) EXCEPT
                !.upper = FALSE, !.user = FALSE, !.frag = FALSE,
                !.path = NormalPath(@), !.query = NormalQuery(@)]
        ELSE Rejected
  BY <1>2, Zenon DEF NormalizeURL, HasHost, Schemes
<1> DEFINE w == WithoutDefaultPort(u)
           p == NormalPath(w.path)
           q == NormalQuery(w.query)
           r == [w EXCEPT !.upper = FALSE, !.user = FALSE, !.frag = FALSE,
                          !.path = NormalPath(@), !.query = NormalQuery(@)]
           n == Normal(u)
<1>4. HasFields(u)
  BY UrlHasFields
<1>5. /\ w.scheme = u.scheme /\ w.name = u.name /\ w.path = u.path /\ w.query = u.query
      /\ w.port = IF DefaultPort(u) THEN Empty ELSE u.port
  BY <1>4 DEF WithoutDefaultPort, HasFields, Fields
<1>6. w.rooted = u.rooted /\ w.lone = u.lone
  BY <1>4 DEF WithoutDefaultPort, HasFields, Fields
<1>7. HasFields(w)
  <2>1. w = u \/ w = [u EXCEPT !.port = Empty]
    BY DEF WithoutDefaultPort
  <2> HIDE DEF Fields, w
  <2> QED  BY <1>4, <2>1 DEF HasFields
<1>8. r = [w EXCEPT !.upper = FALSE, !.user = FALSE, !.frag = FALSE, !.path = p, !.query = q]
  OBVIOUS
<1> HIDE DEF w, p, q, r
<1>9. HasFields(r)
  <2> HIDE DEF Fields
  <2> QED  BY <1>7, <1>8 DEF HasFields
<1>10. /\ r.scheme = w.scheme /\ r.name = w.name /\ r.port = w.port
       /\ r.path = p /\ r.query = q
  BY <1>7, <1>8 DEF HasFields, Fields
<1>11. /\ r.upper = FALSE /\ r.user = FALSE /\ r.rooted = w.rooted /\ r.lone = w.lone
       /\ r.frag = FALSE
  BY <1>7, <1>8 DEF HasFields, Fields
<1>12. /\ n.scheme = u.scheme /\ n.name = u.name
       /\ n.port = IF DefaultPort(u) THEN Empty ELSE u.port
       /\ n.path = NormalPath(u.path) /\ n.query = NormalQuery(u.query)
  BY DEF Normal
<1>13. n.upper = FALSE /\ n.user = FALSE /\ n.frag = FALSE
  BY DEF Normal
<1>14. n.rooted = u.rooted /\ n.lone = u.lone
  BY DEF Normal
<1>15. HasFields(n)
  BY DEF Normal, HasFields, Fields
<1> HIDE DEF n
<1>16. r = n
  <2>1. n.path = p /\ n.query = q
    BY <1>5, <1>12 DEF p, q
  <2>2. /\ r.scheme = n.scheme /\ r.name = n.name /\ r.port = n.port
        /\ r.path = n.path /\ r.query = n.query
    BY <1>5, <1>10, <1>12, <2>1
  <2>3. /\ r.upper = n.upper /\ r.user = n.user /\ r.frag = n.frag
        /\ r.rooted = n.rooted /\ r.lone = n.lone
    BY <1>6, <1>11, <1>13, <1>14, Zenon
  <2> QED  BY <1>9, <1>15, <2>2, <2>3, SameFields, Zenon
<1> QED  BY <1>3, <1>16 DEF w, r, n

LEMMA NormalType ==
  ASSUME NEW u \in URL, u.scheme \in Schemes
  PROVE  Normal(u) \in URL /\ Normal(u).scheme \in Schemes
<1>1. NormalPath(u.path) \in Seq(STRING) /\ NormalQuery(u.query) \in Seq(Pairs)
  BY FieldsOf, NormalPathIsStable, NormalQueryIs
<1>2. Empty \in STRING
  BY UrlAssumption DEF UrlAssumption
<1> QED  BY <1>1, <1>2, FieldsOf DEF Normal, URL, Pairs, Schemes, HasAuthority

LEMMA NormalOfNormal ==
  ASSUME NEW u \in URL, u.scheme \in Schemes
  PROVE  Normal(Normal(u)) = Normal(u)
<1> DEFINE v == Normal(u)
<1>1. /\ v.scheme = u.scheme /\ v.name = u.name /\ v.rooted = u.rooted /\ v.lone = u.lone
      /\ v.path = NormalPath(u.path) /\ v.query = NormalQuery(u.query)
      /\ v.port = IF DefaultPort(u) THEN Empty ELSE u.port
  BY DEF Normal
<1>2. NormalPath(v.path) = v.path /\ NormalQuery(v.query) = v.query
  BY <1>1, FieldsOf, NormalPathIsStable, NormalQueryIsStable
<1> HIDE DEF v
<1>3. ~DefaultPort(v)
  <2>1. CASE DefaultPort(u)
    BY <1>1, <2>1, UrlAssumption DEF DefaultPort, UrlAssumption
  <2>2. CASE ~DefaultPort(u)
    BY <1>1, <2>2 DEF DefaultPort
  <2> QED  BY <2>1, <2>2
<1>4. Normal(v) = [scheme |-> u.scheme, upper |-> FALSE, user |-> FALSE, name |-> u.name,
                   port |-> v.port, rooted |-> u.rooted, path |-> v.path,
                   query |-> v.query, lone |-> u.lone, frag |-> FALSE]
  BY <1>1, <1>2, <1>3 DEF Normal
<1>5. Normal(u) = [scheme |-> u.scheme, upper |-> FALSE, user |-> FALSE, name |-> u.name,
                   port |-> v.port, rooted |-> u.rooted, path |-> v.path,
                   query |-> v.query, lone |-> u.lone, frag |-> FALSE]
  BY <1>1 DEF Normal
<1> QED  BY <1>4, <1>5 DEF v

\* What NormalizeURL returns.
LEMMA NormalizeType ==
  ASSUME NEW u \in URL
  PROVE  NormalizeURL(u) \in Normals \cup {Rejected}
<1> DEFINE v == WithScheme(u)
<1>1. v \in URL
  <2>1. CASE v = u
    BY <2>1
  <2>2. CASE v = [u EXCEPT !.scheme = "https"]
    <3>1. HasFields(u)
      BY UrlHasFields
    <3>2. HasFields(v)
      <4> HIDE DEF v, Fields
      <4> QED  BY <2>2, <3>1 DEF HasFields
    <3>3. /\ v.scheme = "https" /\ v.name = u.name /\ v.port = u.port /\ v.path = u.path
          /\ v.query = u.query
      <4> HIDE DEF v
      <4> QED  BY <2>2, <3>1 DEF HasFields, Fields
    <3>4. /\ v.upper = u.upper /\ v.user = u.user /\ v.rooted = u.rooted
          /\ v.lone = u.lone /\ v.frag = u.frag
      <4> HIDE DEF v
      <4> QED  BY <2>2, <3>1 DEF HasFields, Fields
    <3> HIDE DEF v
    <3>5. /\ v.scheme \in STRING /\ v.name \in STRING /\ v.port \in STRING
          /\ v.path \in Seq(STRING) /\ v.query \in Seq(Pairs)
      <4>1. "https" \in STRING
        BY UrlAssumption DEF UrlAssumption
      <4> QED  BY <3>3, <4>1, FieldsOf, Zenon
    <3>6. /\ v.upper \in BOOLEAN /\ v.user \in BOOLEAN /\ v.rooted \in BOOLEAN
          /\ v.lone \in BOOLEAN /\ v.frag \in BOOLEAN
          /\ (v.name # Empty \/ v.port # Empty \/ v.user => v.rooted)
      BY <3>3, <3>4, FieldsOf, Zenon
    <3> QED  BY <3>2, <3>5, <3>6, FieldsMakeUrl, Zenon
  <2> QED  BY <2>1, <2>2 DEF WithScheme
<1>2. NormalizeURL(u) = Rejected \/ v.scheme \in Schemes
  BY DEF NormalizeURL, Schemes
<1>3. ASSUME v.scheme \in Schemes PROVE NormalizeURL(u) \in Normals \cup {Rejected}
  <2>1. v.scheme # Empty
    BY <1>3, UrlAssumption DEF UrlAssumption, Schemes
  <2>2. WithScheme(v) = v
    <3> HIDE DEF v
    <3> QED  BY <2>1 DEF WithScheme
  <2>3. NormalizeURL(u) = NormalizeURL(v)
    <3>1. v = WithScheme(u)
      OBVIOUS
    <3> HIDE DEF v
    <3> QED  BY <2>2, <3>1, Zenon DEF NormalizeURL
  <2> HIDE DEF v
  <2>4. NormalizeURL(v) = IF HasHost(v) THEN Normal(v) ELSE Rejected
    BY <1>1, <1>3, NormalForm
  <2> QED  BY <1>1, <1>3, <2>3, <2>4 DEF Normals
<1> QED  BY <1>2, <1>3

\* A normal form is normalised to itself, unless it has lost its host.
LEMMA NormalsAreStable ==
  ASSUME NEW u \in Normals
  PROVE  /\ u \in URL /\ u # Rejected
         /\ NormalizeURL(u) = IF HasHost(u) THEN u ELSE Rejected
<1>1. PICK v \in URL : v.scheme \in Schemes /\ u = Normal(v)
  BY DEF Normals
<1>2. u \in URL /\ u.scheme \in Schemes
  BY <1>1, NormalType
<1>3. Normal(u) = u
  BY <1>1, NormalOfNormal
<1>4. u # Rejected
  BY <1>2 DEF Rejected, Schemes
<1> QED  BY <1>2, <1>3, <1>4, NormalForm

\* What ResolveReference and normalizeLink make of a URL that is absolute: but for its
\* path, what NormalizeURL does anyway.
LEMMA ResolveAbsolute ==
  ASSUME NEW b \in URL, NEW h \in URL, h.scheme \in Schemes, h.name # Empty, NEW r,
         r = Resolve(b, h)
  PROVE  /\ HasFields(r) /\ r.scheme = h.scheme /\ r.name = h.name /\ r.port = h.port
         /\ r.path = RfcPath(h.path) /\ r.query = h.query
         /\ r.rooted = h.rooted /\ r.lone = h.lone
<1> DEFINE u == [h EXCEPT !.scheme = IF @ = Empty THEN b.scheme ELSE @, !.rooted = TRUE]
<1>1. HasFields(h)
  BY UrlHasFields
<1>2. h.scheme # Empty
  BY UrlAssumption DEF UrlAssumption, Schemes
<1>3. r = [u EXCEPT !.path = RfcPath(@)]
  BY <1>2 DEF Resolve, Relative
<1>4. HasFields(u)
  <2> HIDE DEF Fields
  <2> QED  BY <1>1 DEF HasFields
<1>5. /\ u.scheme = h.scheme /\ u.name = h.name /\ u.port = h.port /\ u.path = h.path
      /\ u.query = h.query
  BY <1>1, <1>2 DEF HasFields, Fields
<1>6. u.rooted = TRUE /\ u.lone = h.lone
  BY <1>1 DEF HasFields, Fields
<1> HIDE DEF u
<1>7. HasFields(r)
  <2> HIDE DEF Fields
  <2> QED  BY <1>3, <1>4 DEF HasFields
<1>8. /\ r.scheme = u.scheme /\ r.name = u.name /\ r.port = u.port /\ r.query = u.query
      /\ r.path = RfcPath(u.path)
  BY <1>3, <1>4 DEF HasFields, Fields
<1>9. r.rooted = u.rooted /\ r.lone = u.lone
  BY <1>3, <1>4 DEF HasFields, Fields
<1>10. h.rooted = TRUE
  BY FieldsOf, Zenon
<1>11. r.path = RfcPath(h.path)
  BY <1>5, <1>8
<1>12. /\ r.scheme = h.scheme /\ r.name = h.name /\ r.port = h.port /\ r.query = h.query
  BY <1>5, <1>8
<1>13. r.rooted = h.rooted /\ r.lone = h.lone
  BY <1>6, <1>9, <1>10, Zenon
<1> QED  BY <1>7, <1>11, <1>12, <1>13

LEMMA NormalizeLinkIs ==
  ASSUME NEW r, HasFields(r), NEW l, l = NormalizeLink(r)
  PROVE  /\ HasFields(l) /\ l.scheme = r.scheme /\ l.name = r.name
         /\ l.port = IF DefaultPort(r) THEN Empty ELSE r.port
         /\ l.path = Root(r.path) /\ l.query = r.query
         /\ l.upper = FALSE /\ l.user = r.user /\ l.rooted = r.rooted /\ l.lone = r.lone
         /\ l.frag = FALSE
<1> DEFINE w == WithoutDefaultPort(r)
<1>1. w = r \/ w = [r EXCEPT !.port = Empty]
  BY DEF WithoutDefaultPort
<1>2. /\ w.scheme = r.scheme /\ w.name = r.name /\ w.path = r.path /\ w.query = r.query
      /\ w.port = IF DefaultPort(r) THEN Empty ELSE r.port
  BY DEF WithoutDefaultPort, HasFields, Fields
<1>3. w.rooted = r.rooted /\ w.lone = r.lone /\ w.user = r.user
  BY DEF WithoutDefaultPort, HasFields, Fields
<1>4. l = [w EXCEPT !.upper = FALSE, !.frag = FALSE, !.path = Root(@)]
  BY DEF NormalizeLink, Root
<1> HIDE DEF w
<1>5. HasFields(w)
  <2> HIDE DEF Fields
  <2> QED  BY <1>1 DEF HasFields
<1>6. HasFields(l)
  <2> HIDE DEF Fields
  <2> QED  BY <1>4, <1>5 DEF HasFields
<1>7. /\ l.scheme = w.scheme /\ l.name = w.name /\ l.port = w.port /\ l.query = w.query
      /\ l.path = Root(w.path)
  BY <1>4, <1>5 DEF HasFields, Fields
<1>8. l.rooted = w.rooted /\ l.lone = w.lone /\ l.user = w.user
  BY <1>4, <1>5 DEF HasFields, Fields
<1>9. l.upper = FALSE /\ l.frag = FALSE
  BY <1>4, <1>5 DEF HasFields, Fields
<1>10. l.path = Root(r.path)
  BY <1>2, <1>7
<1>11. /\ l.scheme = r.scheme /\ l.name = r.name /\ l.query = r.query
       /\ l.port = IF DefaultPort(r) THEN Empty ELSE r.port
  BY <1>2, <1>7
<1>12. l.rooted = r.rooted /\ l.lone = r.lone /\ l.user = r.user
  BY <1>3, <1>8, Zenon
<1> QED  BY <1>6, <1>9, <1>10, <1>11, <1>12, Zenon

\* What NormalizeURL tells apart.
LEMMA SameNormal ==
  ASSUME NEW u, NEW v, u.scheme = v.scheme, u.name = v.name,
         (IF DefaultPort(u) THEN Empty ELSE u.port) =
            (IF DefaultPort(v) THEN Empty ELSE v.port),
         NormalPath(u.path) = NormalPath(v.path), NormalQuery(u.query) = NormalQuery(v.query),
         u.rooted = v.rooted, u.lone = v.lone
  PROVE  Normal(u) = Normal(v)
BY Zenon DEF Normal

\* A link gets the key of the seed with the same URL.
LEMMA LinkIsLikeSeed ==
  ASSUME NEW b \in URL, NEW h \in URL, IsPlain(h), NEW l \in URL,
         l = NormalizeLink(Resolve(b, h))
  PROVE  l.scheme \in Schemes /\ NormalizeURL(l) = NormalizeURL(h)
<1> DEFINE r == Resolve(b, h)
<1>1. h.scheme \in Schemes /\ h.name # Empty /\ NoDotsAfterEmpty(h.path)
  BY DEF IsPlain, Schemes
<1>2. /\ HasFields(r) /\ r.scheme = h.scheme /\ r.name = h.name /\ r.port = h.port
      /\ r.path = RfcPath(h.path) /\ r.query = h.query
      /\ r.rooted = h.rooted /\ r.lone = h.lone
  BY <1>1, ResolveAbsolute
<1>3. l = NormalizeLink(r)
  OBVIOUS
<1> HIDE DEF r
<1>4. /\ l.scheme = r.scheme /\ l.name = r.name /\ l.path = Root(r.path)
      /\ l.port = (IF DefaultPort(r) THEN Empty ELSE r.port) /\ l.query = r.query
      /\ l.rooted = r.rooted /\ l.lone = r.lone
  BY <1>2, <1>3, NormalizeLinkIs
<1>5. l.scheme = h.scheme /\ l.name = h.name /\ l.query = h.query
  BY <1>2, <1>4
<1>6. l.port = IF DefaultPort(h) THEN Empty ELSE h.port
  BY <1>2, <1>4 DEF DefaultPort
<1>7. (IF DefaultPort(l) THEN Empty ELSE l.port) = IF DefaultPort(h) THEN Empty ELSE h.port
  <2>1. CASE DefaultPort(h)
    BY <1>5, <1>6, <2>1
  <2>2. CASE ~DefaultPort(h)
    BY <1>5, <1>6, <2>2 DEF DefaultPort
  <2> QED  BY <2>1, <2>2
<1>8. NormalPath(l.path) = NormalPath(h.path)
  <2>1. l.path = Root(RfcPath(h.path))
    BY <1>2, <1>4
  <2>2. h.path \in Seq(STRING)
    BY FieldsOf
  <2> QED  BY <1>1, <2>1, <2>2, LinkPath
<1>9. l.rooted = h.rooted /\ l.lone = h.lone
  BY <1>2, <1>4, Zenon
<1>10. NormalQuery(l.query) = NormalQuery(h.query)
  BY <1>5
<1>11. Normal(l) = Normal(h)
  BY <1>5, <1>7, <1>8, <1>9, <1>10, SameNormal
<1>12. HasHost(l) /\ HasHost(h)
  BY <1>1, <1>5 DEF HasHost
<1> QED  BY <1>1, <1>5, <1>11, <1>12, NormalForm

\* Two spellings of one page have one normal form.
LEMMA SpellingsAreNormalised ==
  ASSUME NEW u \in URL, NEW v \in URL, SamePage(u, v)
  PROVE  NormalizeURL(u) = NormalizeURL(v)
<1>1. /\ u.scheme \in Schemes /\ u.name # Empty /\ NoDotsAfterEmpty(u.path)
      /\ v.scheme \in Schemes /\ v.name # Empty /\ NoDotsAfterEmpty(v.path)
  BY DEF SamePage, IsPlain, Schemes
<1>2. u.scheme = v.scheme /\ u.name = v.name /\ PortOf(u) = PortOf(v)
  BY DEF SamePage
<1>3. Without(RfcPath(u.path), {Empty}) = Without(RfcPath(v.path), {Empty})
  BY DEF SamePage
<1>4. Kept(u.query) \in Rearranged(Kept(v.query))
  BY DEF SamePage
<1>5. u.lone = v.lone
  BY Zenon DEF SamePage
<1>6. u.rooted = v.rooted
  <2>1. u.rooted /\ u.rooted \in BOOLEAN
    BY <1>1, FieldsOf, Zenon
  <2>2. v.rooted /\ v.rooted \in BOOLEAN
    BY <1>1, FieldsOf, Zenon
  <2> QED  BY <2>1, <2>2
<1>7. (IF DefaultPort(u) THEN Empty ELSE u.port) = IF DefaultPort(v) THEN Empty ELSE v.port
  BY <1>1, <1>2, UrlAssumption DEF DefaultPort, PortOf, Schemes, UrlAssumption
<1>8. NormalPath(u.path) = NormalPath(v.path)
  <2>1. u.path \in Seq(STRING) /\ v.path \in Seq(STRING)
    BY FieldsOf
  <2> QED  BY <1>1, <1>3, <2>1, PlainPath
<1>9. NormalQuery(u.query) = NormalQuery(v.query)
  <2>1. u.query \in Seq(Pairs) /\ v.query \in Seq(Pairs)
    BY FieldsOf
  <2> QED  BY <1>4, <2>1, SameQuery
<1>10. Normal(u) = Normal(v)
  BY <1>2, <1>5, <1>6, <1>7, <1>8, <1>9, SameNormal
<1> QED  BY <1>1, <1>10, NormalForm DEF HasHost

\* A link is a URL, whatever was resolved.
LEMMA PathUpdate ==
  ASSUME NEW w \in URL, NEW p \in Seq(STRING), NEW q \in Seq(Pairs)
  PROVE  [w EXCEPT !.path = p] \in URL /\ [w EXCEPT !.path = p, !.query = q] \in URL
<1> DEFINE r == [w EXCEPT !.path = p]
           s == [w EXCEPT !.path = p, !.query = q]
<1>1. HasFields(w)
  BY UrlHasFields
<1>2. HasFields(r) /\ HasFields(s)
  <2> HIDE DEF Fields
  <2> QED  BY <1>1 DEF HasFields
<1>3. /\ r.scheme = w.scheme /\ r.name = w.name /\ r.port = w.port /\ r.path = p
      /\ r.query = w.query
  BY <1>1 DEF HasFields, Fields
<1>4. /\ r.upper = w.upper /\ r.user = w.user /\ r.rooted = w.rooted /\ r.lone = w.lone
      /\ r.frag = w.frag
  BY <1>1 DEF HasFields, Fields
<1>5. /\ s.scheme = w.scheme /\ s.name = w.name /\ s.port = w.port /\ s.path = p
      /\ s.query = q
  BY <1>1 DEF HasFields, Fields
<1>6. /\ s.upper = w.upper /\ s.user = w.user /\ s.rooted = w.rooted /\ s.lone = w.lone
      /\ s.frag = w.frag
  BY <1>1 DEF HasFields, Fields
<1> HIDE DEF r, s
<1>7. r \in URL
  BY <1>2, <1>3, <1>4, FieldsOf, FieldsMakeUrl, Zenon
<1>8. s \in URL
  BY <1>2, <1>5, <1>6, FieldsOf, FieldsMakeUrl, Zenon
<1> QED  BY <1>7, <1>8 DEF r, s

LEMMA ResolveIsUrl ==
  ASSUME NEW b \in URL, NEW h \in URL
  PROVE  Resolve(b, h) \in URL
<1> DEFINE u == [h EXCEPT !.scheme = IF @ = Empty THEN b.scheme ELSE @, !.rooted = TRUE]
           here == [u EXCEPT !.name = b.name, !.port = b.port, !.user = b.user]
<1>1. HasFields(h)
  BY UrlHasFields
<1>2. HasFields(u)
  <2> HIDE DEF Fields
  <2> QED  BY <1>1 DEF HasFields
<1>3. /\ u.scheme = (IF h.scheme = Empty THEN b.scheme ELSE h.scheme) /\ u.name = h.name
      /\ u.port = h.port /\ u.path = h.path /\ u.query = h.query
  BY <1>1 DEF HasFields, Fields
<1>4. u.upper = h.upper /\ u.user = h.user /\ u.lone = h.lone /\ u.frag = h.frag
  BY <1>1 DEF HasFields, Fields
<1>5. u.rooted = TRUE
  BY <1>1 DEF HasFields, Fields
<1> HIDE DEF u
<1>6. u.scheme \in STRING
  <2>1. h.scheme \in STRING /\ b.scheme \in STRING
    BY FieldsOf
  <2> QED  BY <1>3, <2>1
<1>7. u \in URL
  BY <1>2, <1>3, <1>4, <1>5, <1>6, FieldsOf, FieldsMakeUrl, Zenon
<1>8. HasFields(here)
  <2> HIDE DEF Fields
  <2> QED  BY <1>2 DEF HasFields
<1>9. /\ here.scheme = u.scheme /\ here.name = b.name /\ here.port = b.port
      /\ here.path = u.path /\ here.query = u.query
  BY <1>2 DEF HasFields, Fields
<1>10. here.upper = u.upper /\ here.user = b.user /\ here.lone = u.lone /\ here.frag = u.frag
  BY <1>2 DEF HasFields, Fields
<1>11. here.rooted = u.rooted
  BY <1>2 DEF HasFields, Fields
<1> HIDE DEF here
<1>12. here \in URL
  BY <1>5, <1>6, <1>7, <1>8, <1>9, <1>10, <1>11, FieldsOf, FieldsMakeUrl, Zenon
<1>13. \A p \in Seq(STRING) : RfcPath(p) \in Seq(STRING)
  <2>1. ASSUME NEW p \in Seq(STRING) PROVE RfcPath(p) \in Seq(STRING)
    <3>1. RfcPath(p) \in Seq(Segments)
      BY RfcPathIs
    <3> QED  BY <3>1, SeqMonotonic DEF Segments
  <2> QED  BY <2>1
<1>14. b.path \in Seq(STRING) /\ h.path \in Seq(STRING)
  BY FieldsOf
<1>15. b.query \in Seq(Pairs) /\ h.query \in Seq(Pairs)
  BY FieldsOf
<1>16. CASE ~Relative(h)
  <2>1. Resolve(b, h) = [u EXCEPT !.path = RfcPath(u.path)]
    BY <1>16 DEF Resolve, u
  <2>2. RfcPath(u.path) \in Seq(STRING)
    BY <1>3, <1>13, <1>14
  <2> QED  BY <1>7, <1>15, <2>1, <2>2, PathUpdate
<1>17. CASE Relative(h) /\ h.path = <<>>
  <2> DEFINE q == IF Bare(h) THEN b.query ELSE here.query
  <2>1. Resolve(b, h) = [here EXCEPT !.path = RfcPath(b.path), !.query = q]
    BY <1>17 DEF Resolve, u, here
  <2>2. q \in Seq(Pairs) /\ RfcPath(b.path) \in Seq(STRING)
    BY <1>3, <1>9, <1>13, <1>14, <1>15
  <2> HIDE DEF q
  <2> QED  BY <1>12, <2>1, <2>2, PathUpdate
<1>18. CASE Relative(h) /\ h.path # <<>>
  <2> DEFINE dir == IF b.path = <<>> THEN <<>> ELSE Front(b.path)
             p == IF h.rooted THEN here.path ELSE dir \o here.path
  <2>1. Resolve(b, h) = [here EXCEPT !.path = RfcPath(p)]
    BY <1>18 DEF Resolve, u, here
  <2>2. dir \in Seq(STRING)
    BY <1>14, EmptySeq, FrontIs
  <2>3. here.path \in Seq(STRING)
    BY <1>3, <1>9, <1>14
  <2> HIDE DEF dir
  <2>4. dir \o here.path \in Seq(STRING)
    BY <2>2, <2>3, ConcatProperties
  <2>5. RfcPath(p) \in Seq(STRING)
    BY <1>13, <2>3, <2>4
  <2> HIDE DEF p
  <2> QED  BY <1>12, <1>15, <2>1, <2>5, PathUpdate
<1> QED  BY <1>16, <1>17, <1>18

LEMMA LinkIsUrl ==
  ASSUME NEW b \in URL, NEW h \in URL
  PROVE  NormalizeLink(Resolve(b, h)) \in URL
<1> DEFINE r == Resolve(b, h)
           l == NormalizeLink(r)
<1>1. r \in URL
  BY ResolveIsUrl
<1> HIDE DEF r
<1>2. HasFields(r)
  BY <1>1, UrlHasFields
<1>3. /\ HasFields(l) /\ l.scheme = r.scheme /\ l.name = r.name
      /\ l.port = (IF DefaultPort(r) THEN Empty ELSE r.port)
      /\ l.path = Root(r.path) /\ l.query = r.query
      /\ l.upper = FALSE /\ l.user = r.user /\ l.rooted = r.rooted /\ l.lone = r.lone
      /\ l.frag = FALSE
  <2> HIDE DEF l
  <2>1. l = NormalizeLink(r)
    BY DEF l
  <2> QED  BY <1>2, <2>1, NormalizeLinkIs
<1> HIDE DEF l
<1>4. Empty \in STRING
  BY UrlAssumption DEF UrlAssumption
<1>5. l.port \in STRING
  <2>1. r.port \in STRING
    BY <1>1, FieldsOf
  <2> QED  BY <1>3, <1>4, <2>1
<1>6. l.path \in Seq(STRING)
  <2>1. r.path \in Seq(STRING)
    BY <1>1, FieldsOf
  <2>2. <<Empty>> \in Seq(STRING)
    <3>1. <<Empty>> \in Seq(Segments)
      BY EmptyIs
    <3> QED  BY <3>1, SeqMonotonic DEF Segments
  <2>3. Root(r.path) \in Seq(STRING)
    BY <2>1, <2>2 DEF Root
  <2> QED  BY <1>3, <2>3
<1>7. l \in URL
  BY <1>1, <1>3, <1>5, <1>6, FieldsOf, FieldsMakeUrl, Zenon
<1> QED  BY <1>7 DEF l, r

-----------------------------------------------------------------------------
(* The way of a list of URLs *)

\* What is in hand are URLs; NewURL has kept normal forms, and IsSeen is asked for
\* what was kept.
StageInv ==
    /\ given \in Seq(URL) /\ base \in URL
    /\ stage \in {"parse", "new", "seen", "done"}
    /\ rest \in Seq(URL) /\ found \in Seq(URL)
    /\ stage # "parse" => found \in Seq(Normals)
    /\ stage = "parse" => ToSet(rest) \subseteq ToSet(given)
    /\ stage \in {"seen", "done"} => ToSet(rest) \subseteq ToSet(found)

\* Where a plain URL of the list is: it is still to do, or what was made of it is, or
\* its key was asked for, or IsSeen has refused the batch.
OnItsWay(url) ==
    LET key == NormalizeURL(url)
        InHand(urls) == \E u \in ToSet(urls) : NormalizeURL(u) = key
    IN  /\ stage = "parse" => url \in ToSet(rest) \/ InHand(found)
        /\ stage = "new" => InHand(rest) \/ key \in ToSet(found)
        /\ stage = "seen" => \/ key \in ToSet(rest) \/ key \in keys
                             \/ \E u \in ToSet(found) : NormalizeURL(u) = Rejected
        /\ stage = "done" => \/ key \in keys
                             \/ \E u \in ToSet(found) : NormalizeURL(u) = Rejected
WayInv == \A url \in ToSet(given) : IsPlain(url) => OnItsWay(url)

\* When all URLs of the list are plain, whatever is in hand was made of one of them.
MadeOf(u) == \E url \in ToSet(given) : NormalizeURL(u) = NormalizeURL(url)
OriginInv ==
    (\A url \in ToSet(given) : IsPlain(url)) =>
        /\ \A u \in ToSet(rest) \cup ToSet(found) : MadeOf(u)
        /\ \A key \in keys : \E url \in ToSet(given) : key = NormalizeURL(url)
UrlInv == StageInv /\ WayInv /\ OriginInv

LEMMA ToSetParts ==
  ASSUME NEW S, NEW s \in Seq(S), s # <<>>
  PROVE  /\ Head(s) \in S /\ Tail(s) \in Seq(S) /\ Head(s) \in ToSet(s)
         /\ ToSet(Tail(s)) \subseteq ToSet(s)
         /\ ToSet(s) \subseteq ToSet(Tail(s)) \cup {Head(s)}
<1> DEFINE t == Tail(s)
<1>1. Len(s) \in Nat \ {0} /\ DOMAIN s = 1..Len(s)
  BY EmptySeq, LenProperties
<1>2. t \in Seq(S) /\ Len(t) = Len(s) - 1 /\ \A i \in 1..Len(t) : t[i] = s[i + 1]
  BY HeadTailProperties
<1>3. Head(s) \in S /\ Head(s) = s[1]
  BY HeadTailProperties
<1> HIDE DEF t
<1>4. DOMAIN t = 1..Len(t)
  BY <1>2, LenProperties
<1>5. ASSUME NEW x \in ToSet(t) PROVE x \in ToSet(s)
  <2>1. PICK i \in 1..Len(t) : x = t[i]
    BY <1>4 DEF ToSet
  <2>2. i + 1 \in DOMAIN s /\ x = s[i + 1]
    BY <1>1, <1>2, <2>1
  <2> QED  BY <2>2 DEF ToSet
<1>6. ASSUME NEW x \in ToSet(s) PROVE x \in ToSet(t) \cup {s[1]}
  <2>1. PICK i \in 1..Len(s) : x = s[i]
    BY <1>1 DEF ToSet
  <2>2. CASE i = 1
    BY <2>1, <2>2
  <2>3. CASE i # 1
    <3>1. i - 1 \in DOMAIN t /\ x = t[i - 1]
      BY <1>1, <1>2, <1>4, <2>1, <2>3
    <3> QED  BY <3>1 DEF ToSet
  <2> QED  BY <2>2, <2>3
<1>7. s[1] \in ToSet(s)
  BY <1>1 DEF ToSet
<1> QED  BY <1>2, <1>3, <1>5, <1>6, <1>7 DEF t

LEMMA ToSetAppend ==
  ASSUME NEW S, NEW s \in Seq(S), NEW e \in S
  PROVE  Append(s, e) \in Seq(S) /\ ToSet(Append(s, e)) = ToSet(s) \cup {e}
<1> DEFINE t == Append(s, e)
<1>1. Len(s) \in Nat /\ DOMAIN s = 1..Len(s)
  BY LenProperties
<1>2. /\ t \in Seq(S) /\ Len(t) = Len(s) + 1 /\ t[Len(s) + 1] = e
      /\ \A i \in 1..Len(s) : t[i] = s[i]
  BY AppendProperties
<1> HIDE DEF t
<1>3. DOMAIN t = 1..Len(t)
  BY <1>2, LenProperties
<1>4. ASSUME NEW x \in ToSet(t) PROVE x \in ToSet(s) \cup {e}
  <2>1. PICK i \in 1..Len(t) : x = t[i]
    BY <1>3 DEF ToSet
  <2>2. CASE i = Len(s) + 1
    BY <1>2, <2>1, <2>2
  <2>3. CASE i \in 1..Len(s)
    BY <1>1, <1>2, <2>1, <2>3 DEF ToSet
  <2> QED  BY <1>1, <1>2, <2>1, <2>2, <2>3
<1>5. ASSUME NEW x \in ToSet(s) PROVE x \in ToSet(t)
  <2>1. PICK i \in 1..Len(s) : x = s[i]
    BY <1>1 DEF ToSet
  <2>2. i \in 1..Len(t) /\ x = t[i]
    BY <1>1, <1>2, <2>1
  <2> QED  BY <1>3, <2>2 DEF ToSet
<1>6. e \in ToSet(t)
  <2>1. Len(s) + 1 \in 1..Len(t) /\ e = t[Len(s) + 1]
    BY <1>1, <1>2
  <2> QED  BY <1>3, <2>1 DEF ToSet
<1> QED  BY <1>2, <1>4, <1>5, <1>6 DEF t

LEMMA ToSetIs ==
  ASSUME NEW S, NEW s \in Seq(S)
  PROVE  ToSet(s) \subseteq S /\ ToSet(<<>>) = {}
<1>1. DOMAIN s = 1..Len(s) /\ \A i \in 1..Len(s) : s[i] \in S
  BY LenProperties, ElementOfSeq
<1>2. ToSet(<<>>) = {}
  <2>1. DOMAIN <<>> = {}
    OBVIOUS
  <2> QED  BY <2>1 DEF ToSet
<1> QED  BY <1>1, <1>2 DEF ToSet

\* The key of a plain URL is its own key.
LEMMA PlainKey ==
  ASSUME NEW url \in URL, IsPlain(url)
  PROVE  /\ NormalizeURL(url) \in Normals /\ NormalizeURL(url) # Rejected
         /\ NormalizeURL(NormalizeURL(url)) = NormalizeURL(url)
<1>1. url.scheme \in Schemes /\ url.name # Empty
  BY DEF IsPlain, Schemes
<1>2. HasHost(url)
  BY <1>1 DEF HasHost
<1>3. NormalizeURL(url) = Normal(url)
  BY <1>1, <1>2, NormalForm
<1>4. Normal(url) \in Normals
  BY <1>1, <1>2 DEF Normals
<1>5. HasHost(Normal(url))
  BY <1>1 DEF HasHost, Normal
<1> QED  BY <1>3, <1>4, <1>5, NormalsAreStable

LEMMA NormalsAreUrls == Normals \subseteq URL
BY NormalsAreStable

LEMMA UrlInvInit == UrlInit => UrlInv
<1> SUFFICES ASSUME UrlInit PROVE UrlInv
  OBVIOUS
<1>1. /\ base \in URL /\ given \in Seq(URL) /\ rest = given /\ found = <<>> /\ keys = {}
      /\ stage \in {"parse", "new"}
  BY UrlAssumption DEF UrlInit, UrlAssumption
<1>2. ToSet(given) \subseteq URL /\ ToSet(found) = {}
  BY <1>1, ToSetIs
<1>3. found \in Seq(URL) /\ found \in Seq(Normals)
  BY <1>1, EmptySeq
<1>4. StageInv
  BY <1>1, <1>3 DEF StageInv
<1>5. WayInv
  BY <1>1 DEF WayInv, OnItsWay
<1>6. OriginInv
  BY <1>1, <1>2 DEF OriginInv, MadeOf
<1> QED  BY <1>4, <1>5, <1>6 DEF UrlInv

LEMMA UrlInvExtract ==
  ASSUME UrlInv, ExtractLink
  PROVE  UrlInv'
<1> DEFINE href == Head(rest)
           link == NormalizeLink(Resolve(base, href))
<1>1. /\ stage = "parse" /\ rest # <<>> /\ rest' = Tail(rest) /\ given' = given
      /\ base' = base /\ stage' = stage /\ keys' = keys
  BY DEF ExtractLink
<1>2. \/ found' = IF \/ ShouldSkipLink(href) \/ link.scheme \notin {"http", "https"}
                     \/ link \in ToSet(found)
                  THEN found ELSE Append(found, link)
      \/ Bare(href) /\ ~href.frag /\ found' = found
  BY DEF ExtractLink
<1>3. /\ given \in Seq(URL) /\ base \in URL /\ rest \in Seq(URL) /\ found \in Seq(URL)
      /\ ToSet(rest) \subseteq ToSet(given) /\ ToSet(given) \subseteq URL
  BY <1>1, ToSetIs DEF UrlInv, StageInv
<1>4. /\ href \in URL /\ href \in ToSet(rest) /\ rest' \in Seq(URL)
      /\ ToSet(rest') \subseteq ToSet(rest) /\ ToSet(rest) \subseteq ToSet(rest') \cup {href}
  BY <1>1, <1>3, ToSetParts
<1> HIDE DEF href
<1>5. link \in URL
  BY <1>3, <1>4, LinkIsUrl
<1>6. link = NormalizeLink(Resolve(base, href))
  OBVIOUS
<1> HIDE DEF link
<1>7. /\ found' \in Seq(URL) /\ ToSet(found) \subseteq ToSet(found')
      /\ ToSet(found') \subseteq ToSet(found) \cup {link}
  <2>1. Append(found, link) \in Seq(URL) /\ ToSet(Append(found, link)) = ToSet(found) \cup {link}
    BY <1>3, <1>5, ToSetAppend
  <2> QED  BY <1>2, <1>3, <2>1
<1>8. IsPlain(href) => NormalizeURL(link) = NormalizeURL(href) /\ link \in ToSet(found')
  <2>1. SUFFICES ASSUME IsPlain(href)
                 PROVE  NormalizeURL(link) = NormalizeURL(href) /\ link \in ToSet(found')
    OBVIOUS
  <2>2. link.scheme \in {"http", "https"} /\ NormalizeURL(link) = NormalizeURL(href)
    BY <1>3, <1>4, <1>5, <1>6, <2>1, LinkIsLikeSeed DEF Schemes
  <2>3. ~ShouldSkipLink(href) /\ ~Bare(href)
    BY <2>1, UrlAssumption DEF ShouldSkipLink, Bare, Relative, IsPlain, UrlAssumption
  <2>4. ToSet(Append(found, link)) = ToSet(found) \cup {link}
    BY <1>3, <1>5, ToSetAppend
  <2> QED  BY <1>2, <2>2, <2>3, <2>4
<1>9. StageInv'
  BY <1>1, <1>3, <1>4, <1>7 DEF StageInv
<1>10. WayInv'
  <2>1. SUFFICES ASSUME NEW url \in ToSet(given), IsPlain(url) PROVE OnItsWay(url)'
    BY <1>1 DEF WayInv
  <2>2. \/ url \in ToSet(rest)
        \/ \E u \in ToSet(found) : NormalizeURL(u) = NormalizeURL(url)
    BY <1>1, <2>1 DEF UrlInv, WayInv, OnItsWay
  <2>3. \/ url \in ToSet(rest')
        \/ \E u \in ToSet(found') : NormalizeURL(u) = NormalizeURL(url)
    BY <1>4, <1>7, <1>8, <2>1, <2>2
  <2> QED  BY <1>1, <2>3 DEF OnItsWay
<1>11. OriginInv'
  <2>1. SUFFICES ASSUME \A url \in ToSet(given) : IsPlain(url)
                 PROVE  /\ \A u \in ToSet(rest') \cup ToSet(found') : MadeOf(u)
                        /\ \A key \in keys : \E url \in ToSet(given) : key = NormalizeURL(url)
    BY <1>1 DEF OriginInv, MadeOf
  <2>2. /\ \A u \in ToSet(rest) \cup ToSet(found) : MadeOf(u)
        /\ \A key \in keys : \E url \in ToSet(given) : key = NormalizeURL(url)
    BY <2>1 DEF UrlInv, OriginInv
  <2>3. MadeOf(link)
    BY <1>3, <1>4, <1>8, <2>1 DEF MadeOf
  <2> QED  BY <1>4, <1>7, <2>2, <2>3
<1> QED  BY <1>9, <1>10, <1>11 DEF UrlInv

LEMMA UrlInvNew ==
  ASSUME UrlInv, NewURL
  PROVE  UrlInv'
<1> DEFINE raw == Head(rest)
           v == NormalizeURL(raw)
<1>1. /\ stage = "new" /\ rest # <<>> /\ rest' = Tail(rest) /\ given' = given
      /\ base' = base /\ stage' = stage /\ keys' = keys
      /\ found' = IF v = Rejected THEN found ELSE Append(found, v)
  BY DEF NewURL
<1>2. /\ given \in Seq(URL) /\ base \in URL /\ rest \in Seq(URL) /\ found \in Seq(Normals)
      /\ ToSet(given) \subseteq URL
  BY <1>1, ToSetIs DEF UrlInv, StageInv
<1>3. /\ raw \in URL /\ raw \in ToSet(rest) /\ rest' \in Seq(URL)
      /\ ToSet(rest') \subseteq ToSet(rest) /\ ToSet(rest) \subseteq ToSet(rest') \cup {raw}
  BY <1>1, <1>2, ToSetParts
<1> HIDE DEF raw
<1>4. v \in Normals \cup {Rejected}
  BY <1>3, NormalizeType
<1>5. v = NormalizeURL(raw)
  OBVIOUS
<1> HIDE DEF v
<1>6. /\ found' \in Seq(Normals) /\ ToSet(found) \subseteq ToSet(found')
      /\ ToSet(found') \subseteq ToSet(found) \cup {v}
      /\ v # Rejected => v \in ToSet(found')
  <2>1. CASE v = Rejected
    BY <1>1, <1>2, <2>1
  <2>2. CASE v # Rejected
    <3>1. Append(found, v) \in Seq(Normals) /\ ToSet(Append(found, v)) = ToSet(found) \cup {v}
      BY <1>2, <1>4, <2>2, ToSetAppend
    <3> QED  BY <1>1, <2>2, <3>1
  <2> QED  BY <2>1, <2>2
<1>7. found' \in Seq(URL)
  BY <1>6, NormalsAreUrls, SeqMonotonic
<1>8. StageInv'
  BY <1>1, <1>2, <1>3, <1>6, <1>7 DEF StageInv
<1>9. WayInv'
  <2>1. SUFFICES ASSUME NEW url \in ToSet(given), IsPlain(url) PROVE OnItsWay(url)'
    BY <1>1 DEF WayInv
  <2> DEFINE key == NormalizeURL(url)
  <2>2. (\E u \in ToSet(rest) : NormalizeURL(u) = key) \/ key \in ToSet(found)
    BY <1>1, <2>1 DEF UrlInv, WayInv, OnItsWay
  <2>3. key # Rejected
    BY <1>2, <2>1, PlainKey
  <2> HIDE DEF key
  <2>4. (\E u \in ToSet(rest') : NormalizeURL(u) = key) \/ key \in ToSet(found')
    BY <1>3, <1>5, <1>6, <2>2, <2>3
  <2> QED  BY <1>1, <2>4 DEF OnItsWay, key
<1>10. OriginInv'
  <2>1. SUFFICES ASSUME \A url \in ToSet(given) : IsPlain(url)
                 PROVE  /\ \A u \in ToSet(rest') \cup ToSet(found') : MadeOf(u)
                        /\ \A key \in keys : \E url \in ToSet(given) : key = NormalizeURL(url)
    BY <1>1 DEF OriginInv, MadeOf
  <2>2. /\ \A u \in ToSet(rest) \cup ToSet(found) : MadeOf(u)
        /\ \A key \in keys : \E url \in ToSet(given) : key = NormalizeURL(url)
    BY <2>1 DEF UrlInv, OriginInv
  <2>3. MadeOf(v)
    <3>1. PICK url \in ToSet(given) : v = NormalizeURL(url)
      BY <1>3, <1>5, <2>2 DEF MadeOf
    <3>2. NormalizeURL(v) = NormalizeURL(url)
      BY <1>2, <2>1, <3>1, PlainKey
    <3> QED  BY <3>2 DEF MadeOf
  <2> QED  BY <1>3, <1>6, <2>2, <2>3
<1> QED  BY <1>8, <1>9, <1>10 DEF UrlInv

LEMMA UrlInvSeen ==
  ASSUME UrlInv, IsSeen
  PROVE  UrlInv'
<1> DEFINE raw == Head(rest)
           u == NormalizeURL(raw)
           asked == IF NormalizeURL(u) = Rejected THEN u ELSE NormalizeURL(u)
           Refused == \E w \in ToSet(found) : NormalizeURL(w) = Rejected
<1>1. /\ stage = "seen" /\ rest # <<>> /\ given' = given /\ base' = base /\ stage' = stage
      /\ found' = found
      /\ u = Rejected => rest' = <<>> /\ keys' = keys
      /\ u # Rejected => rest' = Tail(rest) /\ keys' = keys \cup {asked}
  BY DEF IsSeen
<1>2. /\ given \in Seq(URL) /\ base \in URL /\ rest \in Seq(URL) /\ found \in Seq(Normals)
      /\ found \in Seq(URL) /\ ToSet(rest) \subseteq ToSet(found) /\ ToSet(given) \subseteq URL
  BY <1>1, ToSetIs DEF UrlInv, StageInv
<1>3. /\ raw \in URL /\ raw \in ToSet(rest) /\ Tail(rest) \in Seq(URL)
      /\ ToSet(Tail(rest)) \subseteq ToSet(rest)
      /\ ToSet(rest) \subseteq ToSet(Tail(rest)) \cup {raw}
  BY <1>1, <1>2, ToSetParts
<1>4. rest' \in Seq(URL) /\ ToSet(rest') \subseteq ToSet(rest)
  <2>1. CASE u = Rejected
    BY <1>1, <1>2, <2>1, EmptySeq, ToSetIs
  <2>2. CASE u # Rejected
    BY <1>1, <1>3, <2>2
  <2> QED  BY <2>1, <2>2
<1>5. u = NormalizeURL(raw) /\ asked = IF NormalizeURL(u) = Rejected THEN u ELSE NormalizeURL(u)
  OBVIOUS
<1> HIDE DEF raw, u, asked
<1>6. StageInv'
  BY <1>1, <1>2, <1>4 DEF StageInv
<1>7. WayInv'
  <2>1. SUFFICES ASSUME NEW url \in ToSet(given), IsPlain(url) PROVE OnItsWay(url)'
    BY <1>1 DEF WayInv
  <2> DEFINE key == NormalizeURL(url)
  <2>2. key \in ToSet(rest) \/ key \in keys \/ Refused
    BY <1>1, <2>1 DEF UrlInv, WayInv, OnItsWay
  <2>3. key # Rejected /\ NormalizeURL(key) = key
    BY <1>2, <2>1, PlainKey
  <2> HIDE DEF key
  <2>4. key \in ToSet(rest') \/ key \in keys' \/ Refused
    <3>1. CASE u = Rejected
      <4>1. Refused
        BY <1>2, <1>3, <1>5, <3>1
      <4> QED  BY <4>1
    <3>2. CASE u # Rejected
      <4>1. rest' = Tail(rest) /\ keys' = keys \cup {asked}
        BY <1>1, <3>2
      <4>2. key = raw => asked = key
        BY <1>5, <2>3
      <4> HIDE DEF Refused
      <4> QED  BY <1>3, <2>2, <4>1, <4>2
    <3> QED  BY <3>1, <3>2
  <2> QED  BY <1>1, <2>4 DEF OnItsWay, key
<1>8. OriginInv'
  <2>1. SUFFICES ASSUME \A url \in ToSet(given) : IsPlain(url)
                 PROVE  /\ \A w \in ToSet(rest') \cup ToSet(found) : MadeOf(w)
                        /\ \A key \in keys' : \E url \in ToSet(given) : key = NormalizeURL(url)
    BY <1>1 DEF OriginInv, MadeOf
  <2>2. /\ \A w \in ToSet(rest) \cup ToSet(found) : MadeOf(w)
        /\ \A key \in keys : \E url \in ToSet(given) : key = NormalizeURL(url)
    BY <2>1 DEF UrlInv, OriginInv
  <2>3. \E url \in ToSet(given) : asked = NormalizeURL(url)
    <3>1. PICK url \in ToSet(given) : u = NormalizeURL(url)
      BY <1>3, <1>5, <2>2 DEF MadeOf
    <3>2. NormalizeURL(u) = u
      BY <1>2, <2>1, <3>1, PlainKey
    <3>3. asked = u
      BY <1>5, <3>2
    <3> QED  BY <3>1, <3>3
  <2>4. keys' \subseteq keys \cup {asked}
    BY <1>1
  <2> QED  BY <1>4, <2>2, <2>3, <2>4
<1> QED  BY <1>6, <1>7, <1>8 DEF UrlInv

LEMMA UrlInvNext ==
  ASSUME UrlInv, NextStage
  PROVE  UrlInv'
<1>1. /\ stage # "done" /\ rest = <<>> /\ rest' = found /\ given' = given /\ base' = base
      /\ keys' = keys
      /\ found' = IF stage = "parse" THEN <<>> ELSE found
  BY DEF NextStage
<1>2. /\ given \in Seq(URL) /\ base \in URL /\ found \in Seq(URL)
      /\ stage \in {"parse", "new", "seen"} /\ ToSet(rest) = {}
      /\ stage # "parse" => found \in Seq(Normals)
  BY <1>1, ToSetIs DEF UrlInv, StageInv
<1>3. stage' = CASE stage = "parse" -> "new" [] stage = "new" -> "seen" [] stage = "seen" -> "done"
  BY DEF NextStage
<1>4. /\ stage = "parse" => stage' = "new" /\ found' = <<>>
      /\ stage = "new" => stage' = "seen" /\ found' = found
      /\ stage = "seen" => stage' = "done" /\ found' = found
  BY <1>1, <1>3
<1>5. <<>> \in Seq(URL) /\ <<>> \in Seq(Normals) /\ ToSet(<<>>) = {}
  BY <1>2, EmptySeq, ToSetIs
<1>6. StageInv'
  BY <1>1, <1>2, <1>4, <1>5 DEF StageInv
<1>7. WayInv'
  <2>1. SUFFICES ASSUME NEW url \in ToSet(given), IsPlain(url) PROVE OnItsWay(url)'
    BY <1>1 DEF WayInv
  <2>2. OnItsWay(url)
    BY <2>1 DEF UrlInv, WayInv
  <2>3. CASE stage = "parse"
    BY <1>1, <1>2, <1>4, <2>2, <2>3 DEF OnItsWay
  <2>4. CASE stage = "new"
    BY <1>1, <1>2, <1>4, <2>2, <2>4 DEF OnItsWay
  <2>5. CASE stage = "seen"
    BY <1>1, <1>2, <1>4, <2>2, <2>5 DEF OnItsWay
  <2> QED  BY <1>2, <2>3, <2>4, <2>5
<1>8. OriginInv'
  <2>1. SUFFICES ASSUME \A url \in ToSet(given) : IsPlain(url)
                 PROVE  /\ \A u \in ToSet(rest') \cup ToSet(found') : MadeOf(u)
                        /\ \A key \in keys : \E url \in ToSet(given) : key = NormalizeURL(url)
    BY <1>1 DEF OriginInv, MadeOf
  <2>2. /\ \A u \in ToSet(rest) \cup ToSet(found) : MadeOf(u)
        /\ \A key \in keys : \E url \in ToSet(given) : key = NormalizeURL(url)
    BY <2>1 DEF UrlInv, OriginInv
  <2>3. ToSet(found') \subseteq ToSet(found)
    BY <1>1, <1>5
  <2> QED  BY <1>1, <2>2, <2>3
<1> QED  BY <1>6, <1>7, <1>8 DEF UrlInv

\* The steps of a list keep where its URLs are and what they were made of.
THEOREM UrlInvHolds == UrlSpec => []UrlInv
<1>1. UrlInv /\ [UrlNext]_urlVars => UrlInv'
  <2> SUFFICES ASSUME UrlInv, [UrlNext]_urlVars PROVE UrlInv'
    OBVIOUS
  <2>1. CASE ExtractLink
    BY <2>1, UrlInvExtract
  <2>2. CASE NewURL
    BY <2>2, UrlInvNew
  <2>3. CASE IsSeen
    BY <2>3, UrlInvSeen
  <2>4. CASE NextStage
    BY <2>4, UrlInvNext
  <2>5. CASE UNCHANGED urlVars
    BY <2>5 DEF urlVars, UrlInv, StageInv, WayInv, OnItsWay, OriginInv, MadeOf
  <2> QED  BY <2>1, <2>2, <2>3, <2>4, <2>5 DEF UrlNext
<1> QED  BY <1>1, UrlInvInit, PTL DEF UrlSpec

\* However often a URL is normalised, its key stays the same: what NewURL returns,
\* IsSeen and hashURL normalise to itself, for every path, query and port, but for the
\* URL that is left without a host, which they refuse.
THEOREM NormalFormsStay == UrlSpec => []NormalIsStable
<1>1. UrlInv => NormalIsStable
  <2> SUFFICES ASSUME UrlInv, stage = "seen", NEW u \in ToSet(found)
               PROVE  NormalizeURL(u) =
                         IF u.name = Empty /\ u.port = Empty THEN Rejected ELSE u
    BY DEF NormalIsStable
  <2>1. u \in Normals
    BY ToSetIs DEF UrlInv, StageInv
  <2> QED  BY <2>1, NormalsAreStable DEF HasHost
<1> QED  BY <1>1, UrlInvHolds, PTL

\* A link of a page, resolved by net/url, is looked up under the key that its URL has
\* as a seed, for every page and every list of links: it is lost only with the batch
\* that IsSeen gives up.
THEOREM LinksGetSeedKeys == UrlSpec => []LinksAreLikeSeeds
<1>1. UrlInv => LinksAreLikeSeeds
  <2> SUFFICES ASSUME UrlInv, stage = "done", NEW i \in DOMAIN given, IsPlain(given[i])
               PROVE  \/ NormalizeURL(given[i]) \in keys
                      \/ \E u \in ToSet(found) : NormalizeURL(u) = Rejected
    BY DEF LinksAreLikeSeeds
  <2>1. given[i] \in ToSet(given)
    BY DEF ToSet
  <2> QED  BY <2>1 DEF UrlInv, WayInv, OnItsWay
<1> QED  BY <1>1, UrlInvHolds, PTL

\* All spellings of a page are looked up under one key, however many segments and
\* parameters they have, as links and as seeds.
THEOREM SpellingsShareAKey == UrlSpec => []SpellingsAreOne
<1>1. UrlInv => SpellingsAreOne
  <2> SUFFICES ASSUME UrlInv, NEW k \in keys, NEW l \in keys,
                      \A i, j \in DOMAIN given : SamePage(given[i], given[j])
               PROVE  k = l
    BY DEF SpellingsAreOne
  <2>1. \A u, v \in ToSet(given) : SamePage(u, v)
    BY DEF ToSet
  <2>2. \A u \in ToSet(given) : IsPlain(u) /\ u \in URL
    <3>1. ToSet(given) \subseteq URL
      BY ToSetIs DEF UrlInv, StageInv
    <3> QED  BY <2>1, <3>1 DEF SamePage
  <2>3. PICK u \in ToSet(given) : k = NormalizeURL(u)
    BY <2>2 DEF UrlInv, OriginInv
  <2>4. PICK v \in ToSet(given) : l = NormalizeURL(v)
    BY <2>2 DEF UrlInv, OriginInv
  <2> QED  BY <2>1, <2>2, <2>3, <2>4, SpellingsAreNormalised
<1> QED  BY <1>1, UrlInvHolds, PTL
=============================================================================
