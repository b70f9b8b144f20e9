--------------------------- MODULE LoomAgent_proofs ---------------------------
(***************************************************************************)
(* Proofs about LoomAgent for agents that write any number of lines, pipes *)
(* of any length and any number of prompts.                                *)
(***************************************************************************)
EXTENDS LoomAgent, SequenceTheorems, WellFoundedInduction, TLAPS

(***************************************************************************)
(* Sequences                                                               *)
(***************************************************************************)
(* A set of natural numbers that is not empty has a least element: what    *)
(* the induction over lines is done with.                                  *)
LEMMA LeastNatural ==
  ASSUME NEW T, T \subseteq Nat, T # {}
  PROVE \E x \in T : \A y \in T : ~(y < x)
<1> DEFINE R == OpToRel(<, Nat)
<1>1. IsWellFoundedOn(R, Nat) BY NatLessThanWellFounded
<1>2. \E x \in T : \A y \in T : ~ (<<y, x>> \in R)
  <2> HIDE DEF R
  <2> QED BY <1>1, WFMin
<1>3. ASSUME NEW x \in Nat, NEW y \in Nat, y < x PROVE <<y,x>> \in R
  BY <1>3 DEF OpToRel
<1> HIDE DEF R
<1> QED BY <1>2, <1>3

(* FlattenSeq is defined with a function of the number of parts.           *)
Flattened(f, s, k) ==
    f = [i \in 1 .. k |-> IF i = 1 THEN s[i] ELSE f[i - 1] \o s[i]]

(* There is a function of the kind FlattenSeq is defined with.             *)
LEMMA FlattenedExists ==
  ASSUME NEW s, NEW n \in Nat
  PROVE  \E f : Flattened(f, s, n)
<1> DEFINE T == {k \in Nat : ~ \E f : Flattened(f, s, k)}
<1>1. SUFFICES ASSUME T # {} PROVE FALSE
  OBVIOUS
<1>2. PICK k \in T : \A j \in T : ~(j < k)
  <2>1. T \subseteq Nat OBVIOUS
  <2> HIDE DEF T
  <2> QED BY <1>1, <2>1, LeastNatural
<1>3. ~ \E f : Flattened(f, s, k) /\ k \in Nat
  BY <1>2
<1>4. CASE k = 0
  <2>1. Flattened([i \in 1 .. 0 |-> 0], s, 0)
    BY DEF Flattened
  <2> QED BY <1>3, <1>4, <2>1
<1>5. CASE k # 0
  <2>1. k - 1 \in Nat /\ k - 1 < k /\ k - 1 \notin T
    BY <1>2, <1>3, <1>5
  <2>2. PICK f : Flattened(f, s, k - 1)
    BY <2>1
  <2> DEFINE g == [i \in 1 .. k |-> IF i < k THEN f[i] ELSE IF i = 1 THEN s[i] ELSE f[i - 1] \o s[i]]
  <2>3. \A i \in 1 .. k : g[i] = IF i = 1 THEN s[i] ELSE g[i - 1] \o s[i]
    <3>1. TAKE i \in 1 .. k
    <3>2. CASE i < k
      <4>1. i \in 1 .. k - 1 /\ (i # 1 => i - 1 \in 1 .. k /\ i - 1 < k)
        BY <3>1, <3>2, <2>1
      <4>2. f[i] = IF i = 1 THEN s[i] ELSE f[i - 1] \o s[i]
        BY <2>2, <4>1 DEF Flattened
      <4> QED BY <4>1, <4>2, <3>2
    <3>3. CASE i = k
      <4>1. i # 1 => i - 1 \in 1 .. k /\ i - 1 < k
        BY <3>1, <3>3, <2>1
      <4> QED BY <4>1, <3>3
    <3> QED BY <3>2, <3>3, <2>1
  <2>4. g = [i \in 1 .. k |-> IF i = 1 THEN s[i] ELSE g[i - 1] \o s[i]]
    <3>1. g = [i \in 1 .. k |-> g[i]] OBVIOUS
    <3> HIDE DEF g
    <3> QED BY <2>3, <3>1, Zenon
  <2>5. Flattened(g, s, k)
    <3> HIDE DEF g
    <3> QED BY <2>4 DEF Flattened
  <2> QED BY <2>5, <1>3
<1> QED BY <1>4, <1>5

(* FlattenSeq of a sequence that is not empty is the last value of such a  *)
(* function.                                                               *)
LEMMA FlattenSeqIs ==
  ASSUME NEW s, Len(s) \in Nat \ {0}
  PROVE  \E f : Flattened(f, s, Len(s)) /\ FlattenSeq(s) = f[Len(s)]
<1> DEFINE c == CHOOSE f : f = [i \in 1 .. Len(s) |-> IF i = 1 THEN s[i] ELSE f[i - 1] \o s[i]]
<1>1. \E f : Flattened(f, s, Len(s))
  BY FlattenedExists
<1>2. c = [i \in 1 .. Len(s) |-> IF i = 1 THEN s[i] ELSE c[i - 1] \o s[i]]
  BY <1>1, Zenon DEF Flattened
<1>3. FlattenSeq(s) = c[Len(s)]
  BY Zenon DEF FlattenSeq
<1>4. Flattened(c, s, Len(s))
  <2> HIDE DEF c
  <2> QED BY <1>2 DEF Flattened
<1> QED BY <1>3, <1>4

(* Its first value is the first part.                                      *)
LEMMA FlattenedFirst ==
  ASSUME NEW s, NEW k \in Nat, NEW f, Flattened(f, s, k), k # 0
  PROVE  f[1] = s[1]
<1>1. 1 \in 1 .. k OBVIOUS
<1> QED BY <1>1 DEF Flattened

(* Each next value is the one before with the next part appended.          *)
LEMMA FlattenedNext ==
  ASSUME NEW s, NEW k \in Nat, NEW f, Flattened(f, s, k), NEW i \in 1 .. k - 1
  PROVE  f[i + 1] = f[i] \o s[i + 1]
<1> DEFINE j == i + 1
<1>1. j \in 1 .. k /\ j # 1 /\ j - 1 = i
  OBVIOUS
<1> HIDE DEF j
<1>2. f[j] = f[j - 1] \o s[j]
  BY <1>1 DEF Flattened
<1> QED BY <1>1, <1>2 DEF j

(* All its values are sequences over the parts' elements.                  *)
LEMMA FlattenedTyped ==
  ASSUME NEW S, NEW s \in Seq(Seq(S)), NEW f, Flattened(f, s, Len(s))
  PROVE  \A i \in 1 .. Len(s) : f[i] \in Seq(S)
<1> DEFINE T == {i \in Nat : i \in 1 .. Len(s) /\ f[i] \notin Seq(S)}
<1>1. SUFFICES ASSUME T # {} PROVE FALSE
  OBVIOUS
<1>2. PICK i \in T : \A j \in T : ~(j < i)
  <2>1. T \subseteq Nat OBVIOUS
  <2> HIDE DEF T
  <2> QED BY <1>1, <2>1, LeastNatural
<1>3. i \in 1 .. Len(s) /\ f[i] \notin Seq(S) /\ s[i] \in Seq(S) /\ Len(s) \in Nat
  BY <1>2
<1>4. f[i] = IF i = 1 THEN s[i] ELSE f[i - 1] \o s[i]
  BY <1>3 DEF Flattened
<1>5. CASE i # 1
  <2>1. i - 1 \in 1 .. Len(s) /\ i - 1 \notin T
    BY <1>2, <1>3, <1>5
  <2>2. f[i - 1] \in Seq(S)
    BY <2>1
  <2> QED BY <1>3, <1>4, <1>5, <2>2, ConcatProperties
<1> QED BY <1>3, <1>4, <1>5

(* What is flattened is a sequence over the parts' elements.               *)
LEMMA FlattenSeqTyped ==
  ASSUME NEW S, NEW s \in Seq(Seq(S))
  PROVE  FlattenSeq(s) \in Seq(S)
<1>1. CASE Len(s) = 0
  <2>1. s = <<>> BY <1>1
  <2>2. FlattenSeq(s) = s BY <1>1 DEF FlattenSeq
  <2> QED BY <2>1, <2>2, EmptySeq
<1>2. CASE Len(s) # 0
  <2>1. Len(s) \in Nat \ {0} BY <1>2
  <2>2. PICK f : Flattened(f, s, Len(s)) /\ FlattenSeq(s) = f[Len(s)]
    BY <2>1, FlattenSeqIs
  <2> QED BY <2>1, <2>2, FlattenedTyped
<1> QED BY <1>1, <1>2

(* No parts make the empty sequence.                                       *)
LEMMA FlattenSeqEmpty == FlattenSeq(<<>>) = <<>>
<1> QED BY DEF FlattenSeq

(* One part is flattened to itself.                                        *)
LEMMA FlattenSeqOne ==
  ASSUME NEW S, NEW x \in Seq(S)
  PROVE  FlattenSeq(<<x>>) = x
<1>1. Len(<<x>>) = 1 OBVIOUS
<1>2. PICK f : Flattened(f, <<x>>, Len(<<x>>)) /\ FlattenSeq(<<x>>) = f[Len(<<x>>)]
  <2>1. Len(<<x>>) \in Nat \ {0} BY <1>1
  <2> HIDE <1>1
  <2> QED BY <2>1, FlattenSeqIs, Zenon
<1>3. f[1] = <<x>>[1]
  BY <1>1, <1>2 DEF Flattened
<1> QED BY <1>1, <1>2, <1>3

(* A part appended is appended to what the others make.                    *)
LEMMA FlattenSeqAppend ==
  ASSUME NEW S, NEW s \in Seq(Seq(S)), NEW x \in Seq(S)
  PROVE  FlattenSeq(Append(s, x)) = FlattenSeq(s) \o x
<1> DEFINE t == Append(s, x)
           n == Len(s)
<1>1. /\ t \in Seq(Seq(S)) /\ Len(t) = n + 1 /\ n \in Nat
      /\ \A i \in 1 .. n : t[i] = s[i]
      /\ t[n + 1] = x /\ n = Len(s)
  BY AppendProperties
<1> HIDE DEF n
<1>2. CASE n = 0
  <2>1. s = <<>> BY <1>1, <1>2
  <2>2. t = <<x>> BY <2>1
  <2> QED BY <2>1, <2>2, FlattenSeqEmpty, FlattenSeqOne, ConcatEmptySeq
<1>3. CASE n # 0
  <2> HIDE DEF t
  <2>1. PICK f : Flattened(f, s, n) /\ FlattenSeq(s) = f[n]
    BY <1>1, <1>3, FlattenSeqIs
  <2>2. PICK g : Flattened(g, t, Len(t)) /\ FlattenSeq(t) = g[Len(t)]
    <3>1. Len(t) \in Nat \ {0} BY <1>1
    <3> QED BY <3>1, FlattenSeqIs
  <2> DEFINE T == {i \in Nat : i \in 1 .. n /\ f[i] # g[i]}
  <2>3. T = {}
    <3>1. SUFFICES ASSUME T # {} PROVE FALSE
      OBVIOUS
    <3>2. PICK i \in T : \A j \in T : ~(j < i)
      <4>1. T \subseteq Nat OBVIOUS
      <4> HIDE DEF T
      <4> QED BY <3>1, <4>1, LeastNatural
    <3>3. i \in 1 .. n /\ f[i] # g[i] /\ t[i] = s[i] /\ i \in 1 .. n + 1
      BY <3>2, <1>1
    <3>4. f[i] = IF i = 1 THEN s[i] ELSE f[i - 1] \o s[i]
      BY <3>3, <2>1 DEF Flattened
    <3>5. g[i] = IF i = 1 THEN t[i] ELSE g[i - 1] \o t[i]
      BY <3>3, <1>1, <2>2 DEF Flattened
    <3>6. ASSUME i # 1 PROVE f[i - 1] = g[i - 1]
      <4>1. i - 1 \in 1 .. n /\ i - 1 \notin T
        BY <3>2, <3>3, <3>6, <1>1
      <4> QED BY <4>1
    <3> QED BY <3>3, <3>4, <3>5, <3>6
  <2>4. f[n] = g[n]
    BY <2>3, <1>1, <1>3
  <2>5. g[n + 1] = g[n] \o t[n + 1]
    <3>1. n \in 1 .. Len(t) - 1 /\ Len(t) \in Nat
      BY <1>1, <1>3
    <3> QED BY <3>1, <2>2, FlattenedNext
  <2> QED BY <1>1, <2>1, <2>2, <2>4, <2>5 DEF t
<1> QED BY <1>2, <1>3

(* The first part comes first and what the others make comes after it.     *)
LEMMA FlattenSeqHeadTail ==
  ASSUME NEW S, NEW s \in Seq(Seq(S)), s # <<>>
  PROVE  FlattenSeq(s) = Head(s) \o FlattenSeq(Tail(s))
<1>6. \A a, b, c \in Seq(S) : (a \o b) \o c = a \o (b \o c)
  BY ConcatAssociative
<1> DEFINE t == Tail(s)
           n == Len(s)
<1>1. /\ t \in Seq(Seq(S)) /\ Len(t) = n - 1 /\ n \in Nat \ {0}
      /\ \A i \in 1 .. n - 1 : t[i] = s[i + 1]
      /\ s[1] \in Seq(S) /\ Head(s) = s[1]
      /\ \A i \in 1 .. n : s[i] \in Seq(S)
      /\ (n = 1 => t = <<>>) /\ n = Len(s)
  <2>1. n \in Nat \ {0} BY EmptySeq
  <2>2. t \in Seq(Seq(S)) /\ Len(t) = n - 1 /\ \A i \in 1 .. Len(t) : t[i] = s[i + 1]
    BY HeadTailProperties
  <2>3. \A i \in 1 .. n : s[i] \in Seq(S)
    BY ElementOfSeq
  <2>4. n = 1 => t = <<>>
    <3> HIDE DEF t
    <3> QED BY <2>1, <2>2, EmptySeq
  <2>5. Head(s) = s[1]
    BY <2>1
  <2> HIDE DEF t, n
  <2> QED BY <2>1, <2>2, <2>3, <2>4, <2>5 DEF n
<1> HIDE DEF t, n
<1>2. PICK f : Flattened(f, s, n) /\ FlattenSeq(s) = f[n]
  BY <1>1, FlattenSeqIs
<1>3. f[1] = s[1]
  BY <1>1, <1>2 DEF Flattened
<1>4. CASE n = 1
  <2>1. FlattenSeq(t) = <<>>
    BY <1>1, <1>4, FlattenSeqEmpty
  <2> QED BY <1>1, <1>2, <1>3, <1>4, <2>1, ConcatEmptySeq DEF t
<1>5. CASE n # 1
  <2>1. PICK g : Flattened(g, t, Len(t)) /\ FlattenSeq(t) = g[Len(t)]
    <3>1. Len(t) \in Nat \ {0} BY <1>1, <1>5
    <3> QED BY <3>1, FlattenSeqIs
  <2>2. \A i \in 1 .. n - 1 : g[i] \in Seq(S)
    BY <1>1, <2>1, FlattenedTyped
  <2> DEFINE T == {i \in Nat : i \in 1 .. n - 1 /\ f[i + 1] # s[1] \o g[i]}
  <2>3. T = {}
    <3>1. SUFFICES ASSUME T # {} PROVE FALSE
      OBVIOUS
    <3>2. PICK i \in T : \A j \in T : ~(j < i)
      <4>1. T \subseteq Nat OBVIOUS
      <4> HIDE DEF T
      <4> QED BY <3>1, <4>1, LeastNatural
    <3>3. i \in Nat /\ i \in 1 .. n - 1 /\ f[i + 1] # s[1] \o g[i]
      BY <3>2, Zenon
    <3>8. i + 1 \in 1 .. n /\ i + 1 # 1 /\ i + 1 - 1 = i
      BY <3>3, <1>1
    <3>4. f[i + 1] = f[i] \o s[i + 1]
      BY <3>3, <1>1, <1>2, FlattenedNext
    <3>5. t[i] = s[i + 1] /\ t[i] \in Seq(S)
      BY <1>1, <3>3, <3>8
    <3>6. CASE i = 1
      <4>1. g[1] = t[1]
        BY <1>1, <1>5, <2>1, FlattenedFirst
      <4> QED BY <4>1, <3>3, <3>4, <3>5, <3>6, <1>3
    <3>7. CASE i # 1
      <4> DEFINE j == i - 1
      <4>1. j \in 1 .. n - 1 /\ j \in Nat /\ j + 1 = i /\ j < i /\ j \in 1 .. Len(t) - 1
        BY <3>3, <3>7, <1>1
      <4> HIDE DEF j
      <4>2. f[j + 1] = s[1] \o g[j]
        <5>1. j \notin T
          <6> HIDE DEF T
          <6> QED BY <3>2, <4>1
        <5> QED BY <4>1, <5>1, Zenon
      <4>3. g[j + 1] = g[j] \o t[j + 1]
        <5>1. Len(t) \in Nat BY <1>1
        <5> QED BY <4>1, <5>1, <2>1, FlattenedNext
      <4>4. g[j] \in Seq(S) /\ s[1] \in Seq(S)
        BY <4>1, <2>2, <1>1
      <4>5. (s[1] \o g[j]) \o t[i] = s[1] \o (g[j] \o t[i])
        BY <4>4, <3>5, <1>6, Zenon
      <4>6. f[i] = s[1] \o g[j] /\ g[i] = g[j] \o t[i]
        BY <4>1, <4>2, <4>3
      <4> QED BY <4>5, <4>6, <3>3, <3>4, <3>5
    <3> QED BY <3>6, <3>7
  <2>4. n - 1 \in 1 .. n - 1 /\ n - 1 \in Nat /\ n - 1 + 1 = n
    BY <1>1, <1>5
  <2>5. f[n] = s[1] \o g[n - 1]
    BY <2>3, <2>4
  <2> QED BY <1>1, <1>2, <2>1, <2>5 DEF t
<1> QED BY <1>4, <1>5

(* The tail of a concatenation is taken from its first sequence.           *)
LEMMA TailOfConcat ==
  ASSUME NEW S, NEW a \in Seq(S), a # <<>>, NEW b \in Seq(S)
  PROVE  Tail(a \o b) = Tail(a) \o b /\ a \o b # <<>>
<1>1. /\ a \o b \in Seq(S) /\ Len(a \o b) = Len(a) + Len(b) /\ Len(a) \in Nat \ {0} /\ Len(b) \in Nat
      /\ \A i \in 1 .. Len(a) + Len(b) : (a \o b)[i] = IF i <= Len(a) THEN a[i] ELSE b[i - Len(a)]
  BY ConcatProperties, EmptySeq
<1>2. a \o b # <<>>
  BY <1>1, EmptySeq
<1>3. /\ Tail(a) \in Seq(S) /\ Len(Tail(a)) = Len(a) - 1
      /\ \A i \in 1 .. Len(a) - 1 : Tail(a)[i] = a[i + 1]
  BY <1>1, HeadTailProperties
<1> DEFINE u == Tail(a \o b)
           v == Tail(a) \o b
<1>4. /\ u \in Seq(S) /\ Len(u) = Len(a) + Len(b) - 1
      /\ \A i \in 1 .. Len(a) + Len(b) - 1 : u[i] = (a \o b)[i + 1]
  BY <1>1, <1>2, HeadTailProperties
<1>5. /\ v \in Seq(S) /\ Len(v) = Len(a) - 1 + Len(b)
      /\ \A i \in 1 .. Len(a) - 1 + Len(b) :
             v[i] = IF i <= Len(a) - 1 THEN Tail(a)[i] ELSE b[i - (Len(a) - 1)]
  BY <1>1, <1>3, ConcatProperties
<1> HIDE DEF u, v
<1>6. ASSUME NEW i \in 1 .. Len(u) PROVE u[i] = v[i]
  <2>1. i + 1 \in 1 .. Len(a) + Len(b) /\ i \in 1 .. Len(a) + Len(b) - 1 /\ i \in 1 .. Len(a) - 1 + Len(b)
    BY <1>1, <1>4
  <2>2. u[i] = IF i + 1 <= Len(a) THEN a[i + 1] ELSE b[i + 1 - Len(a)]
    BY <1>1, <1>4, <2>1
  <2>3. v[i] = IF i <= Len(a) - 1 THEN Tail(a)[i] ELSE b[i - (Len(a) - 1)]
    BY <1>5, <2>1
  <2>4. CASE i <= Len(a) - 1
    <3>1. Tail(a)[i] = a[i + 1] /\ i + 1 <= Len(a)
      BY <1>1, <1>3, <2>1, <2>4
    <3> QED BY <2>2, <2>3, <2>4, <3>1
  <2>5. CASE ~(i <= Len(a) - 1)
    <3>1. ~(i + 1 <= Len(a)) /\ i + 1 - Len(a) = i - (Len(a) - 1)
      BY <1>1, <2>1, <2>5
    <3> QED BY <2>2, <2>3, <2>5, <3>1
  <2> QED BY <2>4, <2>5
<1>7. u = v
  <2>1. Len(u) = Len(v) BY <1>1, <1>4, <1>5
  <2> QED BY <1>4, <1>5, <1>6, <2>1, SeqEqual
<1> QED BY <1>2, <1>7 DEF u, v

(* What follows the first of two sequences is the second one: abort drops  *)
(* the kept events.                                                        *)
LEMMA DropPending ==
  ASSUME NEW S, NEW a \in Seq(S), NEW b \in Seq(S)
  PROVE  SubSeq(a \o b, Len(a) + 1, Len(a \o b)) = b
<1> DEFINE c == a \o b
           m == Len(a) + 1
           n == Len(c)
           d == SubSeq(c, m, n)
<1>1. /\ c \in Seq(S) /\ n = Len(a) + Len(b) /\ Len(a) \in Nat /\ Len(b) \in Nat
      /\ \A i \in 1 .. Len(a) + Len(b) : c[i] = IF i <= Len(a) THEN a[i] ELSE b[i - Len(a)]
  BY ConcatProperties
<1> HIDE DEF c, n
<1>2. m \in Int /\ n \in Int /\ \A i \in m .. n : c[i] \in S
  BY <1>1, ElementOfSeq DEF n
<1> HIDE DEF m
<1>3. /\ d \in Seq(S) /\ Len(d) = IF m <= n THEN n - m + 1 ELSE 0
      /\ \A i \in 1 .. n - m + 1 : d[i] = c[m + i - 1]
  BY <1>2, SubSeqProperties
<1> HIDE DEF d
<1>4. Len(d) = Len(b)
  BY <1>1, <1>3 DEF m
<1>5. ASSUME NEW i \in 1 .. Len(b) PROVE d[i] = b[i]
  <2> DEFINE j == Len(a) + i
  <2>1. /\ i \in 1 .. n - m + 1 /\ m + i - 1 = j /\ j \in 1 .. Len(a) + Len(b)
        /\ ~(j <= Len(a)) /\ j - Len(a) = i
    BY <1>1 DEF m
  <2> HIDE DEF j
  <2>2. d[i] = c[j] BY <1>3, <2>1
  <2>3. c[j] = b[i] BY <1>1, <2>1
  <2> QED BY <2>2, <2>3
<1>6. d = b
  BY <1>3, <1>4, <1>5, SeqEqual
<1> QED BY <1>6 DEF d, c, m, n

(* RemoveAt leaves the other elements, in their order.                     *)
LEMMA Removed ==
  ASSUME NEW S, NEW s \in Seq(S), NEW i \in 1 .. Len(s)
  PROVE  /\ RemoveAt(s, i) \in Seq(S)
         /\ Len(RemoveAt(s, i)) = Len(s) - 1
         /\ \A j \in 1 .. Len(s) - 1 : RemoveAt(s, i)[j] = IF j < i THEN s[j] ELSE s[j + 1]
<1> DEFINE a == SubSeq(s, 1, i - 1)
           b == SubSeq(s, i + 1, Len(s))
<1>1. Len(s) \in Nat /\ \A j \in 1 .. Len(s) : s[j] \in S
  BY ElementOfSeq
<1>2. /\ a \in Seq(S) /\ Len(a) = i - 1
      /\ \A j \in 1 .. i - 1 : a[j] = s[j]
  <2>1. /\ 1 \in Int /\ i - 1 \in Int /\ \A j \in 1 .. i - 1 : s[j] \in S
    BY <1>1
  <2>2. /\ a \in Seq(S) /\ Len(a) = IF 1 <= i - 1 THEN i - 1 - 1 + 1 ELSE 0
        /\ \A j \in 1 .. i - 1 - 1 + 1 : a[j] = s[1 + j - 1]
    BY <2>1, SubSeqProperties
  <2> HIDE DEF a
  <2> QED BY <2>2, <1>1
<1>3. /\ b \in Seq(S) /\ Len(b) = Len(s) - i
      /\ \A j \in 1 .. Len(s) - i : b[j] = s[i + j]
  <2>1. /\ i + 1 \in Int /\ Len(s) \in Int /\ \A j \in i + 1 .. Len(s) : s[j] \in S
    BY <1>1
  <2>2. /\ b \in Seq(S) /\ Len(b) = IF i + 1 <= Len(s) THEN Len(s) - (i + 1) + 1 ELSE 0
        /\ \A j \in 1 .. Len(s) - (i + 1) + 1 : b[j] = s[i + 1 + j - 1]
    BY <2>1, SubSeqProperties
  <2> HIDE DEF b
  <2> QED BY <2>2, <1>1
<1> HIDE DEF a, b
<1>4. /\ a \o b \in Seq(S) /\ Len(a \o b) = Len(a) + Len(b)
      /\ \A j \in 1 .. Len(a) + Len(b) : (a \o b)[j] = IF j <= Len(a) THEN a[j] ELSE b[j - Len(a)]
  BY <1>2, <1>3, ConcatProperties
<1>5. RemoveAt(s, i) = a \o b
  BY DEF RemoveAt, a, b
<1>6. ASSUME NEW j \in 1 .. Len(s) - 1
      PROVE  (a \o b)[j] = IF j < i THEN s[j] ELSE s[j + 1]
  <2>1. CASE j < i
    <3>1. j <= Len(a) /\ j \in 1 .. i - 1 /\ j \in 1 .. Len(a) + Len(b)
      BY <1>1, <1>2, <1>3, <2>1
    <3> QED BY <1>2, <1>4, <2>1, <3>1
  <2>2. CASE ~(j < i)
    <3> DEFINE k == j - Len(a)
    <3>1. ~(j <= Len(a)) /\ j \in 1 .. Len(a) + Len(b) /\ k \in 1 .. Len(s) - i /\ i + k = j + 1
      BY <1>1, <1>2, <1>3, <2>2
    <3>2. (a \o b)[j] = b[k]
      BY <1>4, <3>1
    <3> HIDE DEF k
    <3>3. b[k] = s[j + 1]
      BY <1>3, <3>1
    <3> QED BY <2>2, <3>2, <3>3
  <2> QED BY <2>1, <2>2
<1> QED BY <1>1, <1>2, <1>3, <1>4, <1>5, <1>6

(***************************************************************************)
(* Lines and what they mean                                                *)
(***************************************************************************)
(* The lines of both backends.                                             *)
AllLines == PiLines \cup ClaudeLines

(* A line stands for a sequence of events.                                 *)
LEMMA MeaningTyped ==
  ASSUME NEW line
  PROVE  Meaning(line) \in Seq(Events)
<1>1. \A e, f \in Events : <<e>> \in Seq(Events) /\ <<e, f>> \in Seq(Events)
  OBVIOUS
<1>2. <<>> \in Seq(Events)
  OBVIOUS
<1>3. Events = {"MessageDelta", "ToolCall", "ToolResult", "TurnEnd", "Complete0", "Complete1",
                "CompactionStart", "CompactionEnd", "Error"}
  BY DEF Events
<1>4. /\ <<"MessageDelta">> \in Seq(Events) /\ <<"MessageDelta", "ToolCall">> \in Seq(Events)
      /\ <<"ToolCall">> \in Seq(Events) /\ <<"ToolResult">> \in Seq(Events)
      /\ <<"TurnEnd">> \in Seq(Events) /\ <<"Complete0">> \in Seq(Events)
      /\ <<"TurnEnd", "Complete0">> \in Seq(Events) /\ <<"Error", "Complete1">> \in Seq(Events)
      /\ <<"Error">> \in Seq(Events) /\ <<"CompactionStart">> \in Seq(Events)
      /\ <<"CompactionEnd">> \in Seq(Events)
  BY <1>1, <1>3
<1> QED BY <1>2, <1>4 DEF Meaning

(* Only a successful last line stands for SessionComplete with code 0, and *)
(* only claude's error for another code.                                   *)
LEMMA MeaningTerminals ==
  ASSUME NEW line, NEW i \in 1 .. Len(Meaning(line))
  PROVE  /\ Meaning(line)[i] = "Complete0" => line \in {"success", "agent_end"}
         /\ Meaning(line)[i] = "Complete1" => line = "error"
BY DEF Meaning

(* parse_line of either backend: what is parsed is what the agent means by *)
(* the line; a line with events needs no answer.                           *)
LEMMA ParsedMeaning ==
  ASSUME NEW line \in AllLines
  PROVE  /\ ParseLine(backend, line).ok => ParseLine(backend, line).events = Meaning(line)
         /\ ParseLine(backend, line).answer \in Answers \cup {NoAnswer}
         /\ ParseLine(backend, line).events # <<>> => ParseLine(backend, line).answer = NoAnswer
<1>1. CASE backend = "pi"
  <2>1. ParseLine(backend, line) = ParsePi(line)
    BY <1>1 DEF ParseLine
  <2>2. CASE line \in PiEvents
    <3>1. ParsePi(line) = ParsePiEvent(line)
      BY <2>2 DEF ParsePi, PiEvents, PiResponses, PiUiRequests
    <3>2. ParsePiEvent(line) = Parsed(Meaning(line), NoAnswer)
      BY <2>2 DEF ParsePiEvent, Meaning, PiEvents, Empty
    <3> QED BY <2>1, <3>1, <3>2 DEF Parsed
  <2>3. CASE line \in PiResponses \cup PiUiRequests
    <3>1. Meaning(line) = <<>>
      BY <2>3 DEF Meaning, PiResponses, PiUiRequests
    <3>2. \/ ParsePi(line) = ProtocolError
          \/ ParsePi(line) = Parsed(<<>>, NoAnswer)
          \/ ParsePi(line) = Parsed(<<>>, "cancel")
      BY <2>3 DEF ParsePi, ParseUiRequest, PiResponses, PiUiRequests, PiEvents, Empty
    <3> QED BY <2>1, <3>1, <3>2 DEF Parsed, ProtocolError, Answers
  <2>4. CASE line \notin PiEvents \cup PiResponses \cup PiUiRequests
    <3>1. ParsePi(line) = ProtocolError
      BY <2>4 DEF ParsePi, PiEvents, PiResponses, PiUiRequests
    <3> QED BY <2>1, <3>1 DEF ProtocolError
  <2> QED BY <2>2, <2>3, <2>4
<1>2. CASE backend # "pi"
  <2>1. ParseLine(backend, line) = ParseClaude(line)
    BY <1>2 DEF ParseLine
  <2>2. \/ ParseClaude(line) = ProtocolError
        \/ ParseClaude(line) = Parsed(Meaning(line), NoAnswer)
        \/ ParseClaude(line) = Parsed(Meaning(line), "approve") /\ Meaning(line) = <<>>
    BY DEF ParseClaude, Meaning, Empty
  <2> QED BY <2>1, <2>2 DEF ProtocolError, Parsed, Answers
<1> QED BY <1>1, <1>2

(* parse_line answers every question it accepts.                           *)
LEMMA ParsedQuestion ==
  ASSUME NEW line, Asks(line), ParseLine(backend, line).ok
  PROVE  ParseLine(backend, line).answer \in Answers
BY DEF Asks, ParseLine, ParsePi, ParseClaude, ParseUiRequest, Answers, Parsed,
       ProtocolError,
       PiResponses, PiUiRequests, PiEvents

(* The events that the lines in a pipe stand for.                          *)
InPipe(lines) == FlattenSeq([i \in 1 .. Len(lines) |-> Meaning(lines[i])])

(* The meanings of the lines of a pipe are sequences of events.            *)
LEMMA MeaningsTyped ==
  ASSUME NEW lines \in Seq(AllLines)
  PROVE  [i \in 1 .. Len(lines) |-> Meaning(lines[i])] \in Seq(Seq(Events))
BY MeaningTyped

(* What the lines of a pipe stand for is a sequence of events.             *)
LEMMA InPipeTyped ==
  ASSUME NEW lines \in Seq(AllLines)
  PROVE  InPipe(lines) \in Seq(Events)
BY MeaningsTyped, FlattenSeqTyped DEF InPipe

(* An empty pipe stands for no event.                                      *)
LEMMA InPipeEmpty == InPipe(<<>>) = <<>>
<1>1. [i \in 1 .. Len(<<>>) |-> Meaning(<<>>[i])] = <<>>
  OBVIOUS
<1> QED BY <1>1, FlattenSeqEmpty DEF InPipe

(* A line the agent writes puts its events behind those of the pipe.       *)
LEMMA InPipeAppend ==
  ASSUME NEW lines \in Seq(AllLines), NEW line \in AllLines
  PROVE  InPipe(Append(lines, line)) = InPipe(lines) \o Meaning(line)
<1> DEFINE m == [i \in 1 .. Len(lines) |-> Meaning(lines[i])]
           n == [i \in 1 .. Len(Append(lines, line)) |-> Meaning(Append(lines, line)[i])]
<1>1. m \in Seq(Seq(Events)) /\ n \in Seq(Seq(Events)) /\ Meaning(line) \in Seq(Events)
  BY MeaningsTyped, MeaningTyped, AppendProperties
<1>2. Append(m, Meaning(line)) \in Seq(Seq(Events))
  <2> HIDE DEF m, n
  <2> QED BY <1>1
<1>3. Len(n) = Len(Append(m, Meaning(line)))
  OBVIOUS
<1>4. ASSUME NEW i \in 1 .. Len(n)
      PROVE  n[i] = Append(m, Meaning(line))[i]
  OBVIOUS
<1>5. n = Append(m, Meaning(line))
  <2> HIDE DEF m, n
  <2> QED BY <1>1, <1>2, <1>3, <1>4, SeqEqual
<1> HIDE DEF m, n
<1>6. FlattenSeq(n) = FlattenSeq(m) \o Meaning(line)
  BY <1>1, <1>5, FlattenSeqAppend
<1> QED BY <1>6 DEF InPipe, m, n

(* The events of the line that is read next come before those of the       *)
(* others.                                                                 *)
LEMMA InPipeHeadTail ==
  ASSUME NEW lines \in Seq(AllLines), lines # <<>>
  PROVE  InPipe(lines) = Meaning(Head(lines)) \o InPipe(Tail(lines))
<1> DEFINE m == [i \in 1 .. Len(lines) |-> Meaning(lines[i])]
           n == [i \in 1 .. Len(Tail(lines)) |-> Meaning(Tail(lines)[i])]
<1>1. m \in Seq(Seq(Events)) /\ n \in Seq(Seq(Events))
  BY MeaningsTyped, HeadTailProperties
<1>2. m # <<>> /\ Len(m) = Len(lines) /\ Len(lines) \in Nat \ {0} /\ Head(m) = Meaning(Head(lines))
  BY EmptySeq
<1>3. Len(n) = Len(Tail(m))
  BY <1>2
<1>4. ASSUME NEW i \in 1 .. Len(n)
      PROVE  n[i] = Tail(m)[i]
  BY <1>2
<1> HIDE DEF m, n
<1>5. n = Tail(m)
  <2>1. Tail(m) \in Seq(Seq(Events)) BY <1>1, <1>2, HeadTailProperties
  <2> QED BY <2>1, <1>1, <1>3, <1>4, SeqEqual
<1>6. FlattenSeq(m) = Head(m) \o FlattenSeq(n)
  BY <1>1, <1>2, <1>5, FlattenSeqHeadTail
<1> QED BY <1>2, <1>6 DEF InPipe, m, n

(* Nothing in front changes nothing.                                       *)
LEMMA EmptyMeaning ==
  ASSUME NEW m \in Seq(Events), m = <<>>, NEW r \in Seq(Events)
  PROVE  m \o r = r
BY ConcatEmptySeq

(* Two sequences that make the empty one: the second is empty.             *)
LEMMA ConcatIsEmpty ==
  ASSUME NEW m \in Seq(Events), NEW r \in Seq(Events), m \o r = <<>>
  PROVE  r = <<>>
<1>1. Len(m \o r) = Len(m) + Len(r) /\ Len(m) \in Nat /\ Len(r) \in Nat
  BY ConcatProperties
<1>2. Len(m \o r) = 0
  OBVIOUS
<1>3. Len(r) = 0
  BY <1>1, <1>2
<1> QED BY <1>3, EmptySeq

(* next_line: a question that is not in the line taken is still in the     *)
(* pipe.                                                                   *)
LEMMA QuestionSurvives ==
  ASSUME fromAgent \in Seq(AllLines), fromAgent # <<>>, ~Asks(Head(fromAgent)),
         fromAgent' = Tail(fromAgent),
         NEW i \in 1 .. Len(fromAgent), Asks(fromAgent[i])
  PROVE  \E j \in 1 .. Len(fromAgent') : Asks(fromAgent'[j])
<1>1. /\ Len(fromAgent) \in Nat \ {0} /\ Len(fromAgent') = Len(fromAgent) - 1
      /\ Head(fromAgent) = fromAgent[1]
      /\ \A j \in 1 .. Len(fromAgent') : fromAgent'[j] = fromAgent[j + 1]
  BY HeadTailProperties, EmptySeq
<1>2. i # 1
  BY <1>1
<1> DEFINE j == i - 1
<1>3. j \in 1 .. Len(fromAgent') /\ j + 1 = i
  BY <1>1, <1>2
<1> HIDE DEF j
<1>4. Asks(fromAgent'[j])
  BY <1>1, <1>3
<1> QED BY <1>3, <1>4

(***************************************************************************)
(* The inductive invariant                                                 *)
(***************************************************************************)
(* The lines loom writes to the agent.                                     *)
Commands == {"get_commands", "set_model", "prompt", "steer", "abort", "approve", "cancel"}

(* Nothing has gone to or from an agent that is not there yet.             *)
SpawnIsFresh ==
  pc = "spawn" =>
      /\ agent = "absent" /\ asked = "no" /\ pending = <<>> /\ due = <<>>
      /\ toAgent = <<>> /\ fromAgent = <<>>

(* Before the handshake is over no prompt is on its way and the agent      *)
(* works on none: what it writes means no event, and what it asks counts   *)
(* as early.                                                               *)
HandshakeIsQuiet ==
  pc \in Handshake =>
      /\ pending = <<>> /\ InPipe(fromAgent) = <<>>
      /\ agent \notin {"working", "asking"} /\ asked # "late"
      /\ \A i \in 1 .. Len(toAgent) : toAgent[i] # "prompt"

(* run_agent sends one prompt and no abort; until the agent has taken the  *)
(* prompt, and from then until its last line, it has not ended a turn.     *)
OneTurn ==
  caller = "run_agent" =>
      /\ pc \notin {"grace", "term_grace", "reap"}
      /\ \A i \in 1 .. Len(toAgent) : toAgent[i] # "abort"
      /\ prompts = 0 =>
             /\ said = "none" /\ agent \notin {"working", "asking"}
             /\ \A i \in 1 .. Len(toAgent) : toAgent[i] # "prompt"
      /\ agent \in {"working", "asking"} => said = "none"
      /\ \A i \in 1 .. Len(toAgent) : toAgent[i] = "prompt" =>
             /\ said = "none" /\ agent \notin {"working", "asking"}
             /\ \A j \in 1 .. Len(toAgent) : toAgent[j] = "prompt" => i = j

(* What has come from the agent and not been handed on ends its turn the   *)
(* way its last terminal line did.                                         *)
TerminalsAgree ==
  caller = "run_agent" /\ pc \notin Over =>
      /\ \A i \in 1 .. Len(fromAgent) : fromAgent[i] \in Terminal => said = fromAgent[i]
      /\ \A i \in 1 .. Len(pending) :
             /\ pending[i] = "Complete0" => said \in {"success", "agent_end"}
             /\ pending[i] = "Complete1" => said = "error"

(* A session with an outcome is over.                                      *)
OutcomeIsFinal == outcome # "none" => pc = "returned"

(* QuestionsAreAnswered from the end of the handshake on.                  *)
QuestionsWait ==
  pc \in {"idle", "active"} /\ Waiting /\ asked = "late" => QuestionOrAnswerOnItsWay

AgentInv ==
  /\ TypeOK
  /\ SpawnIsFresh
  /\ HandshakeIsQuiet
  /\ OneTurn
  /\ TerminalsAgree
  /\ OutcomeIsFinal
  /\ QuestionsWait
  /\ EventsInOrder
  /\ OutcomeIsTheAgents
  /\ AgentEndsWithSession

(***************************************************************************)
(* Steps of loom and of its caller                                         *)
(***************************************************************************)
(* drop of the session, or of the child: kill_on_drop.                     *)
LEMMA DropKeeps ==
  ASSUME AgentInv, NEW result \in {"error", "stopped"}, DropSession(result), KeepConfig,
         result = "stopped" => caller = "other"
  PROVE  AgentInv'
<1> USE AgentAssumption DEF AgentInv, KeepConfig, DropSession
<1>1. TypeOK'
  BY DEF TypeOK, Terminal, Over
<1>2. SpawnIsFresh'
  BY DEF SpawnIsFresh
<1>3. HandshakeIsQuiet'
  BY DEF HandshakeIsQuiet, Handshake
<1>4. OneTurn'
  BY DEF OneTurn
<1>5. TerminalsAgree'
  BY DEF TerminalsAgree, Over
<1>6. OutcomeIsFinal'
  BY DEF OutcomeIsFinal
<1>7. QuestionsWait'
  BY DEF QuestionsWait, Waiting, QuestionOrAnswerOnItsWay
<1>8. EventsInOrder'
  BY DEF EventsInOrder
<1>9. OutcomeIsTheAgents'
  BY DEF OutcomeIsTheAgents
<1>10. AgentEndsWithSession'
  BY DEF AgentEndsWithSession, Alive
<1> QED BY <1>1, <1>2, <1>3, <1>4, <1>5, <1>6, <1>7, <1>8, <1>9, <1>10 DEF AgentInv

(* write_all of a command that succeeds.                                   *)
LEMMA SentKeeps ==
  ASSUME AgentInv, NEW from, NEW to, NEW cmd \in {"get_commands", "set_model", "steer"},
         <<from, cmd, to>> \in {<<"probe", "get_commands", "await_probe">>,
             <<"set_model", "set_model", "await_model">>, <<"active", "steer", "active">>},
         pc = from, Send(cmd), pc' = to, UNCHANGED <<pending, outcome, prompts, fromAgent, stdin>>,
         KeepAgent, KeepConfig
  PROVE  AgentInv'
<1> USE AgentAssumption DEF AgentInv, KeepConfig, KeepAgent, agentVars

<1>a. /\ toAgent' = Append(toAgent, cmd) /\ Len(toAgent') = Len(toAgent) + 1 /\ Len(toAgent) \in Nat
      /\ \A i \in 1 .. Len(toAgent') :
             toAgent'[i] = IF i <= Len(toAgent) THEN toAgent[i] ELSE cmd
  BY DEF TypeOK, Send
<1>1. TypeOK'
  BY <1>a DEF TypeOK, Terminal, Over
<1>2. SpawnIsFresh'
  BY <1>a DEF SpawnIsFresh
<1>3. HandshakeIsQuiet'
  BY <1>a DEF HandshakeIsQuiet, Handshake
<1>4. OneTurn'
  BY <1>a DEF OneTurn
<1>5. TerminalsAgree'
  BY <1>a DEF TerminalsAgree, Over
<1>6. OutcomeIsFinal'
  BY <1>a DEF OutcomeIsFinal
<1>7. QuestionsWait'
  <2>1. CASE pc = "active" /\ Waiting /\ asked = "late"
    <3>1. QuestionOrAnswerOnItsWay BY <2>1 DEF QuestionsWait
    <3>2. CASE \E i \in 1 .. Len(fromAgent) : Asks(fromAgent[i])
      BY <3>2 DEF QuestionsWait, QuestionOrAnswerOnItsWay
    <3>3. CASE \E i \in 1 .. Len(toAgent) : toAgent[i] \in Answers
      <4>1. PICK i \in 1 .. Len(toAgent) : toAgent[i] \in Answers BY <3>3
      <4>2. i \in 1 .. Len(toAgent') /\ toAgent'[i] \in Answers BY <1>a, <4>1
      <4> QED BY <4>2 DEF QuestionsWait, QuestionOrAnswerOnItsWay
    <3> QED BY <3>1, <3>2, <3>3 DEF QuestionOrAnswerOnItsWay
  <2> QED BY <2>1 DEF QuestionsWait, Waiting
<1>8. EventsInOrder'
  BY <1>a DEF EventsInOrder
<1>9. OutcomeIsTheAgents'
  BY <1>a DEF OutcomeIsTheAgents
<1>10. AgentEndsWithSession'
  BY <1>a DEF AgentEndsWithSession, Alive
<1> QED BY <1>1, <1>2, <1>3, <1>4, <1>5, <1>6, <1>7, <1>8, <1>9, <1>10 DEF AgentInv

(* run_probe, run_set_model and steer: the command is written or the       *)
(* session is dropped.                                                     *)
LEMMA SendsKeeps ==
  ASSUME AgentInv, NEW from, NEW to, NEW cmd \in {"get_commands", "set_model", "steer"},
         <<from, cmd, to>> \in {<<"probe", "get_commands", "await_probe">>,
             <<"set_model", "set_model", "await_model">>, <<"active", "steer", "active">>},
         Sends(from, cmd, to)
  PROVE  AgentInv'
<1>1. CASE Send(cmd) /\ pc' = to /\ UNCHANGED <<pending, outcome, prompts, fromAgent, stdin>> /\ KeepAgent
  BY <1>1, SentKeeps DEF Sends
<1>2. CASE DropSession("error")
  BY <1>2, DropKeeps DEF Sends
<1> QED BY <1>1, <1>2 DEF Sends

(* AgentBackend::spawn: the launcher was started.                          *)
LEMMA SpawnedKeeps ==
  ASSUME AgentInv, pc = "spawn", KeepConfig, pc' = IF backend = "pi" THEN "probe" ELSE "idle",
         agent' = "listening", stdin' = "open",
         UNCHANGED <<pending, outcome, prompts, toAgent, fromAgent, asked, said, written, due>>
  PROVE  AgentInv'
<1> USE AgentAssumption DEF AgentInv, KeepConfig
<1>1. TypeOK'
  BY InPipeEmpty DEF TypeOK, Terminal, Over
<1>2. SpawnIsFresh'
  BY InPipeEmpty DEF SpawnIsFresh
<1>3. HandshakeIsQuiet'
  BY InPipeEmpty DEF HandshakeIsQuiet, Handshake, SpawnIsFresh
<1>4. OneTurn'
  BY InPipeEmpty DEF OneTurn, SpawnIsFresh
<1>5. TerminalsAgree'
  BY InPipeEmpty DEF TerminalsAgree, Over, SpawnIsFresh
<1>6. OutcomeIsFinal'
  BY InPipeEmpty DEF OutcomeIsFinal
<1>7. QuestionsWait'
  BY InPipeEmpty DEF QuestionsWait, Waiting, QuestionOrAnswerOnItsWay, SpawnIsFresh
<1>8. EventsInOrder'
  BY InPipeEmpty DEF EventsInOrder, SpawnIsFresh, InPipe
<1>9. OutcomeIsTheAgents'
  BY InPipeEmpty DEF OutcomeIsTheAgents, OutcomeIsFinal
<1>10. AgentEndsWithSession'
  BY InPipeEmpty DEF AgentEndsWithSession, Alive
<1> QED BY <1>1, <1>2, <1>3, <1>4, <1>5, <1>6, <1>7, <1>8, <1>9, <1>10 DEF AgentInv

(* AgentBackend::spawn, whether the launcher starts or not.                *)
LEMMA SpawnKeeps ==
  ASSUME AgentInv, Spawn PROVE AgentInv'
<1>1. CASE DropSession("error")
  BY <1>1, DropKeeps DEF Spawn
<1> QED BY <1>1, SpawnedKeeps DEF Spawn

(* A caller other than run_agent lets go of the session.                   *)
LEMMA CallerDropsKeeps ==
  ASSUME AgentInv, CallerDrops PROVE AgentInv'
BY DropKeeps DEF CallerDrops

(* The end of the agent's output, in the handshake and after it.           *)
LEMMA EndOfOutputKeeps ==
  ASSUME AgentInv, HandshakeEof \/ NextEof PROVE AgentInv'
BY DropKeeps DEF HandshakeEof, NextEof

(* shutdown_after_result: stdin is closed.                                 *)
LEMMA BeginShutdownKeeps ==
  ASSUME AgentInv, BeginShutdown
  PROVE  AgentInv'
<1> USE AgentAssumption DEF AgentInv, KeepConfig, BeginShutdown, KeepAgent, agentVars
<1>1. TypeOK'
  BY DEF TypeOK, Terminal, Over
<1>2. SpawnIsFresh'
  BY DEF SpawnIsFresh
<1>3. HandshakeIsQuiet'
  BY DEF HandshakeIsQuiet, Handshake
<1>4. OneTurn'
  BY DEF OneTurn
<1>5. TerminalsAgree'
  BY DEF TerminalsAgree, Over
<1>6. OutcomeIsFinal'
  BY DEF OutcomeIsFinal, Over
<1>7. QuestionsWait'
  BY DEF QuestionsWait, Waiting, QuestionOrAnswerOnItsWay
<1>8. EventsInOrder'
  BY DEF EventsInOrder
<1>9. OutcomeIsTheAgents'
  BY DEF OutcomeIsTheAgents, OneTurn
<1>10. AgentEndsWithSession'
  BY DEF AgentEndsWithSession, Alive
<1> QED BY <1>1, <1>2, <1>3, <1>4, <1>5, <1>6, <1>7, <1>8, <1>9, <1>10 DEF AgentInv

(* shutdown_after_result: the wait for the agent ends.                     *)
LEMMA WaitEndsKeeps ==
  ASSUME AgentInv, WaitEnds
  PROVE  AgentInv'
<1> USE AgentAssumption DEF AgentInv, KeepConfig, WaitEnds, KeepAgent, agentVars
<1>1. TypeOK'
  BY DEF TypeOK, Terminal, Over
<1>2. SpawnIsFresh'
  BY DEF SpawnIsFresh
<1>3. HandshakeIsQuiet'
  BY DEF HandshakeIsQuiet, Handshake
<1>4. OneTurn'
  BY DEF OneTurn
<1>5. TerminalsAgree'
  BY DEF TerminalsAgree, Over
<1>6. OutcomeIsFinal'
  BY DEF OutcomeIsFinal, Over
<1>7. QuestionsWait'
  BY DEF QuestionsWait, Waiting, QuestionOrAnswerOnItsWay
<1>8. EventsInOrder'
  BY DEF EventsInOrder
<1>9. OutcomeIsTheAgents'
  BY DEF OutcomeIsTheAgents, OneTurn
<1>10. AgentEndsWithSession'
  BY DEF AgentEndsWithSession, Alive
<1> QED BY <1>1, <1>2, <1>3, <1>4, <1>5, <1>6, <1>7, <1>8, <1>9, <1>10 DEF AgentInv

(* shutdown_after_result: a wait times out, SIGTERM or SIGKILL is sent.    *)
LEMMA WaitTimesOutKeeps ==
  ASSUME AgentInv, WaitTimesOut
  PROVE  AgentInv'
<1> USE AgentAssumption DEF AgentInv, KeepConfig, WaitTimesOut, KeepAgent, agentVars
<1>1. TypeOK'
  BY DEF TypeOK, Terminal, Over
<1>2. SpawnIsFresh'
  BY DEF SpawnIsFresh
<1>3. HandshakeIsQuiet'
  BY DEF HandshakeIsQuiet, Handshake
<1>4. OneTurn'
  BY DEF OneTurn
<1>5. TerminalsAgree'
  BY DEF TerminalsAgree, Over
<1>6. OutcomeIsFinal'
  BY DEF OutcomeIsFinal, Over
<1>7. QuestionsWait'
  BY DEF QuestionsWait, Waiting, QuestionOrAnswerOnItsWay
<1>8. EventsInOrder'
  BY DEF EventsInOrder
<1>9. OutcomeIsTheAgents'
  BY DEF OutcomeIsTheAgents, OneTurn
<1>10. AgentEndsWithSession'
  BY DEF AgentEndsWithSession, Alive
<1> QED BY <1>1, <1>2, <1>3, <1>4, <1>5, <1>6, <1>7, <1>8, <1>9, <1>10 DEF AgentInv

(* loom dies without a destructor.                                         *)
LEMMA LoomDiesKeeps ==
  ASSUME AgentInv, LoomDies
  PROVE  AgentInv'
<1> USE AgentAssumption DEF AgentInv, KeepConfig, LoomDies, KeepAgent, agentVars
<1>1. TypeOK'
  BY DEF TypeOK, Terminal, Over
<1>2. SpawnIsFresh'
  BY DEF SpawnIsFresh
<1>3. HandshakeIsQuiet'
  BY DEF HandshakeIsQuiet, Handshake
<1>4. OneTurn'
  BY DEF OneTurn
<1>5. TerminalsAgree'
  BY DEF TerminalsAgree, Over
<1>6. OutcomeIsFinal'
  BY DEF OutcomeIsFinal, Over
<1>7. QuestionsWait'
  BY DEF QuestionsWait, Waiting, QuestionOrAnswerOnItsWay
<1>8. EventsInOrder'
  BY DEF EventsInOrder
<1>9. OutcomeIsTheAgents'
  BY DEF OutcomeIsTheAgents, OneTurn
<1>10. AgentEndsWithSession'
  BY DEF AgentEndsWithSession, Alive
<1> QED BY <1>1, <1>2, <1>3, <1>4, <1>5, <1>6, <1>7, <1>8, <1>9, <1>10 DEF AgentInv

(* The agent dies.                                                         *)
LEMMA AgentDiesKeeps ==
  ASSUME AgentInv, AgentDies
  PROVE  AgentInv'
<1> USE AgentAssumption DEF AgentInv, KeepConfig, AgentDies, KeepLoom, loomVars
<1>1. TypeOK'
  BY DEF TypeOK, Terminal, Over
<1>2. SpawnIsFresh'
  BY DEF SpawnIsFresh, Alive
<1>3. HandshakeIsQuiet'
  BY DEF HandshakeIsQuiet, Handshake
<1>4. OneTurn'
  BY DEF OneTurn
<1>5. TerminalsAgree'
  BY DEF TerminalsAgree, Over
<1>6. OutcomeIsFinal'
  BY DEF OutcomeIsFinal
<1>7. QuestionsWait'
  BY DEF QuestionsWait, Waiting, QuestionOrAnswerOnItsWay
<1>8. EventsInOrder'
  BY DEF EventsInOrder
<1>9. OutcomeIsTheAgents'
  BY DEF OutcomeIsTheAgents
<1>10. AgentEndsWithSession'
  BY DEF AgentEndsWithSession, Alive
<1> QED BY <1>1, <1>2, <1>3, <1>4, <1>5, <1>6, <1>7, <1>8, <1>9, <1>10 DEF AgentInv

(* prompt of the session: the prompt is written.                           *)
LEMMA PromptedKeeps ==
  ASSUME AgentInv, Prompt, Send("prompt"), pc' = "active", prompts' = prompts + 1,
         UNCHANGED <<pending, outcome, fromAgent, stdin>>, KeepAgent
  PROVE  AgentInv'
<1> USE AgentAssumption DEF AgentInv, KeepConfig, Prompt, KeepAgent, agentVars

<1>a. /\ toAgent' = Append(toAgent, "prompt") /\ Len(toAgent') = Len(toAgent) + 1 /\ Len(toAgent) \in Nat
      /\ \A i \in 1 .. Len(toAgent') :
             toAgent'[i] = IF i <= Len(toAgent) THEN toAgent[i] ELSE "prompt"
  BY DEF TypeOK, Send
<1>1. TypeOK'
  BY <1>a DEF TypeOK, Terminal, Over
<1>2. SpawnIsFresh'
  BY <1>a DEF SpawnIsFresh
<1>3. HandshakeIsQuiet'
  BY <1>a DEF HandshakeIsQuiet, Handshake
<1>4. OneTurn'
  BY <1>a DEF OneTurn, TypeOK
<1>5. TerminalsAgree'
  BY <1>a DEF TerminalsAgree, Over
<1>6. OutcomeIsFinal'
  BY <1>a DEF OutcomeIsFinal
<1>7. QuestionsWait'
  <2>1. CASE Waiting /\ asked = "late"
    <3>1. QuestionOrAnswerOnItsWay BY <2>1 DEF QuestionsWait
    <3>2. CASE \E i \in 1 .. Len(fromAgent) : Asks(fromAgent[i])
      BY <3>2 DEF QuestionsWait, QuestionOrAnswerOnItsWay
    <3>3. CASE \E i \in 1 .. Len(toAgent) : toAgent[i] \in Answers
      <4>1. PICK i \in 1 .. Len(toAgent) : toAgent[i] \in Answers BY <3>3
      <4>2. i \in 1 .. Len(toAgent') /\ toAgent'[i] \in Answers BY <1>a, <4>1
      <4> QED BY <4>2 DEF QuestionsWait, QuestionOrAnswerOnItsWay
    <3> QED BY <3>1, <3>2, <3>3 DEF QuestionOrAnswerOnItsWay
  <2> QED BY <2>1 DEF QuestionsWait, Waiting
<1>8. EventsInOrder'
  BY <1>a DEF EventsInOrder
<1>9. OutcomeIsTheAgents'
  BY <1>a DEF OutcomeIsTheAgents
<1>10. AgentEndsWithSession'
  BY <1>a DEF AgentEndsWithSession, Alive
<1> QED BY <1>1, <1>2, <1>3, <1>4, <1>5, <1>6, <1>7, <1>8, <1>9, <1>10 DEF AgentInv

(* prompt of the session, whether it can be written or not.                *)
LEMMA PromptKeeps ==
  ASSUME AgentInv, Prompt PROVE AgentInv'
<1>1. CASE DropSession("error")
  BY <1>1, DropKeeps DEF Prompt
<1> QED BY <1>1, PromptedKeeps DEF Prompt

(* await_response takes a line, the expected response or one it ignores.   *)
LEMMA AwaitTakesKeeps ==
  ASSUME AgentInv, pc \in {"await_probe", "await_model"}, fromAgent # <<>>, TakeLine, NoEventsYet,
         pc' \in {pc, "set_model", "idle"},
         UNCHANGED <<pending, outcome, prompts, toAgent, stdin, agentVars>>, KeepConfig
  PROVE  AgentInv'
<1> USE AgentAssumption DEF AgentInv, KeepConfig, agentVars, NoEventsYet

<1>a. /\ fromAgent \in Seq(AllLines) /\ fromAgent' = Tail(fromAgent) /\ fromAgent' \in Seq(AllLines)
      /\ Len(fromAgent) \in Nat \ {0} /\ Len(fromAgent') = Len(fromAgent) - 1
      /\ \A i \in 1 .. Len(fromAgent') : i + 1 \in 1 .. Len(fromAgent) /\ fromAgent'[i] = fromAgent[i + 1]
      /\ Head(fromAgent) = fromAgent[1] /\ Head(fromAgent) \in AllLines
  BY HeadTailProperties DEF TypeOK, AllLines, TakeLine
<1>b. InPipe(fromAgent) = Meaning(Head(fromAgent)) \o InPipe(fromAgent')
  BY <1>a, InPipeHeadTail
<1>c. /\ Meaning(Head(fromAgent)) \in Seq(Events) /\ InPipe(fromAgent') \in Seq(Events)
      /\ InPipe(fromAgent) \in Seq(Events)
  BY <1>a, MeaningTyped, InPipeTyped
<1>d. InPipe(fromAgent') = <<>>
  <2>1. InPipe(fromAgent) = <<>>
    BY DEF HandshakeIsQuiet, Handshake
  <2>2. Meaning(Head(fromAgent)) \o InPipe(fromAgent') = <<>>
    BY <1>b, <2>1
  <2> QED BY <1>c, <2>2, ConcatIsEmpty
<1>1. TypeOK'
  BY <1>a DEF TypeOK, AllLines, Over, Terminal
<1>2. SpawnIsFresh'
  BY <1>a, <1>d DEF SpawnIsFresh
<1>3. HandshakeIsQuiet'
  BY <1>a, <1>d DEF HandshakeIsQuiet, Handshake
<1>4. OneTurn'
  BY <1>a, <1>d DEF OneTurn
<1>5. TerminalsAgree'
  BY <1>a, <1>d DEF TerminalsAgree, Over
<1>6. OutcomeIsFinal'
  BY <1>a, <1>d DEF OutcomeIsFinal
<1>7. QuestionsWait'
  BY DEF QuestionsWait, HandshakeIsQuiet, Handshake
<1>8. EventsInOrder'
  <2>1. CASE pc' = "idle"
    <3>1. due' = <<>> /\ pending' = <<>>
      BY DEF HandshakeIsQuiet, Handshake
    <3>2. due' = pending' \o InPipe(fromAgent')
      BY <1>d, <3>1, EmptySeq, ConcatEmptySeq
    <3> QED BY <3>2 DEF EventsInOrder, InPipe
  <2> QED BY <2>1 DEF EventsInOrder
<1>9. OutcomeIsTheAgents'
  BY <1>a, <1>d DEF OutcomeIsTheAgents
<1>10. AgentEndsWithSession'
  BY <1>a, <1>d DEF AgentEndsWithSession, Alive
<1> QED BY <1>1, <1>2, <1>3, <1>4, <1>5, <1>6, <1>7, <1>8, <1>9, <1>10 DEF AgentInv

(* await_response, the lines that end the session included.                *)
LEMMA AwaitResponseKeeps ==
  ASSUME AgentInv, NEW from \in {"await_probe", "await_model"}, NEW good, NEW bad,
         NEW next \in {"set_model", "idle"}, AwaitResponse(from, good, bad, next)
  PROVE  AgentInv'
<1>1. CASE DropSession("error")
  BY <1>1, DropKeeps DEF AwaitResponse
<1> QED BY <1>1, AwaitTakesKeeps DEF AwaitResponse

(* run_agent gets the last event and returns its code.                     *)
LEMMA HandEndsKeeps ==
  ASSUME AgentInv, KeepConfig, caller = "run_agent", NEW e, IsTerminal(e), pc \notin Over,
         e = "Complete0" => said \in {"success", "agent_end"},
         e = "Complete1" => said = "error",
         pc' = "returned", outcome' = Outcome(e), agent' = "dead", stdin' = "closed",
         pending' \in Seq(Events), due' \in Seq(Events), fromAgent' \in Seq(AllLines),
         Len(fromAgent') <= MaxPipe + 1, UNCHANGED <<prompts, toAgent, asked, said, written>>
  PROVE  AgentInv'
<1> USE AgentAssumption DEF AgentInv, KeepConfig
<1>1. TypeOK'
  BY DEF TypeOK, AllLines, Over, Terminal, Outcome
<1>2. SpawnIsFresh'
  BY DEF SpawnIsFresh
<1>3. HandshakeIsQuiet'
  BY DEF HandshakeIsQuiet, Handshake
<1>4. OneTurn'
  BY DEF OneTurn
<1>5. TerminalsAgree'
  BY DEF TerminalsAgree, Over
<1>6. OutcomeIsFinal'
  BY DEF OutcomeIsFinal
<1>7. QuestionsWait'
  BY DEF QuestionsWait, Waiting, QuestionOrAnswerOnItsWay
<1>8. EventsInOrder'
  BY DEF EventsInOrder
<1>9. OutcomeIsTheAgents'
  BY DEF OutcomeIsTheAgents, Outcome, IsTerminal
<1>10. AgentEndsWithSession'
  BY DEF AgentEndsWithSession, Alive
<1> QED BY <1>1, <1>2, <1>3, <1>4, <1>5, <1>6, <1>7, <1>8, <1>9, <1>10 DEF AgentInv

(* next_event hands on a kept event and the session goes on.               *)
LEMMA PendingHandedKeeps ==
  ASSUME AgentInv, KeepConfig, pc = "active", pending # <<>>,
         due' = IF due = <<>> THEN <<>> ELSE Tail(due), pending' = Tail(pending),
         UNCHANGED <<pc, outcome, agent, stdin, prompts, toAgent, fromAgent, asked, said, written>>
  PROVE  AgentInv'
<1> USE AgentAssumption DEF AgentInv, KeepConfig

<1>a. /\ pending \in Seq(Events) /\ pending' \in Seq(Events) /\ Len(pending) \in Nat \ {0}
      /\ Len(pending') = Len(pending) - 1
      /\ \A i \in 1 .. Len(pending') : i + 1 \in 1 .. Len(pending) /\ pending'[i] = pending[i + 1]
  BY HeadTailProperties, EmptySeq DEF TypeOK
<1>1. TypeOK'
  <2>1. due' \in Seq(Events)
    BY HeadTailProperties DEF TypeOK
  <2> QED BY <1>a, <2>1 DEF TypeOK, Over, Terminal
<1>2. SpawnIsFresh'
  BY DEF SpawnIsFresh
<1>3. HandshakeIsQuiet'
  BY DEF HandshakeIsQuiet, Handshake
<1>4. OneTurn'
  BY DEF OneTurn
<1>5. TerminalsAgree'
  BY <1>a DEF TerminalsAgree, Over
<1>6. OutcomeIsFinal'
  BY DEF OutcomeIsFinal
<1>7. QuestionsWait'
  BY DEF QuestionsWait, Waiting, QuestionOrAnswerOnItsWay
<1>8. EventsInOrder'
  <2>1. due = pending \o InPipe(fromAgent)
    BY DEF EventsInOrder, InPipe
  <2>2. InPipe(fromAgent) \in Seq(Events)
    BY InPipeTyped DEF TypeOK, AllLines
  <2>3. due' = pending' \o InPipe(fromAgent)
    BY <1>a, <2>1, <2>2, TailOfConcat
  <2> QED BY <2>3 DEF EventsInOrder, InPipe
<1>9. OutcomeIsTheAgents'
  BY <1>a DEF OutcomeIsTheAgents
<1>10. AgentEndsWithSession'
  BY <1>a DEF AgentEndsWithSession, Alive
<1> QED BY <1>1, <1>2, <1>3, <1>4, <1>5, <1>6, <1>7, <1>8, <1>9, <1>10 DEF AgentInv

(* next_event with a kept event: the session goes on, or run_agent         *)
(* returns.                                                                *)
LEMMA NextPendingKeeps ==
  ASSUME AgentInv, NextPending PROVE AgentInv'
<1>1. CASE caller = "run_agent" /\ IsTerminal(Head(pending))
  <2> DEFINE e == Head(pending)
  <2>1. /\ pc' = "returned" /\ outcome' = Outcome(e) /\ agent' = "dead" /\ stdin' = "closed"
        /\ due' = IF due = <<>> THEN <<>> ELSE Tail(due)
    BY <1>1 DEF NextPending, Hand
  <2>2. pending' \in Seq(Events) /\ due' \in Seq(Events)
    BY <2>1, HeadTailProperties, EmptySeq DEF NextPending, AgentInv, TypeOK
  <2>3. 1 \in 1 .. Len(pending) /\ e = pending[1]
    BY EmptySeq DEF NextPending, AgentInv, TypeOK
  <2>4. /\ e = "Complete0" => said \in {"success", "agent_end"}
        /\ e = "Complete1" => said = "error"
    BY <1>1, <2>3 DEF NextPending, AgentInv, TerminalsAgree, Over
  <2>5. fromAgent' \in Seq(AllLines) /\ Len(fromAgent') <= MaxPipe + 1
    BY DEF NextPending, AgentInv, TypeOK, AllLines
  <2> HIDE DEF e
  <2> QED BY <1>1, <2>1, <2>2, <2>4, <2>5, HandEndsKeeps DEF NextPending, Over, e
<1>2. CASE ~(caller = "run_agent" /\ IsTerminal(Head(pending)))
  BY <1>2, PendingHandedKeeps DEF NextPending, Hand
<1> QED BY <1>1, <1>2

(* next_event on a line without events and without an answer.              *)
LEMMA SilentLineKeeps ==
  ASSUME AgentInv, KeepConfig, pc = "active", fromAgent # <<>>, TakeLine,
         Meaning(Head(fromAgent)) = <<>>, ~Asks(Head(fromAgent)),
         UNCHANGED <<pc, pending, outcome, prompts, toAgent, stdin, agentVars, due>>
  PROVE  AgentInv'
<1> USE AgentAssumption DEF AgentInv, KeepConfig, agentVars

<1>a. /\ fromAgent \in Seq(AllLines) /\ fromAgent' = Tail(fromAgent) /\ fromAgent' \in Seq(AllLines)
      /\ Len(fromAgent) \in Nat \ {0} /\ Len(fromAgent') = Len(fromAgent) - 1
      /\ \A i \in 1 .. Len(fromAgent') : i + 1 \in 1 .. Len(fromAgent) /\ fromAgent'[i] = fromAgent[i + 1]
      /\ Head(fromAgent) = fromAgent[1] /\ Head(fromAgent) \in AllLines
  BY HeadTailProperties DEF TypeOK, AllLines, TakeLine
<1>b. InPipe(fromAgent) = Meaning(Head(fromAgent)) \o InPipe(fromAgent')
  BY <1>a, InPipeHeadTail
<1>c. /\ Meaning(Head(fromAgent)) \in Seq(Events) /\ InPipe(fromAgent') \in Seq(Events)
      /\ InPipe(fromAgent) \in Seq(Events)
  BY <1>a, MeaningTyped, InPipeTyped
<1>1. TypeOK'
  BY <1>a DEF TypeOK, AllLines, Over, Terminal
<1>2. SpawnIsFresh'
  BY <1>a DEF SpawnIsFresh
<1>3. HandshakeIsQuiet'
  BY DEF HandshakeIsQuiet, Handshake
<1>4. OneTurn'
  BY <1>a DEF OneTurn
<1>5. TerminalsAgree'
  BY <1>a DEF TerminalsAgree, Over
<1>6. OutcomeIsFinal'
  BY <1>a DEF OutcomeIsFinal
<1>7. QuestionsWait'
  <2>1. CASE Waiting /\ asked = "late"
    <3>1. QuestionOrAnswerOnItsWay BY <2>1 DEF QuestionsWait
    <3>2. CASE \E i \in 1 .. Len(fromAgent) : Asks(fromAgent[i])
      <4>1. PICK i \in 1 .. Len(fromAgent) : Asks(fromAgent[i]) BY <3>2
      <4>2. \E j \in 1 .. Len(fromAgent') : Asks(fromAgent'[j])
        BY <1>a, <4>1, QuestionSurvives
      <4> QED BY <4>2 DEF QuestionsWait, QuestionOrAnswerOnItsWay
    <3>3. CASE \E i \in 1 .. Len(toAgent) : toAgent[i] \in Answers
      BY <3>3 DEF QuestionsWait, QuestionOrAnswerOnItsWay
    <3> QED BY <3>1, <3>2, <3>3 DEF QuestionOrAnswerOnItsWay
  <2> QED BY <2>1 DEF QuestionsWait, Waiting
<1>8. EventsInOrder'
  <2>1. due = pending \o InPipe(fromAgent)
    BY DEF EventsInOrder, InPipe
  <2>2. InPipe(fromAgent) = InPipe(fromAgent')
    BY <1>b, <1>c, EmptyMeaning
  <2>3. due' = pending' \o InPipe(fromAgent')
    BY <2>1, <2>2
  <2> QED BY <2>3 DEF EventsInOrder, InPipe
<1>9. OutcomeIsTheAgents'
  BY <1>a DEF OutcomeIsTheAgents
<1>10. AgentEndsWithSession'
  BY <1>a DEF AgentEndsWithSession, Alive
<1> QED BY <1>1, <1>2, <1>3, <1>4, <1>5, <1>6, <1>7, <1>8, <1>9, <1>10 DEF AgentInv

(* next_event on a question: the answer is written back.                   *)
LEMMA AnsweredLineKeeps ==
  ASSUME AgentInv, KeepConfig, pc = "active", fromAgent # <<>>, TakeLine,
         Meaning(Head(fromAgent)) = <<>>, NEW answer \in Answers, Send(answer),
         UNCHANGED <<pc, pending, outcome, prompts, stdin, agentVars, due>>
  PROVE  AgentInv'
<1> USE AgentAssumption DEF AgentInv, KeepConfig, agentVars, Answers

<1>a. /\ fromAgent \in Seq(AllLines) /\ fromAgent' = Tail(fromAgent) /\ fromAgent' \in Seq(AllLines)
      /\ Len(fromAgent) \in Nat \ {0} /\ Len(fromAgent') = Len(fromAgent) - 1
      /\ \A i \in 1 .. Len(fromAgent') : i + 1 \in 1 .. Len(fromAgent) /\ fromAgent'[i] = fromAgent[i + 1]
      /\ Head(fromAgent) = fromAgent[1] /\ Head(fromAgent) \in AllLines
  BY HeadTailProperties DEF TypeOK, AllLines, TakeLine
<1>b. InPipe(fromAgent) = Meaning(Head(fromAgent)) \o InPipe(fromAgent')
  BY <1>a, InPipeHeadTail
<1>c. /\ Meaning(Head(fromAgent)) \in Seq(Events) /\ InPipe(fromAgent') \in Seq(Events)
      /\ InPipe(fromAgent) \in Seq(Events)
  BY <1>a, MeaningTyped, InPipeTyped
<1>s. /\ toAgent' = Append(toAgent, answer) /\ Len(toAgent') = Len(toAgent) + 1 /\ Len(toAgent) \in Nat
      /\ \A i \in 1 .. Len(toAgent') :
             toAgent'[i] = IF i <= Len(toAgent) THEN toAgent[i] ELSE answer
  BY DEF TypeOK, Send
<1>1. TypeOK'
  BY <1>a, <1>s DEF TypeOK, AllLines, Over, Terminal
<1>2. SpawnIsFresh'
  BY <1>a, <1>s DEF SpawnIsFresh
<1>3. HandshakeIsQuiet'
  BY DEF HandshakeIsQuiet, Handshake
<1>4. OneTurn'
  BY <1>a, <1>s DEF OneTurn
<1>5. TerminalsAgree'
  BY <1>a, <1>s DEF TerminalsAgree, Over
<1>6. OutcomeIsFinal'
  BY <1>a, <1>s DEF OutcomeIsFinal
<1>7. QuestionsWait'
  <2>1. Len(toAgent') \in 1 .. Len(toAgent') /\ toAgent'[Len(toAgent')] \in Answers
    BY <1>s
  <2> QED BY <2>1 DEF QuestionsWait, QuestionOrAnswerOnItsWay
<1>8. EventsInOrder'
  <2>1. due = pending \o InPipe(fromAgent)
    BY DEF EventsInOrder, InPipe
  <2>2. InPipe(fromAgent) = InPipe(fromAgent')
    BY <1>b, <1>c, EmptyMeaning
  <2>3. due' = pending' \o InPipe(fromAgent')
    BY <2>1, <2>2
  <2> QED BY <2>3 DEF EventsInOrder, InPipe
<1>9. OutcomeIsTheAgents'
  BY <1>a, <1>s DEF OutcomeIsTheAgents
<1>10. AgentEndsWithSession'
  BY <1>a, <1>s DEF AgentEndsWithSession, Alive
<1> QED BY <1>1, <1>2, <1>3, <1>4, <1>5, <1>6, <1>7, <1>8, <1>9, <1>10 DEF AgentInv

(* next_event on a line with events: the first is handed on, the others    *)
(* are kept.                                                               *)
LEMMA EventLineKeeps ==
  ASSUME AgentInv, KeepConfig, pc = "active", fromAgent # <<>>, TakeLine,
         pending = <<>>, Meaning(Head(fromAgent)) # <<>>, ~Asks(Head(fromAgent)),
         due' = IF due = <<>> THEN <<>> ELSE Tail(due), pending' = Tail(Meaning(Head(fromAgent))),
         UNCHANGED <<pc, outcome, agent, stdin, prompts, toAgent, asked, said, written>>
  PROVE  AgentInv'
<1> USE AgentAssumption DEF AgentInv, KeepConfig

<1>a. /\ fromAgent \in Seq(AllLines) /\ fromAgent' = Tail(fromAgent) /\ fromAgent' \in Seq(AllLines)
      /\ Len(fromAgent) \in Nat \ {0} /\ Len(fromAgent') = Len(fromAgent) - 1
      /\ \A i \in 1 .. Len(fromAgent') : i + 1 \in 1 .. Len(fromAgent) /\ fromAgent'[i] = fromAgent[i + 1]
      /\ Head(fromAgent) = fromAgent[1] /\ Head(fromAgent) \in AllLines
  BY HeadTailProperties DEF TypeOK, AllLines, TakeLine
<1>b. InPipe(fromAgent) = Meaning(Head(fromAgent)) \o InPipe(fromAgent')
  BY <1>a, InPipeHeadTail
<1>c. /\ Meaning(Head(fromAgent)) \in Seq(Events) /\ InPipe(fromAgent') \in Seq(Events)
      /\ InPipe(fromAgent) \in Seq(Events)
  BY <1>a, MeaningTyped, InPipeTyped
<1>d. /\ pending' \in Seq(Events)
      /\ \A i \in 1 .. Len(pending') : /\ i + 1 \in 1 .. Len(Meaning(Head(fromAgent)))
                                      /\ pending'[i] = Meaning(Head(fromAgent))[i + 1]
  <2> DEFINE m == Meaning(Head(fromAgent))
  <2>1. m \in Seq(Events) /\ m # <<>> /\ pending' = Tail(m)
    BY <1>c
  <2> HIDE DEF m
  <2>2. Len(m) \in Nat \ {0}
    BY <2>1, EmptySeq
  <2>3. /\ pending' \in Seq(Events) /\ Len(pending') = Len(m) - 1
        /\ \A i \in 1 .. Len(pending') : pending'[i] = m[i + 1]
    BY <2>1, HeadTailProperties
  <2>4. \A i \in 1 .. Len(pending') : i + 1 \in 1 .. Len(m)
    BY <2>2, <2>3
  <2> QED BY <2>3, <2>4 DEF m
<1>1. TypeOK'
  <2>1. due' \in Seq(Events)
    BY HeadTailProperties DEF TypeOK
  <2> QED BY <1>a, <1>d, <2>1 DEF TypeOK, AllLines, Over, Terminal
<1>2. SpawnIsFresh'
  BY DEF SpawnIsFresh
<1>3. HandshakeIsQuiet'
  BY DEF HandshakeIsQuiet, Handshake
<1>4. OneTurn'
  BY DEF OneTurn
<1>5. TerminalsAgree'
  <2>1. CASE caller = "run_agent"
    <3>1. \A i \in 1 .. Len(fromAgent) : fromAgent[i] \in Terminal => said = fromAgent[i]
      BY <2>1 DEF TerminalsAgree, Over
    <3>2. Head(fromAgent) \in Terminal => said = Head(fromAgent)
      BY <1>a, <3>1
    <3>3. \A i \in 1 .. Len(fromAgent') : fromAgent'[i] \in Terminal => said = fromAgent'[i]
      BY <1>a, <3>1
    <3>4. ASSUME NEW i \in 1 .. Len(pending')
          PROVE  /\ pending'[i] = "Complete0" => said \in {"success", "agent_end"}
                 /\ pending'[i] = "Complete1" => said = "error"
      BY <1>d, <3>2, MeaningTerminals DEF Terminal
    <3> QED BY <3>3, <3>4 DEF TerminalsAgree
  <2> QED BY <2>1 DEF TerminalsAgree
<1>6. OutcomeIsFinal'
  BY <1>a DEF OutcomeIsFinal
<1>7. QuestionsWait'
  <2>1. CASE Waiting /\ asked = "late"
    <3>1. QuestionOrAnswerOnItsWay BY <2>1 DEF QuestionsWait
    <3>2. CASE \E i \in 1 .. Len(fromAgent) : Asks(fromAgent[i])
      <4>1. PICK i \in 1 .. Len(fromAgent) : Asks(fromAgent[i]) BY <3>2
      <4>2. \E j \in 1 .. Len(fromAgent') : Asks(fromAgent'[j])
        BY <1>a, <4>1, QuestionSurvives
      <4> QED BY <4>2 DEF QuestionsWait, QuestionOrAnswerOnItsWay
    <3>3. CASE \E i \in 1 .. Len(toAgent) : toAgent[i] \in Answers
      BY <3>3 DEF QuestionsWait, QuestionOrAnswerOnItsWay
    <3> QED BY <3>1, <3>2, <3>3 DEF QuestionOrAnswerOnItsWay
  <2> QED BY <2>1 DEF QuestionsWait, Waiting
<1>8. EventsInOrder'
  <2> DEFINE m == Meaning(Head(fromAgent))
             r == InPipe(fromAgent')
  <2>1. due = <<>> \o InPipe(fromAgent)
    BY DEF EventsInOrder, InPipe
  <2>2. due = m \o r
    BY <1>b, <1>c, <2>1, EmptySeq, EmptyMeaning
  <2>3. m \in Seq(Events) /\ r \in Seq(Events) /\ m # <<>>
    BY <1>c
  <2>4. pending' = Tail(m) /\ due' = IF due = <<>> THEN <<>> ELSE Tail(due)
    OBVIOUS
  <2> HIDE DEF m, r
  <2>5. due' = pending' \o r
    BY <2>2, <2>3, <2>4, TailOfConcat
  <2> QED BY <2>5 DEF EventsInOrder, InPipe, r
<1>9. OutcomeIsTheAgents'
  BY <1>a DEF OutcomeIsTheAgents
<1>10. AgentEndsWithSession'
  BY <1>a DEF AgentEndsWithSession, Alive
<1> QED BY <1>1, <1>2, <1>3, <1>4, <1>5, <1>6, <1>7, <1>8, <1>9, <1>10 DEF AgentInv

(* next_event on a line of any kind.                                       *)
LEMMA NextLineKeeps ==
  ASSUME AgentInv, NextLine PROVE AgentInv'
<1> DEFINE line == Head(fromAgent)
           parsed == ParseLine(backend, line)
           ends == caller = "run_agent" /\ IsTerminal(Head(parsed.events))
<1>1. /\ KeepConfig /\ pc = "active" /\ pending = <<>> /\ fromAgent # <<>>
      /\ fromAgent \in Seq(AllLines) /\ line \in AllLines /\ line = fromAgent[1]
      /\ 1 \in 1 .. Len(fromAgent) /\ Tail(fromAgent) \in Seq(AllLines)
      /\ Len(Tail(fromAgent)) <= MaxPipe + 1 /\ due \in Seq(Events)
  BY HeadTailProperties, EmptySeq, AgentAssumption
  DEF NextLine, AgentInv, TypeOK, AllLines
<1>2. CASE DropSession("error")
  BY <1>1, <1>2, DropKeeps
<1>3. CASE /\ ReaderSkips(line) /\ TakeLine
           /\ UNCHANGED <<pc, pending, outcome, prompts, toAgent, stdin>> /\ KeepAgent
  <2>1. Meaning(line) = <<>> /\ ~Asks(line)
    BY <1>3 DEF ReaderSkips, Meaning, Asks
  <2> HIDE DEF line, parsed, ends
  <2> QED BY <1>1, <1>3, <2>1, SilentLineKeeps DEF KeepAgent, agentVars, line
<1>4. CASE /\ parsed.ok /\ TakeLine /\ WriteBack(parsed.answer)
           /\ UNCHANGED <<prompts, asked, said, written>>
           /\ \/ parsed.events = <<>> /\ UNCHANGED <<pc, pending, outcome, stdin, agent, due>>
              \/ parsed.events # <<>> /\ Hand(Head(parsed.events)) /\ pending' = KeepRest(parsed.events)
  <2>1. /\ parsed.events = Meaning(line) /\ parsed.answer \in Answers \cup {NoAnswer}
        /\ Asks(line) => parsed.answer \in Answers
        /\ parsed.events # <<>> => parsed.answer = NoAnswer
    BY <1>1, <1>4, ParsedMeaning, ParsedQuestion
  <2>2. NoAnswer \notin Answers
    BY DEF NoAnswer, Answers
  <2>3. CASE parsed.events = <<>>
    <3>0. UNCHANGED <<pc, pending, outcome, stdin, agent, due>>
      BY <1>4, <2>3
    <3>1. CASE parsed.answer = NoAnswer
      <4>1. UNCHANGED toAgent
        BY <1>4, <3>1 DEF WriteBack
      <4>2. ~Asks(line) /\ Meaning(line) = <<>>
        BY <2>1, <2>2, <2>3, <3>1
      <4> HIDE DEF line, parsed, ends
      <4> QED BY <1>1, <1>4, <3>0, <4>1, <4>2, SilentLineKeeps DEF agentVars, line
    <3>2. CASE parsed.answer \in Answers
      <4>1. Send(parsed.answer) /\ Meaning(line) = <<>>
        BY <1>4, <2>1, <2>2, <2>3, <3>2 DEF WriteBack
      <4> HIDE DEF parsed, line, ends
      <4> QED BY <1>1, <1>4, <3>0, <3>2, <4>1, AnsweredLineKeeps DEF agentVars, line
    <3> QED BY <2>1, <3>1, <3>2
  <2>4. CASE parsed.events # <<>>
    <3>1. /\ UNCHANGED toAgent /\ ~Asks(line) /\ Meaning(line) # <<>>
          /\ Hand(Head(Meaning(line))) /\ pending' = Tail(Meaning(line))
          /\ Meaning(line) \in Seq(Events)
      BY <1>4, <2>1, <2>2, <2>4, MeaningTyped DEF WriteBack, KeepRest
    <3>2. CASE ends
      <4> DEFINE e == Head(Meaning(line))
      <4>1. /\ pc' = "returned" /\ outcome' = Outcome(e) /\ agent' = "dead" /\ stdin' = "closed"
            /\ IsTerminal(e) /\ caller = "run_agent"
            /\ due' = IF due = <<>> THEN <<>> ELSE Tail(due)
        BY <2>1, <3>1, <3>2 DEF Hand
      <4>2. pending' \in Seq(Events) /\ due' \in Seq(Events)
        BY <1>1, <3>1, <4>1, HeadTailProperties, EmptySeq
      <4>3. 1 \in 1 .. Len(Meaning(line)) /\ e = Meaning(line)[1]
        <5> HIDE DEF line
        <5> QED BY <3>1, EmptySeq
      <4>4. line \in Terminal => said = line
        BY <1>1, <4>1 DEF AgentInv, TerminalsAgree, Over
      <4>5. /\ e = "Complete0" => said \in {"success", "agent_end"}
            /\ e = "Complete1" => said = "error"
        <5> HIDE DEF line
        <5> QED BY <4>3, <4>4, MeaningTerminals DEF Terminal
      <4>6. fromAgent' \in Seq(AllLines) /\ Len(fromAgent') <= MaxPipe + 1
        BY <1>1, <1>4 DEF TakeLine
      <4> HIDE DEF e, line, parsed, ends
      <4> QED BY <1>1, <1>4, <3>1, <4>1, <4>2, <4>5, <4>6, HandEndsKeeps DEF Over
    <3>3. CASE ~ends
      <4>1. /\ UNCHANGED <<pc, outcome, agent, stdin>>
            /\ due' = IF due = <<>> THEN <<>> ELSE Tail(due)
        BY <2>1, <3>1, <3>3 DEF Hand
      <4> HIDE DEF parsed, line, ends
      <4> QED BY <1>1, <1>4, <3>1, <4>1, EventLineKeeps DEF line
    <3> QED BY <3>2, <3>3
  <2> QED BY <2>3, <2>4
<1>5. \/ DropSession("error")
      \/ /\ ReaderSkips(line) /\ TakeLine
         /\ UNCHANGED <<pc, pending, outcome, prompts, toAgent, stdin>> /\ KeepAgent
      \/ /\ parsed.ok /\ TakeLine /\ WriteBack(parsed.answer)
         /\ UNCHANGED <<prompts, asked, said, written>>
         /\ \/ parsed.events = <<>> /\ UNCHANGED <<pc, pending, outcome, stdin, agent, due>>
            \/ parsed.events # <<>> /\ Hand(Head(parsed.events)) /\ pending' = KeepRest(parsed.events)
  BY Zenon DEF NextLine
<1> QED BY <1>2, <1>3, <1>4, <1>5

(* abort of the pi backend: the command is written, the kept events are    *)
(* dropped.                                                                *)
LEMMA AbortedKeeps ==
  ASSUME AgentInv, KeepConfig, caller = "other", pc = "active", pc' = "idle", pending' = <<>>,
         due' = SubSeq(due, Len(pending) + 1, Len(due)), Send("abort"),
         UNCHANGED <<outcome, prompts, fromAgent, stdin, agentVars>>
  PROVE  AgentInv'
<1> USE AgentAssumption DEF AgentInv, KeepConfig, agentVars

<1>s. /\ toAgent' = Append(toAgent, "abort") /\ Len(toAgent') = Len(toAgent) + 1 /\ Len(toAgent) \in Nat
      /\ \A i \in 1 .. Len(toAgent') :
             toAgent'[i] = IF i <= Len(toAgent) THEN toAgent[i] ELSE "abort"
  BY DEF TypeOK, Send
<1>1. TypeOK'
  <2>1. due' \in Seq(Events)
    <3>1. due \in Seq(Events) /\ Len(due) \in Nat /\ Len(pending) \in Nat
      BY DEF TypeOK
    <3>2. \A i \in Len(pending) + 1 .. Len(due) : due[i] \in Events
      BY <3>1, ElementOfSeq
    <3> QED BY <3>1, <3>2, SubSeqProperties
  <2> QED BY <1>s, <2>1 DEF TypeOK, Over, Terminal
<1>2. SpawnIsFresh'
  BY <1>s DEF SpawnIsFresh
<1>3. HandshakeIsQuiet'
  BY <1>s DEF HandshakeIsQuiet, Handshake
<1>4. OneTurn'
  BY <1>s DEF OneTurn
<1>5. TerminalsAgree'
  BY <1>s DEF TerminalsAgree, Over
<1>6. OutcomeIsFinal'
  BY <1>s DEF OutcomeIsFinal
<1>7. QuestionsWait'
  <2>1. CASE Waiting /\ asked = "late"
    <3>1. QuestionOrAnswerOnItsWay BY <2>1 DEF QuestionsWait
    <3>2. CASE \E i \in 1 .. Len(fromAgent) : Asks(fromAgent[i])
      BY <3>2 DEF QuestionsWait, QuestionOrAnswerOnItsWay
    <3>3. CASE \E i \in 1 .. Len(toAgent) : toAgent[i] \in Answers
      <4>1. PICK i \in 1 .. Len(toAgent) : toAgent[i] \in Answers BY <3>3
      <4>2. i \in 1 .. Len(toAgent') /\ toAgent'[i] \in Answers BY <1>s, <4>1
      <4> QED BY <4>2 DEF QuestionsWait, QuestionOrAnswerOnItsWay
    <3> QED BY <3>1, <3>2, <3>3 DEF QuestionOrAnswerOnItsWay
  <2> QED BY <2>1 DEF QuestionsWait, Waiting
<1>8. EventsInOrder'
  <2>1. due = pending \o InPipe(fromAgent) /\ pending \in Seq(Events)
    BY DEF EventsInOrder, InPipe, TypeOK
  <2>2. InPipe(fromAgent) \in Seq(Events)
    BY InPipeTyped DEF TypeOK, AllLines
  <2>3. due' = InPipe(fromAgent)
    BY <2>1, <2>2, DropPending
  <2>4. due' = pending' \o InPipe(fromAgent)
    BY <2>2, <2>3, EmptySeq, EmptyMeaning
  <2> QED BY <2>4 DEF EventsInOrder, InPipe
<1>9. OutcomeIsTheAgents'
  BY <1>s DEF OutcomeIsTheAgents
<1>10. AgentEndsWithSession'
  BY <1>s DEF AgentEndsWithSession, Alive
<1> QED BY <1>1, <1>2, <1>3, <1>4, <1>5, <1>6, <1>7, <1>8, <1>9, <1>10 DEF AgentInv

(* abort of the claude backend: there is no command, the kept events are   *)
(* dropped.                                                                *)
LEMMA SilentAbortKeeps ==
  ASSUME AgentInv, KeepConfig, caller = "other", pc = "active", pc' = "idle", pending' = <<>>,
         due' = SubSeq(due, Len(pending) + 1, Len(due)), UNCHANGED toAgent,
         UNCHANGED <<outcome, prompts, fromAgent, stdin, agentVars>>
  PROVE  AgentInv'
<1> USE AgentAssumption DEF AgentInv, KeepConfig, agentVars
<1>1. TypeOK'
  <2>1. due' \in Seq(Events)
    <3>1. due \in Seq(Events) /\ Len(due) \in Nat /\ Len(pending) \in Nat
      BY DEF TypeOK
    <3>2. \A i \in Len(pending) + 1 .. Len(due) : due[i] \in Events
      BY <3>1, ElementOfSeq
    <3> QED BY <3>1, <3>2, SubSeqProperties
  <2> QED BY <2>1 DEF TypeOK, Over, Terminal
<1>2. SpawnIsFresh'
  BY DEF SpawnIsFresh
<1>3. HandshakeIsQuiet'
  BY DEF HandshakeIsQuiet, Handshake
<1>4. OneTurn'
  BY DEF OneTurn
<1>5. TerminalsAgree'
  BY DEF TerminalsAgree, Over
<1>6. OutcomeIsFinal'
  BY DEF OutcomeIsFinal
<1>7. QuestionsWait'
  BY DEF QuestionsWait, Waiting, QuestionOrAnswerOnItsWay
<1>8. EventsInOrder'
  <2>1. due = pending \o InPipe(fromAgent) /\ pending \in Seq(Events)
    BY DEF EventsInOrder, InPipe, TypeOK
  <2>2. InPipe(fromAgent) \in Seq(Events)
    BY InPipeTyped DEF TypeOK, AllLines
  <2>3. due' = InPipe(fromAgent)
    BY <2>1, <2>2, DropPending
  <2>4. due' = pending' \o InPipe(fromAgent)
    BY <2>2, <2>3, EmptySeq, EmptyMeaning
  <2> QED BY <2>4 DEF EventsInOrder, InPipe
<1>9. OutcomeIsTheAgents'
  BY DEF OutcomeIsTheAgents
<1>10. AgentEndsWithSession'
  BY DEF AgentEndsWithSession, Alive
<1> QED BY <1>1, <1>2, <1>3, <1>4, <1>5, <1>6, <1>7, <1>8, <1>9, <1>10 DEF AgentInv

(* abort, whether the command can be written or not.                       *)
LEMMA AbortKeeps ==
  ASSUME AgentInv, Abort PROVE AgentInv'
<1>1. CASE DropSession("error")
  BY <1>1, DropKeeps DEF Abort
<1>2. CASE ~DropSession("error")
  <2>1. CASE backend = "pi"
    <3>1. Send("abort")
      BY <1>2, <2>1 DEF Abort, EncodeAbort
    <3> QED BY <1>2, <3>1, AbortedKeeps DEF Abort
  <2>2. CASE backend # "pi"
    <3>1. UNCHANGED toAgent
      BY <1>2, <2>2 DEF Abort, EncodeAbort
    <3> QED BY <1>2, <3>1, SilentAbortKeeps DEF Abort
  <2> QED BY <2>1, <2>2
<1> QED BY <1>1, <1>2

(***************************************************************************)
(* Steps of the agent                                                      *)
(***************************************************************************)
(* A line written: the pipe gets it and the caller is due its events after *)
(* all others.                                                             *)
LEMMA WriteFacts ==
  ASSUME AgentInv, NEW line \in AllLines, Write(line), Len(fromAgent) < MaxPipe,
         UNCHANGED <<pc, pending>>
  PROVE  /\ fromAgent' \in Seq(AllLines) /\ Len(fromAgent') = Len(fromAgent) + 1
         /\ Len(fromAgent) \in Nat /\ Len(fromAgent') <= MaxPipe + 1
         /\ \A i \in 1 .. Len(fromAgent') :
                fromAgent'[i] = IF i <= Len(fromAgent) THEN fromAgent[i] ELSE line
         /\ due' \in Seq(Events)
         /\ Meaning(line) = <<>> => InPipe(fromAgent') = InPipe(fromAgent)
         /\ EventsInOrder'
<1>1. /\ fromAgent \in Seq(AllLines) /\ fromAgent' = Append(fromAgent, line) /\ due \in Seq(Events)
      /\ pending \in Seq(Events) /\ Meaning(line) \in Seq(Events) /\ due' = due \o Meaning(line)
  BY MeaningTyped DEF AgentInv, TypeOK, AllLines, Write
<1>2. InPipe(fromAgent) \in Seq(Events) /\ InPipe(fromAgent') = InPipe(fromAgent) \o Meaning(line)
  BY <1>1, InPipeTyped, InPipeAppend
<1>3. due' \in Seq(Events)
  BY <1>1, ConcatProperties
<1>4. Meaning(line) = <<>> => InPipe(fromAgent') = InPipe(fromAgent)
  BY <1>2, ConcatEmptySeq
<1>5. ASSUME pc \in {"idle", "active"}
      PROVE  due' = pending \o InPipe(fromAgent')
  <2>1. due = pending \o InPipe(fromAgent)
    BY <1>5 DEF AgentInv, EventsInOrder, InPipe
  <2>2. (pending \o InPipe(fromAgent)) \o Meaning(line) = pending \o (InPipe(fromAgent) \o Meaning(line))
    BY <1>1, <1>2, ConcatAssociative
  <2> QED BY <1>1, <1>2, <2>1, <2>2
<1>6. EventsInOrder'
  BY <1>5 DEF EventsInOrder, InPipe
<1>7. /\ fromAgent' \in Seq(AllLines) /\ Len(fromAgent') = Len(fromAgent) + 1
      /\ Len(fromAgent) \in Nat
      /\ \A i \in 1 .. Len(fromAgent') :
             fromAgent'[i] = IF i <= Len(fromAgent) THEN fromAgent[i] ELSE line
  BY <1>1
<1>8. Len(fromAgent') <= MaxPipe + 1
  BY <1>7, AgentAssumption
<1> QED BY <1>3, <1>4, <1>6, <1>7, <1>8

(* The lines the agent answers commands with are lines.                    *)
LEMMA PiLineIsLine == PiResponses \subseteq AllLines /\ "agent_end" \in AllLines
BY DEF AllLines, PiLines, PiResponses, PiEvents

(* A response of pi is no event and no last line.                          *)
LEMMA ResponseMeansNothing ==
  ASSUME NEW line \in PiResponses
  PROVE  Meaning(line) = <<>> /\ line \notin Terminal
BY DEF PiResponses, Meaning, Terminal

(* The agent answers a command of the handshake.                           *)
LEMMA RespondKeeps ==
  ASSUME AgentInv, toAgent # <<>>, toAgent' = Tail(toAgent), agent \in {"listening", "working"},
         KeepLoom, UNCHANGED <<asked, written>>,
         NEW line \in PiResponses, Write(line), Len(fromAgent) < MaxPipe, UNCHANGED <<agent, said>>
  PROVE  AgentInv'
<1> USE AgentAssumption DEF AgentInv, KeepConfig, KeepLoom, loomVars

<1>t. /\ toAgent \in Seq(Commands) /\ toAgent' \in Seq(Commands)
      /\ Len(toAgent) \in Nat \ {0} /\ Len(toAgent') = Len(toAgent) - 1
      /\ \A i \in 1 .. Len(toAgent') : i + 1 \in 1 .. Len(toAgent) /\ toAgent'[i] = toAgent[i + 1]
      /\ Head(toAgent) = toAgent[1] /\ 1 \in 1 .. Len(toAgent)
  BY HeadTailProperties DEF TypeOK, Commands
<1>o. outcome = "none"
  BY DEF OutcomeIsFinal, AgentEndsWithSession, Alive
<1>w. /\ fromAgent' \in Seq(AllLines) /\ Len(fromAgent') = Len(fromAgent) + 1
      /\ Len(fromAgent) \in Nat /\ Len(fromAgent') <= MaxPipe + 1
      /\ \A i \in 1 .. Len(fromAgent') :
             fromAgent'[i] = IF i <= Len(fromAgent) THEN fromAgent[i] ELSE line
      /\ due' \in Seq(Events)
      /\ Meaning(line) = <<>> => InPipe(fromAgent') = InPipe(fromAgent)
      /\ EventsInOrder'
  BY WriteFacts, PiLineIsLine
<1>1. TypeOK'
  BY <1>t, <1>w DEF TypeOK, Commands, AllLines, Over, Terminal
<1>2. SpawnIsFresh'
  BY <1>t, <1>o, <1>w, ResponseMeansNothing DEF SpawnIsFresh
<1>3. HandshakeIsQuiet'
  BY <1>t, <1>o, <1>w, ResponseMeansNothing DEF HandshakeIsQuiet, Handshake
<1>4. OneTurn'
  BY <1>t, <1>o, <1>w, ResponseMeansNothing DEF OneTurn
<1>5. TerminalsAgree'
  BY <1>t, <1>o, <1>w, ResponseMeansNothing DEF TerminalsAgree, Over
<1>6. OutcomeIsFinal'
  BY <1>t, <1>o, <1>w, ResponseMeansNothing DEF OutcomeIsFinal
<1>7. QuestionsWait'
  BY <1>t, <1>o, <1>w, ResponseMeansNothing DEF QuestionsWait, Waiting,
         QuestionOrAnswerOnItsWay
<1>8. EventsInOrder'
  BY <1>w
<1>9. OutcomeIsTheAgents'
  BY <1>t, <1>o, <1>w, ResponseMeansNothing DEF OutcomeIsTheAgents
<1>10. AgentEndsWithSession'
  BY <1>t, <1>o, <1>w, ResponseMeansNothing DEF AgentEndsWithSession, Alive
<1> QED BY <1>1, <1>2, <1>3, <1>4, <1>5, <1>6, <1>7, <1>8, <1>9, <1>10 DEF AgentInv

(* The agent takes a command that it answers nothing to.                   *)
LEMMA SkipKeeps ==
  ASSUME AgentInv, toAgent # <<>>, toAgent' = Tail(toAgent), agent \in {"listening", "working"},
         KeepLoom, UNCHANGED <<asked, written>>,
         WriteNothing, agent' \in {agent, "listening"}, UNCHANGED said
  PROVE  AgentInv'
<1> USE AgentAssumption DEF AgentInv, KeepConfig, KeepLoom, loomVars, WriteNothing

<1>t. /\ toAgent \in Seq(Commands) /\ toAgent' \in Seq(Commands)
      /\ Len(toAgent) \in Nat \ {0} /\ Len(toAgent') = Len(toAgent) - 1
      /\ \A i \in 1 .. Len(toAgent') : i + 1 \in 1 .. Len(toAgent) /\ toAgent'[i] = toAgent[i + 1]
      /\ Head(toAgent) = toAgent[1] /\ 1 \in 1 .. Len(toAgent)
  BY HeadTailProperties DEF TypeOK, Commands
<1>o. outcome = "none"
  BY DEF OutcomeIsFinal, AgentEndsWithSession, Alive
<1>1. TypeOK'
  BY <1>t DEF TypeOK, Commands, AllLines, Over, Terminal
<1>2. SpawnIsFresh'
  BY <1>t, <1>o DEF SpawnIsFresh
<1>3. HandshakeIsQuiet'
  BY <1>t, <1>o DEF HandshakeIsQuiet, Handshake
<1>4. OneTurn'
  BY <1>t, <1>o DEF OneTurn
<1>5. TerminalsAgree'
  BY <1>t, <1>o DEF TerminalsAgree, Over
<1>6. OutcomeIsFinal'
  BY <1>t, <1>o DEF OutcomeIsFinal
<1>7. QuestionsWait'
  BY <1>t, <1>o DEF QuestionsWait, Waiting, QuestionOrAnswerOnItsWay
<1>8. EventsInOrder'
  BY <1>t, <1>o DEF EventsInOrder
<1>9. OutcomeIsTheAgents'
  BY <1>t, <1>o DEF OutcomeIsTheAgents
<1>10. AgentEndsWithSession'
  BY <1>t, <1>o DEF AgentEndsWithSession, Alive
<1> QED BY <1>1, <1>2, <1>3, <1>4, <1>5, <1>6, <1>7, <1>8, <1>9, <1>10 DEF AgentInv

(* The agent takes the prompt and begins its turn.                         *)
LEMMA TakePromptKeeps ==
  ASSUME AgentInv, toAgent # <<>>, toAgent' = Tail(toAgent), agent \in {"listening", "working"},
         KeepLoom, UNCHANGED <<asked, written>>,
         Head(toAgent) = "prompt", WriteNothing, agent' = "working", said' = "none"
  PROVE  AgentInv'
<1> USE AgentAssumption DEF AgentInv, KeepConfig, KeepLoom, loomVars, WriteNothing

<1>t. /\ toAgent \in Seq(Commands) /\ toAgent' \in Seq(Commands)
      /\ Len(toAgent) \in Nat \ {0} /\ Len(toAgent') = Len(toAgent) - 1
      /\ \A i \in 1 .. Len(toAgent') : i + 1 \in 1 .. Len(toAgent) /\ toAgent'[i] = toAgent[i + 1]
      /\ Head(toAgent) = toAgent[1] /\ 1 \in 1 .. Len(toAgent)
  BY HeadTailProperties DEF TypeOK, Commands
<1>o. outcome = "none"
  BY DEF OutcomeIsFinal, AgentEndsWithSession, Alive
<1>1. TypeOK'
  BY <1>t DEF TypeOK, Commands, AllLines, Over, Terminal
<1>2. SpawnIsFresh'
  BY <1>t, <1>o DEF SpawnIsFresh
<1>3. HandshakeIsQuiet'
  BY <1>t, <1>o DEF HandshakeIsQuiet, Handshake
<1>4. OneTurn'
  BY <1>t, <1>o DEF OneTurn
<1>5. TerminalsAgree'
  BY <1>t, <1>o DEF TerminalsAgree, Over, OneTurn
<1>6. OutcomeIsFinal'
  BY <1>t, <1>o DEF OutcomeIsFinal
<1>7. QuestionsWait'
  BY <1>t, <1>o DEF QuestionsWait, Waiting, QuestionOrAnswerOnItsWay
<1>8. EventsInOrder'
  BY <1>t, <1>o DEF EventsInOrder
<1>9. OutcomeIsTheAgents'
  BY <1>t, <1>o DEF OutcomeIsTheAgents
<1>10. AgentEndsWithSession'
  BY <1>t, <1>o DEF AgentEndsWithSession, Alive
<1> QED BY <1>1, <1>2, <1>3, <1>4, <1>5, <1>6, <1>7, <1>8, <1>9, <1>10 DEF AgentInv

(* The agent takes the prompt and acknowledges or refuses it.              *)
LEMMA AnswerPromptKeeps ==
  ASSUME AgentInv, toAgent # <<>>, toAgent' = Tail(toAgent), agent \in {"listening", "working"},
         KeepLoom, UNCHANGED <<asked, written>>,
         Head(toAgent) = "prompt", NEW line \in PiResponses, Write(line), Len(fromAgent) < MaxPipe,
         agent' \in {"working", "silent"}, said' = "none"
  PROVE  AgentInv'
<1> USE AgentAssumption DEF AgentInv, KeepConfig, KeepLoom, loomVars

<1>t. /\ toAgent \in Seq(Commands) /\ toAgent' \in Seq(Commands)
      /\ Len(toAgent) \in Nat \ {0} /\ Len(toAgent') = Len(toAgent) - 1
      /\ \A i \in 1 .. Len(toAgent') : i + 1 \in 1 .. Len(toAgent) /\ toAgent'[i] = toAgent[i + 1]
      /\ Head(toAgent) = toAgent[1] /\ 1 \in 1 .. Len(toAgent)
  BY HeadTailProperties DEF TypeOK, Commands
<1>o. outcome = "none"
  BY DEF OutcomeIsFinal, AgentEndsWithSession, Alive
<1>w. /\ fromAgent' \in Seq(AllLines) /\ Len(fromAgent') = Len(fromAgent) + 1
      /\ Len(fromAgent) \in Nat /\ Len(fromAgent') <= MaxPipe + 1
      /\ \A i \in 1 .. Len(fromAgent') :
             fromAgent'[i] = IF i <= Len(fromAgent) THEN fromAgent[i] ELSE line
      /\ due' \in Seq(Events)
      /\ Meaning(line) = <<>> => InPipe(fromAgent') = InPipe(fromAgent)
      /\ EventsInOrder'
  BY WriteFacts, PiLineIsLine
<1>1. TypeOK'
  BY <1>t, <1>w DEF TypeOK, Commands, AllLines, Over, Terminal
<1>2. SpawnIsFresh'
  BY <1>t, <1>o, <1>w, ResponseMeansNothing DEF SpawnIsFresh
<1>3. HandshakeIsQuiet'
  BY <1>t, <1>o, <1>w, ResponseMeansNothing DEF HandshakeIsQuiet, Handshake
<1>4. OneTurn'
  BY <1>t, <1>o, <1>w, ResponseMeansNothing DEF OneTurn
<1>5. TerminalsAgree'
  <2>1. caller = "run_agent" => UNCHANGED said
    BY <1>t DEF OneTurn
  <2> QED BY <1>w, <2>1, ResponseMeansNothing DEF TerminalsAgree, Over
<1>6. OutcomeIsFinal'
  BY <1>t, <1>o, <1>w, ResponseMeansNothing DEF OutcomeIsFinal
<1>7. QuestionsWait'
  BY <1>t, <1>o, <1>w, ResponseMeansNothing DEF QuestionsWait, Waiting,
         QuestionOrAnswerOnItsWay
<1>8. EventsInOrder'
  BY <1>w
<1>9. OutcomeIsTheAgents'
  BY <1>t, <1>o, <1>w, ResponseMeansNothing DEF OutcomeIsTheAgents
<1>10. AgentEndsWithSession'
  BY <1>t, <1>o, <1>w, ResponseMeansNothing DEF AgentEndsWithSession, Alive
<1> QED BY <1>1, <1>2, <1>3, <1>4, <1>5, <1>6, <1>7, <1>8, <1>9, <1>10 DEF AgentInv

(* The agent takes an abort while it works and ends its turn.              *)
LEMMA TakeAbortKeeps ==
  ASSUME AgentInv, toAgent # <<>>, toAgent' = Tail(toAgent), agent \in {"listening", "working"},
         KeepLoom, UNCHANGED <<asked, written>>,
         Head(toAgent) = "abort", agent = "working", NEW line, line = "agent_end", Write(line),
         Len(fromAgent) < MaxPipe, agent' = "listening", said' = "agent_end"
  PROVE  AgentInv'
<1> USE AgentAssumption DEF AgentInv, KeepConfig, KeepLoom, loomVars

<1>t. /\ toAgent \in Seq(Commands) /\ toAgent' \in Seq(Commands)
      /\ Len(toAgent) \in Nat \ {0} /\ Len(toAgent') = Len(toAgent) - 1
      /\ \A i \in 1 .. Len(toAgent') : i + 1 \in 1 .. Len(toAgent) /\ toAgent'[i] = toAgent[i + 1]
      /\ Head(toAgent) = toAgent[1] /\ 1 \in 1 .. Len(toAgent)
  BY HeadTailProperties DEF TypeOK, Commands
<1>o. outcome = "none"
  BY DEF OutcomeIsFinal, AgentEndsWithSession, Alive
<1>w. /\ fromAgent' \in Seq(AllLines) /\ Len(fromAgent') = Len(fromAgent) + 1
      /\ Len(fromAgent) \in Nat /\ Len(fromAgent') <= MaxPipe + 1
      /\ \A i \in 1 .. Len(fromAgent') :
             fromAgent'[i] = IF i <= Len(fromAgent) THEN fromAgent[i] ELSE line
      /\ due' \in Seq(Events)
      /\ Meaning(line) = <<>> => InPipe(fromAgent') = InPipe(fromAgent)
      /\ EventsInOrder'
  BY WriteFacts, PiLineIsLine
<1>1. TypeOK'
  BY <1>t, <1>w DEF TypeOK, Commands, AllLines, Over, Terminal
<1>2. SpawnIsFresh'
  BY <1>t, <1>o, <1>w DEF SpawnIsFresh
<1>3. HandshakeIsQuiet'
  BY <1>t, <1>o, <1>w DEF HandshakeIsQuiet, Handshake
<1>4. OneTurn'
  BY <1>t, <1>o, <1>w DEF OneTurn
<1>5. TerminalsAgree'
  BY <1>t, <1>o, <1>w DEF TerminalsAgree, Over, OneTurn
<1>6. OutcomeIsFinal'
  BY <1>t, <1>o, <1>w DEF OutcomeIsFinal
<1>7. QuestionsWait'
  BY <1>t, <1>o, <1>w DEF QuestionsWait, Waiting, QuestionOrAnswerOnItsWay
<1>8. EventsInOrder'
  BY <1>w
<1>9. OutcomeIsTheAgents'
  BY <1>t, <1>o, <1>w DEF OutcomeIsTheAgents
<1>10. AgentEndsWithSession'
  BY <1>t, <1>o, <1>w DEF AgentEndsWithSession, Alive
<1> QED BY <1>1, <1>2, <1>3, <1>4, <1>5, <1>6, <1>7, <1>8, <1>9, <1>10 DEF AgentInv

(* The agent takes a command of any kind.                                  *)
LEMMA AgentReadsKeeps ==
  ASSUME AgentInv, AgentReads PROVE AgentInv'
<1>1. CASE Head(toAgent) \in {"get_commands", "set_model"}
  <2>1. UNCHANGED <<agent, said>> /\ \E r \in PiResponses : Write(r)
    BY <1>1 DEF AgentReads, PiResponses
  <2> QED BY <2>1, RespondKeeps DEF AgentReads
<1>2. CASE Head(toAgent) = "steer"
  BY <1>2, SkipKeeps DEF AgentReads
<1>3. CASE Head(toAgent) = "prompt"
  <2>1. CASE agent' = "working" /\ WriteNothing /\ said' = "none"
    BY <1>3, <2>1, TakePromptKeeps DEF AgentReads
  <2>2. CASE agent' \in {"working", "silent"} /\ said' = "none" /\ \E r \in PiResponses : Write(r)
    BY <1>3, <2>2, AnswerPromptKeeps DEF AgentReads
  <2> QED BY <1>3, <2>1, <2>2 DEF AgentReads, PiResponses
<1>4. CASE Head(toAgent) = "abort"
  <2>1. CASE agent = "working"
    BY <1>4, <2>1, TakeAbortKeeps DEF AgentReads
  <2>2. CASE agent # "working"
    BY <1>4, <2>2, SkipKeeps DEF AgentReads
  <2> QED BY <2>1, <2>2
<1> QED BY <1>1, <1>2, <1>3, <1>4 DEF AgentReads

(* The agent writes a line that is not its last, a question perhaps.       *)
LEMMA WritesKeeps ==
  ASSUME AgentInv, NEW line \in AllLines \ Terminal, Write(line),
         Len(fromAgent) < MaxPipe, agent \in {"listening", "working"}, KeepLoom,
         agent = "listening" => Meaning(line) = <<>>, written' \in 0 .. MaxLines,
         Asks(line) => /\ agent' = IF agent = "working" THEN "asking" ELSE "stalled"
                       /\ asked' = IF pc \in Handshake THEN "early" ELSE "late",
         ~Asks(line) => UNCHANGED <<agent, asked>>,
         UNCHANGED <<said, toAgent>>
  PROVE  AgentInv'
<1> USE AgentAssumption DEF AgentInv, KeepConfig, KeepLoom, loomVars

<1>o. outcome = "none"
  BY DEF OutcomeIsFinal, AgentEndsWithSession, Alive
<1>w. /\ fromAgent' \in Seq(AllLines) /\ Len(fromAgent') = Len(fromAgent) + 1
      /\ Len(fromAgent) \in Nat /\ Len(fromAgent') <= MaxPipe + 1
      /\ \A i \in 1 .. Len(fromAgent') :
             fromAgent'[i] = IF i <= Len(fromAgent) THEN fromAgent[i] ELSE line
      /\ due' \in Seq(Events)
      /\ Meaning(line) = <<>> => InPipe(fromAgent') = InPipe(fromAgent)
      /\ EventsInOrder'
  BY WriteFacts, PiLineIsLine
<1>1. TypeOK'
  BY <1>w DEF TypeOK, Commands, AllLines, Over, Terminal
<1>2. SpawnIsFresh'
  BY <1>o, <1>w DEF SpawnIsFresh
<1>3. HandshakeIsQuiet'
  BY <1>o, <1>w DEF HandshakeIsQuiet, Handshake
<1>4. OneTurn'
  BY <1>o, <1>w DEF OneTurn
<1>5. TerminalsAgree'
  BY <1>o, <1>w DEF TerminalsAgree, Over
<1>6. OutcomeIsFinal'
  BY <1>o, <1>w DEF OutcomeIsFinal
<1>7. QuestionsWait'
  <2>1. Asks(line) => \E i \in 1 .. Len(fromAgent') : Asks(fromAgent'[i])
    <3>1. Len(fromAgent') \in 1 .. Len(fromAgent') /\ fromAgent'[Len(fromAgent')] = line
      BY <1>w
    <3> QED BY <3>1
  <2> QED BY <2>1 DEF QuestionsWait, QuestionOrAnswerOnItsWay, Waiting
<1>8. EventsInOrder'
  BY <1>w
<1>9. OutcomeIsTheAgents'
  BY <1>o, <1>w DEF OutcomeIsTheAgents
<1>10. AgentEndsWithSession'
  BY <1>o, <1>w DEF AgentEndsWithSession, Alive
<1> QED BY <1>1, <1>2, <1>3, <1>4, <1>5, <1>6, <1>7, <1>8, <1>9, <1>10 DEF AgentInv

(* The agent writes a line of its own accord, between its turns or in one. *)
LEMMA AgentWritesKeeps ==
  ASSUME AgentInv, AgentWrites PROVE AgentInv'
<1>1. PICK line \in IF agent = "working" THEN Lines \ (PiResponses \cup Terminal)
                    ELSE IF backend = "pi" THEN {"telemetry", "ui_select"} ELSE {"system"} :
         /\ Write(line)
         /\ IF Asks(line)
            THEN /\ agent' = IF agent = "working" THEN "asking" ELSE "stalled"
                 /\ asked' = IF pc \in Handshake THEN "early" ELSE "late"
            ELSE UNCHANGED <<agent, asked>>
  BY DEF AgentWrites
<1>2. line \in AllLines \ Terminal
  <2>1. CASE agent = "working"
    BY <1>1, <2>1 DEF Lines, AllLines
  <2>2. CASE agent # "working"
    BY <1>1, <2>2 DEF AllLines, PiLines, ClaudeLines, PiUiRequests, PiEvents, Terminal
  <2> QED BY <2>1, <2>2
<1>3. agent = "listening" => Meaning(line) = <<>>
  BY <1>1 DEF Meaning
<1>4. written' \in 0 .. MaxLines
  BY AgentAssumption DEF AgentWrites, AgentInv, TypeOK
<1>5. /\ Asks(line) => /\ agent' = IF agent = "working" THEN "asking" ELSE "stalled"
                       /\ asked' = IF pc \in Handshake THEN "early" ELSE "late"
      /\ ~Asks(line) => UNCHANGED <<agent, asked>>
  BY <1>1
<1> QED BY <1>1, <1>2, <1>3, <1>4, <1>5, WritesKeeps DEF AgentWrites

(* The agent writes the last line of its turn.                             *)
LEMMA FinishesKeeps ==
  ASSUME AgentInv, NEW line \in AllLines \cap Terminal, Write(line), said' = line,
         Len(fromAgent) < MaxPipe, agent = "working", KeepLoom, agent' \in {"listening", "silent"},
         UNCHANGED <<asked, written, toAgent>>
  PROVE  AgentInv'
<1> USE AgentAssumption DEF AgentInv, KeepConfig, KeepLoom, loomVars

<1>o. outcome = "none"
  BY DEF OutcomeIsFinal, AgentEndsWithSession, Alive
<1>w. /\ fromAgent' \in Seq(AllLines) /\ Len(fromAgent') = Len(fromAgent) + 1
      /\ Len(fromAgent) \in Nat /\ Len(fromAgent') <= MaxPipe + 1
      /\ \A i \in 1 .. Len(fromAgent') :
             fromAgent'[i] = IF i <= Len(fromAgent) THEN fromAgent[i] ELSE line
      /\ due' \in Seq(Events)
      /\ Meaning(line) = <<>> => InPipe(fromAgent') = InPipe(fromAgent)
      /\ EventsInOrder'
  BY WriteFacts, PiLineIsLine
<1>1. TypeOK'
  BY <1>w DEF TypeOK, Commands, AllLines, Over, Terminal
<1>2. SpawnIsFresh'
  BY <1>o, <1>w DEF SpawnIsFresh
<1>3. HandshakeIsQuiet'
  BY <1>o, <1>w DEF HandshakeIsQuiet, Handshake
<1>4. OneTurn'
  BY <1>o, <1>w DEF OneTurn
<1>5. TerminalsAgree'
  BY <1>o, <1>w DEF TerminalsAgree, Over, OneTurn, Terminal
<1>6. OutcomeIsFinal'
  BY <1>o, <1>w DEF OutcomeIsFinal
<1>7. QuestionsWait'
  BY <1>o, <1>w DEF QuestionsWait, Waiting, QuestionOrAnswerOnItsWay
<1>8. EventsInOrder'
  BY <1>w
<1>9. OutcomeIsTheAgents'
  BY <1>o, <1>w DEF OutcomeIsTheAgents
<1>10. AgentEndsWithSession'
  BY <1>o, <1>w DEF AgentEndsWithSession, Alive
<1> QED BY <1>1, <1>2, <1>3, <1>4, <1>5, <1>6, <1>7, <1>8, <1>9, <1>10 DEF AgentInv

(* The agent finishes with any last line of its backend.                   *)
LEMMA AgentFinishesKeeps ==
  ASSUME AgentInv, AgentFinishes PROVE AgentInv'
<1>1. PICK line \in Terminal \cap Lines : Write(line) /\ said' = line
  BY DEF AgentFinishes
<1>2. line \in AllLines \cap Terminal
  BY DEF Lines, AllLines
<1>3. agent' \in {"listening", "silent"}
  BY DEF AgentFinishes
<1> QED BY <1>1, <1>2, <1>3, FinishesKeeps DEF AgentFinishes

(* The agent takes the answer it waits for out of its stdin.               *)
LEMMA AnswerTakenKeeps ==
  ASSUME AgentInv, Waiting, KeepLoom,
         NEW k \in 1 .. Len(toAgent), toAgent' = RemoveAt(toAgent, k),
         agent' = IF agent = "asking" THEN "working" ELSE "listening", asked' = "no",
         UNCHANGED <<fromAgent, due, said, written>>
  PROVE  AgentInv'
<1> USE AgentAssumption DEF AgentInv, KeepConfig, KeepLoom, loomVars, Waiting

<1>t. /\ toAgent' \in Seq(Commands) /\ Len(toAgent) \in Nat \ {0} /\ Len(toAgent') = Len(toAgent) - 1
      /\ \A i \in 1 .. Len(toAgent') : toAgent'[i] = IF i < k THEN toAgent[i] ELSE toAgent[i + 1]
  <2>1. toAgent \in Seq(Commands)
    BY DEF TypeOK, Commands
  <2>2. /\ toAgent' \in Seq(Commands) /\ Len(toAgent') = Len(toAgent) - 1
        /\ \A j \in 1 .. Len(toAgent) - 1 : toAgent'[j] = IF j < k THEN toAgent[j] ELSE toAgent[j + 1]
    BY <2>1, Removed
  <2>3. Len(toAgent) \in Nat
    BY <2>1
  <2> QED BY <2>2, <2>3
<1>o. outcome = "none"
  BY DEF OutcomeIsFinal, AgentEndsWithSession, Alive
<1>1. TypeOK'
  BY <1>t DEF TypeOK, Commands, AllLines, Over, Terminal
<1>2. SpawnIsFresh'
  BY <1>t, <1>o DEF SpawnIsFresh
<1>3. HandshakeIsQuiet'
  BY <1>t, <1>o DEF HandshakeIsQuiet, Handshake
<1>4. OneTurn'
  BY <1>t, <1>o DEF OneTurn
<1>5. TerminalsAgree'
  BY <1>t, <1>o DEF TerminalsAgree, Over
<1>6. OutcomeIsFinal'
  BY <1>t, <1>o DEF OutcomeIsFinal
<1>7. QuestionsWait'
  BY <1>t, <1>o DEF QuestionsWait, Waiting, QuestionOrAnswerOnItsWay
<1>8. EventsInOrder'
  BY DEF EventsInOrder
<1>9. OutcomeIsTheAgents'
  BY <1>t, <1>o DEF OutcomeIsTheAgents
<1>10. AgentEndsWithSession'
  BY <1>t, <1>o DEF AgentEndsWithSession, Alive
<1> QED BY <1>1, <1>2, <1>3, <1>4, <1>5, <1>6, <1>7, <1>8, <1>9, <1>10 DEF AgentInv

(* The agent gets the answer to its question.                              *)
LEMMA AgentGetsAnswerKeeps ==
  ASSUME AgentInv, AgentGetsAnswer PROVE AgentInv'
BY AnswerTakenKeeps DEF AgentGetsAnswer

(* Nothing happens.                                                        *)
LEMMA AgentStuttering ==
  ASSUME AgentInv, UNCHANGED vars PROVE AgentInv'
BY DEF AgentInv, vars, loomVars, agentVars, TypeOK, SpawnIsFresh, HandshakeIsQuiet,
       OneTurn, TerminalsAgree,
       OutcomeIsFinal, QuestionsWait, EventsInOrder, OutcomeIsTheAgents, AgentEndsWithSession,
       Handshake, Over, Waiting, Alive, QuestionOrAnswerOnItsWay

(* The invariant holds before the agent is launched.                       *)
LEMMA AgentStarts ==
  ASSUME Init PROVE AgentInv
<1> USE AgentAssumption DEF Init
<1>1. TypeOK BY DEF TypeOK, Terminal, Over
<1> QED BY <1>1, InPipeEmpty DEF AgentInv, SpawnIsFresh, HandshakeIsQuiet, OneTurn, TerminalsAgree,
       OutcomeIsFinal, QuestionsWait, EventsInOrder, OutcomeIsTheAgents, AgentEndsWithSession,
       Handshake, Over, Alive

(* Every step of loom, of its caller and of the agent keeps the invariant. *)
LEMMA AgentStepKeeps ==
  ASSUME AgentInv, [Next]_vars PROVE AgentInv'
<1>1. CASE LoomStep
  <2>1. CASE Probe
    BY <2>1, SendsKeeps DEF Probe
  <2>2. CASE SetModel
    BY <2>2, SendsKeeps DEF SetModel
  <2>3. CASE AwaitProbe
    <3>1. (IF model THEN "set_model" ELSE "idle") \in {"set_model", "idle"}
      OBVIOUS
    <3> QED BY <2>3, <3>1, AwaitResponseKeeps DEF AwaitProbe
  <2>4. CASE AwaitModel
    BY <2>4, AwaitResponseKeeps DEF AwaitModel
  <2> QED BY <1>1, <2>1, <2>2, <2>3, <2>4, SpawnKeeps, EndOfOutputKeeps, NextPendingKeeps,
             NextLineKeeps, WaitEndsKeeps, WaitTimesOutKeeps DEF LoomStep
<1>2. CASE Prompt
  BY <1>2, PromptKeeps
<1>3. CASE CallerStep
  <2>1. CASE Steer
    BY <2>1, SendsKeeps DEF Steer
  <2> QED BY <1>3, <2>1, AbortKeeps, CallerDropsKeeps, BeginShutdownKeeps DEF CallerStep
<1>4. CASE LoomDies
  BY <1>4, LoomDiesKeeps
<1>5. CASE AgentStep
  BY <1>5, AgentGetsAnswerKeeps, AgentReadsKeeps, AgentWritesKeeps, AgentFinishesKeeps
  DEF AgentStep
<1>6. CASE AgentDies
  BY <1>6, AgentDiesKeeps
<1>7. CASE UNCHANGED vars
  BY <1>7, AgentStuttering
<1> QED BY <1>1, <1>2, <1>3, <1>4, <1>5, <1>6, <1>7 DEF Next

(***************************************************************************)
(* Theorems                                                                *)
(***************************************************************************)
(* The inductive invariant of a session, from spawn on: run_agent's one    *)
(* turn, the kept events, the lines in both pipes and the agent's last     *)
(* line go together.                                                       *)
THEOREM AgentInvariance == Spec => []AgentInv
<1>1. Init => AgentInv
  BY AgentStarts
<1>2. AgentInv /\ [Next]_vars => AgentInv'
  BY AgentStepKeeps
<1> QED BY <1>1, <1>2, PTL DEF Spec

(* The session, its pipes and its agent keep their types.                  *)
THEOREM AgentTypeCorrect == Spec => []TypeOK
<1>1. AgentInv => TypeOK
  BY DEF AgentInv
<1> QED BY <1>1, AgentInvariance, PTL

(* next_event of AgentSession: the caller is due exactly the events of the *)
(* agent's lines, each once and in their order, for pipes of any length    *)
(* and agents that write any number of lines.                              *)
THEOREM CallersGetAllEvents == Spec => []EventsInOrder
<1>1. AgentInv => EventsInOrder
  BY DEF AgentInv
<1> QED BY <1>1, AgentInvariance, PTL

(* run_agent returns the exit code that the agent's last line stands for,  *)
(* and an error for an agent that wrote none.                              *)
THEOREM OutcomesAreTheAgents == Spec => []OutcomeIsTheAgents
<1>1. AgentInv => OutcomeIsTheAgents
  BY DEF AgentInv
<1> QED BY <1>1, AgentInvariance, PTL

(* next_event answers: while loom waits for a line of an agent that        *)
(* stopped to ask after the handshake, the question or its answer is on    *)
(* its way.                                                                *)
THEOREM QuestionsGetAnswers == Spec => []QuestionsAreAnswered
<1>1. AgentInv => QuestionsAreAnswered
  BY DEF AgentInv, QuestionsWait, QuestionsAreAnswered
<1> QED BY <1>1, AgentInvariance, PTL

(* kill_on_drop and shutdown_after_result: a session that loom is done     *)
(* with has no process left, whoever drove it and however it ended.        *)
THEOREM NoAgentOutlivesItsSession == Spec => []AgentEndsWithSession
<1>1. AgentInv => AgentEndsWithSession
  BY DEF AgentInv
<1> QED BY <1>1, AgentInvariance, PTL
=============================================================================
